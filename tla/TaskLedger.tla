------------------------------ MODULE TaskLedger ------------------------------
(***************************************************************************)
(* What the backend promises about the tasks it accepted as long as its    *)
(* file operations succeed, without lists, files, goroutines or copies: a  *)
(* ledger with an entry for each task, from the run that accepted it to    *)
(* the resume that was turned down, and the number of ids handed out.      *)
(***************************************************************************)
EXTENDS Integers

CONSTANTS
  Requests,   \* what a task may be asked to run
  Limit,      \* failures in a row that deactivate, negative for no limit
  Clash,      \* pairs: the first, while active, keeps the second from starting
  OnDisplay,  \* requests that need a display, which may turn out invalid
  MaxId,      \* bound: ids handed out
  MaxCount    \* bound: counters saturate here

VARIABLES issued, ledger

vars == <<issued, ledger>>

Entry == [req : Requests, active : BOOLEAN, runs : 0 .. MaxCount,
          failures : 0 .. MaxCount, streak : 0 .. MaxCount]

TypeOK ==
  /\ issued \in 0 .. MaxId
  /\ DOMAIN ledger \subseteq 0 .. issued - 1
  /\ ledger \in [DOMAIN ledger -> Entry]

Init == issued = 0 /\ ledger = [i \in {} |-> i]

Put(i, entry) ==
  ledger' = [j \in DOMAIN ledger \union {i} |-> IF j = i THEN entry ELSE ledger[j]]

Clashes(r, ids) == \E i \in ids : ledger[i].active /\ <<ledger[i].req, r>> \in Clash

TurnedDown(r, ids) == Clashes(r, ids) \/ r \in OnDisplay

Next1(n) == IF n < MaxCount THEN n + 1 ELSE n

-----------------------------------------------------------------------------

Accept(r) ==
  /\ issued < MaxId
  /\ ~Clashes(r, DOMAIN ledger)
  /\ issued' = issued + 1
  /\ Put(issued, [req |-> r, active |-> TRUE, runs |-> 0, failures |-> 0, streak |-> 0])

(* The id of a run that is turned down is never used again. *)
Reject(r) ==
  /\ issued < MaxId
  /\ TurnedDown(r, DOMAIN ledger)
  /\ issued' = issued + 1
  /\ UNCHANGED ledger

(* An execution of an active task counts once.  A failure that reaches the *)
(* limit deactivates; so may a stop or the shutdown that ended it.         *)
Execution(i) ==
  \E success, active \in BOOLEAN :
    LET e == ledger[i]
        streak == IF success THEN 0 ELSE Next1(e.streak)
    IN  /\ e.active
        /\ active => Limit[e.req] < 0 \/ streak < Limit[e.req]
        /\ Put(i, [e EXCEPT !.active = active, !.runs = Next1(@), !.streak = streak,
                            !.failures = IF success THEN @ ELSE Next1(@)])
        /\ UNCHANGED issued

Deactivate(i) ==
  /\ ledger[i].active
  /\ Put(i, [ledger[i] EXCEPT !.active = FALSE])
  /\ UNCHANGED issued

(* A resumed task keeps its id and its counters. *)
Resume(i) ==
  /\ ~ledger[i].active
  /\ ~Clashes(ledger[i].req, DOMAIN ledger \ {i})
  /\ Put(i, [ledger[i] EXCEPT !.active = TRUE, !.streak = 0])
  /\ UNCHANGED issued

(* The one way to lose a task while the file is read and written. *)
ForgetOnResume(i) ==
  /\ ~ledger[i].active
  /\ TurnedDown(ledger[i].req, DOMAIN ledger \ {i})
  /\ ledger' = [j \in DOMAIN ledger \ {i} |-> ledger[j]]
  /\ UNCHANGED issued

Next ==
  \/ \E r \in Requests : Accept(r) \/ Reject(r)
  \/ \E i \in DOMAIN ledger : Execution(i) \/ Deactivate(i) \/ Resume(i) \/ ForgetOnResume(i)

Spec == Init /\ [][Next]_vars

=============================================================================
