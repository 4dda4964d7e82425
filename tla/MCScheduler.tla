----------------------------- MODULE MCScheduler -----------------------------
(* Small instances of Scheduler.  The first two requests share a name and a *)
(* display, the third one is unnamed, headless and without a failure limit. *)
EXTENDS SchedulerLedger, TLC

CONSTANTS r1, r2, r3, picom, x0

MCName == [r \in Requests |-> IF r = r3 THEN NoName ELSE picom]

MCDisplay == [r \in Requests |-> IF r = r3 THEN Headless ELSE x0]

MCHash == [r \in Requests |-> r]

MCNameDisplayHash == [r \in Requests |-> <<MCName[r], MCDisplay[r]>>]

MCMaxSubsequentFailures ==
  [r \in Requests |-> IF r = r1 THEN 1 ELSE IF r = r2 THEN 0 ELSE -1]

Symmetry == Permutations(Pointers) \union Permutations(Launches)

=============================================================================
