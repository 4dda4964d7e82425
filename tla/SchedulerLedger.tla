--------------------------- MODULE SchedulerLedger ---------------------------
(* Scheduler keeps the ledger of TaskLedger, unless a resume overtakes the   *)
(* returning goroutine of its task or a file operation fails: an entry is a  *)
(* task in memory or a line of the file.                                     *)
EXTENDS Scheduler

Clash ==
  {pair \in Requests \X Requests :
     \/ Hash[pair[1]] = Hash[pair[2]]
     \/ Name[pair[1]] # NoName /\ NameDisplayHash[pair[1]] = NameDisplayHash[pair[2]]}

EntryOf(a) ==
  [req |-> a.req, active |-> ~a.dyn.deactivated, runs |-> a.dyn.runs,
   failures |-> a.dyn.failures, streak |-> a.dyn.subsequent]

Entries ==
  [i \in KnownIds |-> EntryOf(CHOOSE a \in KnownRecords : a.id = i)]

Ledger == INSTANCE TaskLedger WITH
  Limit <- MaxSubsequentFailures,
  OnDisplay <- {r \in Requests : Display[r] # Headless},
  issued <- currentId,
  ledger <- Entries

(* Every step of the scheduler is a step of the ledger or leaves it alone:   *)
(* an execution counts once although it is published from a private copy,    *)
(* trimming and extracting do not show, and a rejected resume is the only    *)
(* loss as long as no file operation fails (scheduler.go:26, 103 and 265,    *)
(* execute_task.go:182; what failures lose is LossesExplained of             *)
(* TaskArchive).                                                             *)
LedgerSpec == Ledger!Spec

=============================================================================
