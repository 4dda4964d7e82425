------------------------------ MODULE Scheduler ------------------------------
(***************************************************************************)
(* The task scheduler of the backend: the list of tasks in memory, the     *)
(* file of trimmed tasks, the commands of the frontends that change them   *)
(* and the goroutine ExecuteTask that runs each task.                      *)
(*                                                                         *)
(* Everything the code does between Lock and Unlock of Scheduler.lock is   *)
(* one step here.  ExecuteTask is several steps: it works on a private     *)
(* copy of task.Dynamic ("shadow") and takes the lock only to copy and to  *)
(* publish it, so commands interleave with it everywhere else.             *)
(*                                                                         *)
(* A pointer stands for the memory of one *Task, a launch for one call of  *)
(* Task.Init: it names both the channels Init makes and the goroutine      *)
(* started after it.  Both are reused once nothing refers to them.         *)
(***************************************************************************)
EXTENDS Integers, FiniteSets

CONSTANTS
  Requests,               \* bodies of run requests
  Name,                   \* FriendlyName of a request
  NoName,                 \* the empty friendly name
  Display,                \* display selection of a request
  Headless,               \* the selection DisplaySelectionTypeHeadless
  Hash,                   \* Computed.Hash of a request
  NameDisplayHash,        \* Computed.NameDisplayHash of a request
  MaxSubsequentFailures,  \* failure limit of a request, negative: no limit
  Pointers,               \* addresses of Task structs
  Launches,               \* calls of Task.Init
  NoLaunch,               \* channels that no goroutine was started for
  MaxId,                  \* bound: task ids handed out
  MaxCount,               \* bound: counters saturate here
  MaxLines,               \* bound: lines that faults leave in the ndjson file
  EagerResume,            \* may a resume overtake the returning goroutine?
  LoggerFaults,           \* may the per-task logger fail?
  FileFaults              \* may writes to the ndjson file fail, or lines of
                          \* it get too long to be read?

ASSUME RequestAssumption ==
  /\ MaxSubsequentFailures \in [Requests -> Int]
  /\ \A r, s \in Requests :
       Name[r] = Name[s] /\ Display[r] = Display[s]
         => NameDisplayHash[r] = NameDisplayHash[s]

ASSUME BoundAssumption ==
  /\ MaxId \in Nat
  /\ {MaxCount, MaxLines} \subseteq Nat
  /\ \A r \in Requests : MaxSubsequentFailures[r] <= MaxCount

ASSUME LaunchAssumption == NoLaunch \notin Launches

ASSUME SwitchAssumption == {EagerResume, LoggerFaults, FileFaults} \subseteq BOOLEAN

VARIABLES
  currentId,  \* Scheduler.currentId
  tasks,      \* Scheduler.tasks, as the set of its pointers
  heap,       \* the Task structs that are still referenced
  archive,    \* the lines of the ndjson file of deactivated tasks that
              \* can be read
  runner,     \* the ExecuteTask goroutines that have not returned
  stopSent,   \* launches whose StopChannel (capacity 1) holds a message
  killed      \* has the backend context been killed?

vars == <<currentId, tasks, heap, archive, runner, stopSent, killed>>

-----------------------------------------------------------------------------
(* Data *)

Channels == Launches \union {NoLaunch}

Dynamic == [runs : 0 .. MaxCount, failures : 0 .. MaxCount,
            subsequent : 0 .. MaxCount, deactivated : BOOLEAN]

Task == [id : 0 .. MaxId - 1, req : Requests, chan : Channels, dyn : Dynamic]

Archived == [id : 0 .. MaxId - 1, req : Requests, dyn : Dynamic]

Runner == [pc : {"starting", "loop", "running", "publish", "delay", "final",
                 "hung"},
           task : Pointers, shadow : Dynamic, chan : Channels]

NewDynamic ==
  [runs |-> 0, failures |-> 0, subsequent |-> 0, deactivated |-> FALSE]

With(f, x, v) == [y \in DOMAIN f \union {x} |-> IF y = x THEN v ELSE f[y]]

Without(f, x) == [y \in DOMAIN f \ {x} |-> f[y]]

(* The structs that the list or a goroutine still points to; the garbage   *)
(* collector may free the others.                                          *)
Collect(h, ts, rs) ==
  [p \in {q \in DOMAIN h : q \in ts \/ \E l \in DOMAIN rs : rs[l].task = q}
     |-> h[p]]

FreshLaunches ==
  {l \in Launches \ DOMAIN runner :
     /\ \A p \in DOMAIN heap : heap[p].chan # l
     /\ \A k \in DOMAIN runner : runner[k].chan # l}

Record(p) == [id |-> heap[p].id, req |-> heap[p].req, dyn |-> heap[p].dyn]

TypeOK ==
  /\ currentId \in 0 .. MaxId
  /\ tasks \subseteq DOMAIN heap
  /\ DOMAIN heap \subseteq Pointers
  /\ heap \in [DOMAIN heap -> Task]
  /\ archive \subseteq Archived
  /\ DOMAIN runner \subseteq Launches
  /\ runner \in [DOMAIN runner -> Runner]
  /\ \A l \in DOMAIN runner : runner[l].task \in DOMAIN heap
  /\ stopSent \subseteq Channels
  /\ killed \in BOOLEAN

Init ==
  /\ currentId = 0
  /\ tasks = {}
  /\ heap = [p \in {} |-> p]
  /\ archive = {}
  /\ runner = [l \in {} |-> l]
  /\ stopSent = {}
  /\ killed = FALSE

-----------------------------------------------------------------------------
(* Pieces of the scheduler's critical sections *)

(* Mutant: the counters restart as well. *)
InitialisedFromZero(id, r, dyn, l) ==
  [id |-> id, req |-> r, chan |-> l, dyn |-> NewDynamic]

(* Mutant: the id is incremented before it is used. *)
InitialisedLate(id, r, dyn, l) ==
  [id |-> id + 1, req |-> r, chan |-> l,
   dyn |-> [dyn EXCEPT !.subsequent = 0, !.deactivated = FALSE]]

(* Mutant: the failures before a resume count towards the limit. *)
InitialisedWithStreak(id, r, dyn, l) ==
  [id |-> id, req |-> r, chan |-> l, dyn |-> [dyn EXCEPT !.deactivated = FALSE]]

(* Task.Init resets what a former life of the task left behind. *)
Initialised(id, r, dyn, l) ==
  [id |-> id, req |-> r, chan |-> l,
   dyn |-> [dyn EXCEPT !.subsequent = 0, !.deactivated = FALSE]]

(* Mutant: only identical requests conflict. *)
CheckForTwin(r, others) ==
  \E p \in others : ~heap[p].dyn.deactivated /\ Hash[heap[p].req] = Hash[r]

CheckForTaskConflict(r, others) ==
  \E p \in others :
    /\ ~heap[p].dyn.deactivated
    /\ \/ Hash[heap[p].req] = Hash[r]
       \/ /\ Name[heap[p].req] # NoName
          /\ NameDisplayHash[heap[p].req] = NameDisplayHash[r]

(* A display that cannot be watched rejects the task; DisplayWatch models  *)
(* what InitDisplay does.                                                  *)
MayReject(r, others) == CheckForTaskConflict(r, others) \/ Display[r] # Headless

StartGoroutine(l, p) ==
  /\ runner' = With(runner, l, [pc |-> "starting", task |-> p,
                                shadow |-> NewDynamic, chan |-> NoLaunch])
  /\ stopSent' = stopSent \ {l}

-----------------------------------------------------------------------------
(* Commands of the frontends and of the backend's own goroutines *)

(* TryRunTask.  The id is consumed before the checks. *)
RunAccepted(r) ==
  /\ currentId < MaxId
  /\ ~CheckForTaskConflict(r, tasks)
  /\ \E p \in Pointers \ DOMAIN heap, l \in FreshLaunches :
       /\ heap' = With(heap, p, Initialised(currentId, r, NewDynamic, l))
       /\ tasks' = tasks \union {p}
       /\ StartGoroutine(l, p)
  /\ currentId' = currentId + 1
  /\ UNCHANGED <<archive, killed>>

RunRejected(r) ==
  /\ currentId < MaxId
  /\ MayReject(r, tasks)
  /\ currentId' = currentId + 1
  /\ UNCHANGED <<tasks, heap, archive, runner, stopSent, killed>>

(* CmdResume of a task still in memory: it is taken off the list and       *)
(* initialised first, and appended again only if the checks pass.          *)
MayResume(p) ==
  /\ heap[p].dyn.deactivated
  /\ EagerResume \/ \A l \in DOMAIN runner : runner[l].task # p

ResumeFromMemory(p) ==
  /\ MayResume(p)
  /\ ~CheckForTaskConflict(heap[p].req, tasks \ {p})
  /\ \E l \in FreshLaunches :
       /\ heap' = [heap EXCEPT ![p] = Initialised(@.id, @.req, @.dyn, l)]
       /\ StartGoroutine(l, p)
  /\ UNCHANGED <<currentId, tasks, archive, killed>>

ResumeFromMemoryRejected(p) ==
  /\ MayResume(p)
  /\ MayReject(heap[p].req, tasks \ {p})
  /\ tasks' = tasks \ {p}
  /\ heap' = Collect([heap EXCEPT ![p] = Initialised(@.id, @.req, @.dyn, NoLaunch)],
                     tasks', runner)
  /\ UNCHANGED <<currentId, archive, runner, stopSent, killed>>

(* CmdResume of a trimmed task: the file is rewritten without its line.    *)
(* Lines at or behind one that is too long go with it, and a second line   *)
(* of the task, which a failed write can leave, stays.  TaskArchive says   *)
(* which; here it is any.                                                  *)
(* Mutant: the line stays in the file. *)
FileUnchanged(a) == {archive}

FileWithout(a) == IF FileFaults THEN SUBSET archive ELSE {archive \ {a}}

(* Mutant: the list is not searched first. *)
NotSearched(id) == TRUE

NotInMemory(id) == \A p \in tasks : heap[p].id # id

ResumeFromFile(a) ==
  /\ NotInMemory(a.id)
  /\ ~CheckForTaskConflict(a.req, tasks)
  /\ \E p \in Pointers \ DOMAIN heap, l \in FreshLaunches :
       /\ heap' = With(heap, p, Initialised(a.id, a.req, a.dyn, l))
       /\ tasks' = tasks \union {p}
       /\ StartGoroutine(l, p)
  /\ archive' \in FileWithout(a)
  /\ UNCHANGED <<currentId, killed>>

ResumeFromFileRejected(a) ==
  /\ NotInMemory(a.id)
  /\ MayReject(a.req, tasks)
  /\ archive' \in FileWithout(a)
  /\ UNCHANGED <<currentId, tasks, heap, runner, stopSent, killed>>

(* The copy fails after the file was truncated: the answer is "not found". *)
ResumeFromFileFails(a) ==
  /\ FileFaults
  /\ NotInMemory(a.id)
  /\ archive' \in FileWithout(a)
  /\ UNCHANGED <<currentId, tasks, heap, runner, stopSent, killed>>

(* CmdStop: a send that drops the message when the channel is full. *)
Stop(p) ==
  /\ ~heap[p].dyn.deactivated
  /\ stopSent' = stopSent \union {heap[p].chan}
  /\ UNCHANGED <<currentId, tasks, heap, archive, runner, killed>>

(* StopTasksByDisplay: sends to every task of the display, deactivated or  *)
(* not.  The sends block while a channel is full; here the whole step      *)
(* waits, DisplayWatch has the blocked sender.                             *)
StopTasksByDisplay(d) ==
  LET targets == {p \in tasks : Display[heap[p].req] = d}
  IN  /\ targets # {}
      /\ \A p \in targets : heap[p].chan \notin stopSent
      /\ stopSent' = stopSent \union {heap[p].chan : p \in targets}
      /\ UNCHANGED <<currentId, tasks, heap, archive, runner, killed>>

(* CmdRefresh: wakes goroutines that wait between two executions and still *)
(* listen on the channel the task has now.                                 *)
Refreshable ==
  {l \in DOMAIN runner : /\ runner[l].pc = "delay"
                         /\ runner[l].task \in tasks
                         /\ heap[runner[l].task].chan = runner[l].chan}

Refresh ==
  \E woken \in SUBSET Refreshable :
    /\ woken # {}
    /\ \A k, l \in woken : runner[k].chan = runner[l].chan => k = l
    /\ runner' = [l \in DOMAIN runner |->
                    IF l \in woken
                    THEN [runner[l] EXCEPT !.pc = "loop", !.chan = NoLaunch]
                    ELSE runner[l]]
    /\ UNCHANGED <<currentId, tasks, heap, archive, stopSent, killed>>

TasksToDeactivate == {p \in tasks : heap[p].dyn.deactivated}

(* The lines after the tasks "written" were.  A write that fails may leave *)
(* all of the line but its newline, although the task stays in memory, or  *)
(* a torn line that takes another one with it.                             *)
FileWith(written) ==
  IF FileFaults
  THEN {f \in SUBSET (archive \union {Record(p) : p \in TasksToDeactivate}) :
          Cardinality(f) <= MaxLines}
  ELSE {archive \union {Record(p) : p \in written}}

(* Trim: a task whose line could not be written stays in memory. *)
Trim ==
  /\ TasksToDeactivate # {}
  /\ \E written \in SUBSET TasksToDeactivate :
       /\ archive' \in FileWith(written)
       /\ tasks' = tasks \ written
       /\ heap' = Collect(heap, tasks', runner)
       /\ UNCHANGED <<currentId, runner, stopSent, killed>>

Kill ==
  /\ ~killed
  /\ killed' = TRUE
  /\ UNCHANGED <<currentId, tasks, heap, archive, runner, stopSent>>

-----------------------------------------------------------------------------
(* The goroutine ExecuteTask *)

At(l, pc) == runner[l].pc = pc

Goto(l, pc, shadow, chan) ==
  runner' = [runner EXCEPT ![l] = [@ EXCEPT !.pc = pc, !.shadow = shadow,
                                            !.chan = chan]]

Deactivated(s) == [s EXCEPT !.deactivated = TRUE]

Increment(n) == IF n < MaxCount THEN n + 1 ELSE n

(* Mutant: the limit is exceeded before the task is deactivated. *)
CountedPastLimit(s, success, limit) ==
  LET subsequent == IF success THEN 0 ELSE Increment(s.subsequent)
  IN  [runs |-> Increment(s.runs),
       failures |-> IF success THEN s.failures ELSE Increment(s.failures),
       subsequent |-> subsequent,
       deactivated |-> s.deactivated \/ (limit >= 0 /\ subsequent > limit)]

(* Counters and the failure limit after an execution. *)
Counted(s, success, limit) ==
  LET subsequent == IF success THEN 0 ELSE Increment(s.subsequent)
  IN  [runs |-> Increment(s.runs),
       failures |-> IF success THEN s.failures ELSE Increment(s.failures),
       subsequent |-> subsequent,
       deactivated |-> s.deactivated \/ (limit >= 0 /\ subsequent >= limit)]

LimitOf(l) == MaxSubsequentFailures[heap[runner[l].task].req]

(* Once the context is killed the cleanup goroutine removes the directory  *)
(* the loggers create their files in.                                      *)
LoggerMayFail == LoggerFaults \/ killed

(* The goroutine returns without touching the task. *)
LoggerCreationFails(l) ==
  /\ LoggerMayFail
  /\ At(l, "starting")
  /\ runner' = Without(runner, l)
  /\ heap' = Collect(heap, tasks, runner')
  /\ UNCHANGED <<currentId, tasks, archive, stopSent, killed>>

CopyDynamicState(l) ==
  /\ At(l, "starting")
  /\ LET s == heap[runner[l].task].dyn
     IN  Goto(l, IF s.deactivated THEN "final" ELSE "loop", s, NoLaunch)
  /\ UNCHANGED <<currentId, tasks, heap, archive, stopSent, killed>>

(* The select evaluates task.Channels.StopChannel when it is entered. *)
StartCommand(l) ==
  /\ At(l, "loop")
  /\ ~killed
  /\ Goto(l, "running", runner[l].shadow, heap[runner[l].task].chan)
  /\ UNCHANGED <<currentId, tasks, heap, archive, stopSent, killed>>

StartFails(l) ==
  /\ At(l, "loop")
  /\ Goto(l, "final", Deactivated(runner[l].shadow), NoLaunch)
  /\ UNCHANGED <<currentId, tasks, heap, archive, stopSent, killed>>

CommandEnds(l) ==
  /\ At(l, "running")
  /\ \E success \in BOOLEAN :
       Goto(l, "publish", Counted(runner[l].shadow, success, LimitOf(l)), NoLaunch)
  /\ UNCHANGED <<currentId, tasks, heap, archive, stopSent, killed>>

StopReceived(l) ==
  /\ At(l, "running")
  /\ runner[l].chan \in stopSent
  /\ stopSent' = stopSent \ {runner[l].chan}
  /\ Goto(l, "publish",
          Counted(Deactivated(runner[l].shadow), FALSE, LimitOf(l)), NoLaunch)
  /\ UNCHANGED <<currentId, tasks, heap, archive, killed>>

ContextDone(l) ==
  /\ At(l, "running")
  /\ killed
  /\ Goto(l, "publish",
          Counted(Deactivated(runner[l].shadow), FALSE, LimitOf(l)), NoLaunch)
  /\ UNCHANGED <<currentId, tasks, heap, archive, stopSent, killed>>

(* Mutant: the delay is not skipped for a deactivated task. *)
PublishThenDelay(l) ==
  LET p == runner[l].task
  IN  /\ At(l, "publish")
      /\ heap' = [heap EXCEPT ![p].dyn = runner[l].shadow]
      /\ Goto(l, "delay", runner[l].shadow, heap[p].chan)
      /\ UNCHANGED <<currentId, tasks, archive, stopSent, killed>>

Publish(l) ==
  LET p == runner[l].task
      s == runner[l].shadow
  IN  /\ At(l, "publish")
      /\ heap' = [heap EXCEPT ![p].dyn = s]
      /\ IF s.deactivated
         THEN Goto(l, "final", s, NoLaunch)
         ELSE Goto(l, "delay", s, heap[p].chan)
      /\ UNCHANGED <<currentId, tasks, archive, stopSent, killed>>

DelayElapses(l) ==
  /\ At(l, "delay")
  /\ Goto(l, "loop", runner[l].shadow, NoLaunch)
  /\ UNCHANGED <<currentId, tasks, heap, archive, stopSent, killed>>

(* Mutant: a stop ends the delay, as a refresh does. *)
StopEndsDelay(l) ==
  /\ At(l, "delay")
  /\ runner[l].chan \in stopSent
  /\ stopSent' = stopSent \ {runner[l].chan}
  /\ Goto(l, "loop", runner[l].shadow, NoLaunch)
  /\ UNCHANGED <<currentId, tasks, heap, archive, killed>>

StopDuringDelay(l) ==
  /\ At(l, "delay")
  /\ runner[l].chan \in stopSent
  /\ stopSent' = stopSent \ {runner[l].chan}
  /\ Goto(l, "final", Deactivated(runner[l].shadow), NoLaunch)
  /\ UNCHANGED <<currentId, tasks, heap, archive, killed>>

ContextDoneDuringDelay(l) ==
  /\ At(l, "delay")
  /\ killed
  /\ Goto(l, "final", Deactivated(runner[l].shadow), NoLaunch)
  /\ UNCHANGED <<currentId, tasks, heap, archive, stopSent, killed>>

(* Mutant: the update after the loop is missing. *)
ReturnWithoutPublish(l) ==
  /\ At(l, "final")
  /\ runner' = Without(runner, l)
  /\ heap' = Collect(heap, tasks, runner')
  /\ UNCHANGED <<currentId, tasks, archive, stopSent, killed>>

(* The second update of task.Dynamic, and the return of the goroutine.     *)
(* The deferred stop of a logger that failed may keep it for ever, but it  *)
(* has no more to do with the task.                                        *)
FinalPublish(l) ==
  /\ At(l, "final")
  /\ runner' = Without(runner, l)
  /\ heap' = Collect([heap EXCEPT ![runner[l].task].dyn = runner[l].shadow],
                     tasks, runner')
  /\ UNCHANGED <<currentId, tasks, archive, stopSent, killed>>

(* A logger that failed has left its loop: the next message to it blocks   *)
(* the goroutine for ever.                                                 *)
LoggerDies(l) ==
  /\ LoggerMayFail
  /\ \/ /\ runner[l].pc \in {"loop", "running"}
        /\ UNCHANGED stopSent
     \/ /\ runner[l].pc \in {"running", "delay"}
        /\ runner[l].chan \in stopSent
        /\ stopSent' = stopSent \ {runner[l].chan}
     \/ /\ At(l, "delay")
        /\ killed
        /\ UNCHANGED stopSent
  /\ Goto(l, "hung", runner[l].shadow, NoLaunch)
  /\ UNCHANGED <<currentId, tasks, heap, archive, killed>>

-----------------------------------------------------------------------------
(* Specification *)

Command ==
  \/ \E r \in Requests : RunAccepted(r) \/ RunRejected(r)
  \/ \E p \in tasks : ResumeFromMemory(p) \/ ResumeFromMemoryRejected(p) \/ Stop(p)
  \/ \E a \in archive :
       ResumeFromFile(a) \/ ResumeFromFileRejected(a) \/ ResumeFromFileFails(a)
  \/ \E d \in {Display[r] : r \in Requests} \ {Headless} : StopTasksByDisplay(d)
  \/ Refresh
  \/ Trim
  \/ Kill

ExecuteTask(l) ==
  \/ LoggerCreationFails(l)
  \/ CopyDynamicState(l)
  \/ StartCommand(l)
  \/ StartFails(l)
  \/ CommandEnds(l)
  \/ StopReceived(l)
  \/ ContextDone(l)
  \/ Publish(l)
  \/ DelayElapses(l)
  \/ StopDuringDelay(l)
  \/ ContextDoneDuringDelay(l)
  \/ FinalPublish(l)
  \/ LoggerDies(l)

Next == Command \/ \E l \in DOMAIN runner : ExecuteTask(l)

Spec == Init /\ [][Next]_vars

(* A goroutine that can take a step on its own eventually takes it; that a *)
(* command ends is not assumed.  The select of Go picks at random among    *)
(* the ready channels, so a stop message that is ready again and again is  *)
(* received.                                                               *)
Proceeds(l) ==
  /\ l \in DOMAIN runner
  /\ \/ CopyDynamicState(l)
     \/ StartCommand(l)
     \/ StartFails(l)
     \/ ContextDone(l)
     \/ Publish(l)
     \/ DelayElapses(l)
     \/ ContextDoneDuringDelay(l)
     \/ FinalPublish(l)

TakesStop(l) ==
  /\ l \in DOMAIN runner
  /\ StopReceived(l) \/ StopDuringDelay(l)

FairSpec ==
  /\ Spec
  /\ \A l \in Launches : WF_vars(Proceeds(l)) /\ SF_vars(TakesStop(l))

-----------------------------------------------------------------------------
(* Properties *)

Active(p) == p \in tasks /\ ~heap[p].dyn.deactivated

KnownRecords == {Record(p) : p \in tasks} \union archive

KnownIds == {a.id : a \in KnownRecords}

(* However the file fails, also with a line of a task that is still in     *)
(* memory or two lines of one task in it: no two tasks in memory share an  *)
(* id, nor will a run get one that is taken (scheduler.go:112, where       *)
(* ExtractDeactivatedTask looks in memory first).                          *)
OneTaskPerId ==
  /\ \A p, q \in tasks : heap[p].id = heap[q].id => p = q
  /\ \A p \in tasks : heap[p].id < currentId

(* An id names one task as long as the file is written: no two tasks in    *)
(* memory, no task in memory and a line of the file, and no two lines      *)
(* share an id, however often tasks are trimmed and resumed                *)
(* (scheduler.go:103, ExtractDeactivatedTask, stops at the first match).   *)
UniqueIds ==
  /\ \A p, q \in tasks : heap[p].id = heap[q].id => p = q
  /\ \A p \in tasks, a \in archive : heap[p].id # a.id
  /\ \A a, b \in archive : a.id = b.id => a = b
  /\ \A p \in tasks : heap[p].id < currentId
  /\ \A a \in archive : a.id < currentId

(* No execution follows a run of failures of the length of the limit, and  *)
(* a task at its limit is not reported as active, also after resumes       *)
(* (execute_task.go:191; a limit of 0 allows one execution).               *)
LimitRespected ==
  /\ \A l \in DOMAIN runner :
       At(l, "delay") => \/ LimitOf(l) < 0
                         \/ runner[l].shadow.subsequent < LimitOf(l)
  /\ \A p \in tasks :
       LET limit == MaxSubsequentFailures[heap[p].req]
       IN  Active(p) => limit <= 0 \/ heap[p].dyn.subsequent < limit

(* Until the backend is killed an active task has a goroutine that watches *)
(* it (task.go:14), whichever of its goroutines published last.            *)
ActiveHasRunner ==
  \A p \in tasks :
    Active(p) => killed \/ \E l \in DOMAIN runner : runner[l].task = p

(* task.go:114: there is only one active task with a given name on a       *)
(* display.                                                                *)
OneTaskPerNameAndDisplay ==
  \A p, q \in tasks :
    /\ Active(p)
    /\ Active(q)
    /\ Name[heap[p].req] = Name[heap[q].req]
    /\ Display[heap[p].req] = Display[heap[q].req]
    => p = q \/ Name[heap[p].req] = NoName

(* Two active tasks never conflict in the sense of scheduler.go:195: no    *)
(* two from requests with the same hash or, if both have a name, with the  *)
(* same hash of name and display, although goroutines publish and resumes  *)
(* reactivate without looking at each other.  (The code asks for a name    *)
(* only of the task that came first, so a collision of the hashes of a     *)
(* named and an unnamed request is turned down in one order only.)         *)
NoConflictingTasks ==
  \A p, q \in tasks :
    Active(p) /\ Active(q) /\ p # q =>
      /\ Hash[heap[p].req] # Hash[heap[q].req]
      /\ \/ NoName \in {Name[heap[p].req], Name[heap[q].req]}
         \/ NameDisplayHash[heap[p].req] # NameDisplayHash[heap[q].req]

(* One goroutine writes a task at a time (the comment at                   *)
(* execute_task.go:31), and the one of a task seen as deactivated has      *)
(* nothing new to publish: what Trim saves is the last word.               *)
SettledWhenDeactivated ==
  /\ \A k, l \in DOMAIN runner : runner[k].task = runner[l].task => k = l
  /\ \A l \in DOMAIN runner :
       LET p == runner[l].task
       IN  p \in tasks /\ heap[p].dyn.deactivated
             => runner[l].shadow = heap[p].dyn /\ At(l, "final")

(* The counters of a task never go back, through publication, trimming and *)
(* resuming (execute_task.go:182).                                         *)
HistoryKept ==
  [][\A a \in KnownRecords, b \in KnownRecords' :
       a.id = b.id => /\ b.dyn.runs >= a.dyn.runs
                      /\ b.dyn.failures >= a.dyn.failures]_vars

(* A stop accepted for an active task deactivates it, unless the backend   *)
(* is killed first (commands.go:335 and the two selects of ExecuteTask).   *)
StopTakesEffect ==
  \A p \in Pointers :
    (Active(p) /\ heap[p].chan \in stopSent) ~> (killed \/ ~Active(p))

=============================================================================
