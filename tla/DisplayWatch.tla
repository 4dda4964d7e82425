----------------------------- MODULE DisplayWatch -----------------------------
(***************************************************************************)
(* The watch over display servers and the two locks it shares with the     *)
(* commands: Scheduler.lock and Displays.lock.                             *)
(*                                                                         *)
(* A command that starts a task takes the scheduler's lock and then, in    *)
(* InitDisplay, the displays' lock.  The goroutine that watches a display  *)
(* takes them in the opposite order and, holding both, sends to the        *)
(* StopChannel of every task of the display; such a send blocks while the  *)
(* channel is full.  What tasks and commands do besides is in Scheduler;   *)
(* here a task is reduced to the points where it listens to its            *)
(* StopChannel and the points where it waits for the scheduler's lock.     *)
(***************************************************************************)
EXTENDS FiniteSets, Naturals

CONSTANTS
  Displays,  \* display selections other than headless
  Tasks,     \* Task structs
  NoTask,
  Watches,   \* Display structs, each with its goroutine
  Handlers,  \* connections that execute run and resume commands
  Nobody     \* the owner of a lock that is free

ASSUME DistinctAssumption ==
  /\ NoTask \notin Tasks
  /\ Nobody \notin Handlers \union Watches
  /\ Handlers \intersect Watches = {}

ASSUME DisplaysAssumption == Displays # {}

VARIABLES
  up,         \* display servers that are running
  task,       \* the tasks and their goroutines
  watch,      \* the entries of Displays.displays and their goroutines
  handler,    \* what each connection is doing
  schedLock,  \* owner of Scheduler.lock
  dispLock,   \* owner of Displays.lock
  killed      \* has the backend context been killed?

vars == <<up, task, watch, handler, schedLock, dispLock, killed>>

(* listed: is the task in Scheduler.tasks?  deactivated: as published in   *)
(* task.Dynamic; leaving: the same in the private copy; mail: messages in  *)
(* the StopChannel.                                                        *)
Task == [pc : {"none", "starting", "select", "publish", "final", "done"},
         display : Displays, listed : BOOLEAN, deactivated : BOOLEAN,
         leaving : BOOLEAN, mail : 0 .. 1]

(* pending: tasks StopTasksByDisplay still has to notify; next: the one    *)
(* whose channel it is sending to.                                         *)
Watch == [pc : {"none", "watching", "grace", "wantDisplays", "wantScheduler",
                "sending", "done", "returned"},
          display : Displays, pending : SUBSET Tasks, next : Tasks \union {NoTask}]

Handler == [pc : {"idle", "wantDisplays"}, task : Tasks \union {NoTask},
            display : Displays]

Default == CHOOSE d \in Displays : TRUE

NoHandler == [pc |-> "idle", task |-> NoTask, display |-> Default]

Blank(d) == [pc |-> "none", display |-> d, listed |-> FALSE, deactivated |-> FALSE,
             leaving |-> FALSE, mail |-> 0]

TypeOK ==
  /\ up \subseteq Displays
  /\ task \in [Tasks -> Task]
  /\ watch \in [Watches -> Watch]
  /\ handler \in [Handlers -> Handler]
  /\ schedLock \in Handlers \union Watches \union {Nobody}
  /\ dispLock \in Watches \union {Nobody}
  /\ killed \in BOOLEAN

Init ==
  /\ up = Displays
  /\ task = [t \in Tasks |-> Blank(Default)]
  /\ watch = [w \in Watches |-> [pc |-> "none", display |-> Default,
                                 pending |-> {}, next |-> NoTask]]
  /\ handler = [h \in Handlers |-> NoHandler]
  /\ schedLock = Nobody
  /\ dispLock = Nobody
  /\ killed = FALSE

-----------------------------------------------------------------------------
(* The environment *)

(* A server that goes down ends the watcher processes connected to it, and *)
(* their goroutines start the grace period.                                *)
DisplayCloses(d) ==
  /\ d \in up
  /\ up' = up \ {d}
  /\ watch' = [w \in Watches |->
                 IF watch[w].pc = "watching" /\ watch[w].display = d
                 THEN [watch[w] EXCEPT !.pc = "grace"] ELSE watch[w]]
  /\ UNCHANGED <<task, handler, schedLock, dispLock, killed>>

DisplayOpens(d) ==
  /\ up' = up \union {d}
  /\ UNCHANGED <<task, watch, handler, schedLock, dispLock, killed>>

Kill ==
  /\ ~killed
  /\ killed' = TRUE
  /\ UNCHANGED <<up, task, watch, handler, schedLock, dispLock>>

-----------------------------------------------------------------------------
(* Run and resume commands *)

(* TryRunTask and TryResumeTask up to InitDisplay.  A resumed task is off  *)
(* the list from here on; its struct is initialised like a new one.        *)
LockScheduler(h, t, d) ==
  /\ handler[h].pc = "idle"
  /\ schedLock = Nobody
  /\ \/ task[t].pc = "none"
     \/ task[t].pc = "done" /\ task[t].deactivated /\ task[t].display = d
  /\ schedLock' = h
  /\ handler' = [handler EXCEPT ![h] = [pc |-> "wantDisplays", task |-> t, display |-> d]]
  /\ task' = [task EXCEPT ![t] = Blank(d)]
  /\ UNCHANGED <<up, watch, dispLock, killed>>

(* Mutant: a deactivated entry counts as a watch. *)
HasEntry(d) == \E w \in Watches : watch[w].pc # "none" /\ watch[w].display = d

(* Mutant: the displays that are watched already are not searched. *)
NeverWatched(d) == FALSE

(* The search of InitDisplay for an entry that is not deactivated. *)
IsWatched(d) ==
  \E w \in Watches : /\ watch[w].pc \in {"watching", "grace", "wantDisplays",
                                         "wantScheduler", "returned"}
                     /\ watch[w].display = d

(* Append the task to the list, start ExecuteTask, release the locks. *)
Schedule(h) ==
  task' = [task EXCEPT ![handler[h].task].pc = "starting",
                       ![handler[h].task].listed = TRUE]

Unlocked(h) ==
  /\ handler[h].pc = "wantDisplays"
  /\ dispLock = Nobody
  /\ handler' = [handler EXCEPT ![h] = NoHandler]
  /\ schedLock' = Nobody
  /\ UNCHANGED <<up, dispLock, killed>>

UseWatchedDisplay(h) ==
  /\ Unlocked(h)
  /\ IsWatched(handler[h].display)
  /\ Schedule(h)
  /\ UNCHANGED watch

WatchDisplay(h) ==
  /\ Unlocked(h)
  /\ ~IsWatched(handler[h].display)
  /\ handler[h].display \in up
  /\ \E w \in Watches :
       /\ watch[w].pc = "none"
       /\ watch' = [watch EXCEPT ![w] = [pc |-> "watching", display |-> handler[h].display,
                                         pending |-> {}, next |-> NoTask]]
  /\ Schedule(h)

(* The server cannot be reached, or its watcher process not started. *)
RejectDisplay(h) ==
  /\ Unlocked(h)
  /\ ~IsWatched(handler[h].display)
  /\ UNCHANGED <<task, watch>>

-----------------------------------------------------------------------------
(* The goroutine that watches a display *)

Goto(w, pc) == watch' = [watch EXCEPT ![w].pc = pc]

GracePeriodEnds(w) ==
  /\ watch[w].pc = "grace"
  /\ Goto(w, "wantDisplays")
  /\ UNCHANGED <<up, task, handler, schedLock, dispLock, killed>>

Return(w) ==
  /\ killed
  /\ watch[w].pc \in {"watching", "grace"}
  /\ Goto(w, "returned")
  /\ UNCHANGED <<up, task, handler, schedLock, dispLock, killed>>

WatchLocksDisplays(w) ==
  /\ watch[w].pc = "wantDisplays"
  /\ dispLock = Nobody
  /\ dispLock' = w
  /\ Goto(w, "wantScheduler")
  /\ UNCHANGED <<up, task, handler, schedLock, killed>>

(* The task StopTasksByDisplay comes to next. *)
NextOf(pending) == IF pending = {} THEN {NoTask} ELSE pending

WatchLocksScheduler(w) ==
  LET targets == {t \in Tasks : task[t].listed /\ task[t].display = watch[w].display}
  IN  /\ watch[w].pc = "wantScheduler"
      /\ schedLock = Nobody
      /\ schedLock' = w
      /\ \E t \in NextOf(targets) :
           watch' = [watch EXCEPT ![w] = [@ EXCEPT !.pc = "sending",
                                                   !.pending = targets, !.next = t]]
      /\ UNCHANGED <<up, task, handler, dispLock, killed>>

Send(w) ==
  LET t == watch[w].next
      rest == watch[w].pending \ {t}
  IN  /\ watch[w].pc = "sending"
      /\ t # NoTask
      /\ task[t].mail = 0
      /\ task' = [task EXCEPT ![t].mail = 1]
      /\ \E u \in NextOf(rest) :
           watch' = [watch EXCEPT ![w] = [@ EXCEPT !.pending = rest, !.next = u]]
      /\ UNCHANGED <<up, handler, schedLock, dispLock, killed>>

UnlockBoth(w) ==
  /\ watch[w].pc = "sending"
  /\ watch[w].next = NoTask
  /\ Goto(w, "done")
  /\ schedLock' = Nobody
  /\ dispLock' = Nobody
  /\ UNCHANGED <<up, task, handler, killed>>

-----------------------------------------------------------------------------
(* Stop command and trim goroutine *)

(* Mutant: the send does not look at the capacity. *)
StopUnbounded(t) ==
  /\ schedLock = Nobody
  /\ task[t].listed /\ ~task[t].deactivated
  /\ task' = [task EXCEPT ![t].mail = @ + 1]
  /\ UNCHANGED <<up, watch, handler, schedLock, dispLock, killed>>

Stop(t) ==
  /\ schedLock = Nobody
  /\ task[t].listed /\ ~task[t].deactivated
  /\ task' = [task EXCEPT ![t].mail = 1]
  /\ UNCHANGED <<up, watch, handler, schedLock, dispLock, killed>>

TrimTask(t) ==
  /\ schedLock = Nobody
  /\ task[t].listed /\ task[t].deactivated
  /\ task' = [task EXCEPT ![t] = IF @.pc = "done" THEN Blank(@.display)
                                 ELSE [@ EXCEPT !.listed = FALSE]]
  /\ UNCHANGED <<up, watch, handler, schedLock, dispLock, killed>>

TrimDisplays ==
  /\ dispLock = Nobody
  /\ \E w \in Watches : watch[w].pc = "done"
  /\ watch' = [w \in Watches |-> IF watch[w].pc = "done"
                                 THEN [watch[w] EXCEPT !.pc = "none"] ELSE watch[w]]
  /\ UNCHANGED <<up, task, handler, schedLock, dispLock, killed>>

-----------------------------------------------------------------------------
(* The goroutine ExecuteTask *)

CopyDynamicState(t) ==
  /\ task[t].pc = "starting"
  /\ schedLock = Nobody
  /\ task' = [task EXCEPT ![t].pc = "select"]
  /\ UNCHANGED <<up, watch, handler, schedLock, dispLock, killed>>

(* An execution or a delay ends; the failure limit or a killed context may *)
(* deactivate the task.                                                    *)
SelectOther(t) ==
  /\ task[t].pc = "select"
  /\ \E leaving \in BOOLEAN :
       task' = [task EXCEPT ![t].pc = "publish", ![t].leaving = leaving]
  /\ UNCHANGED <<up, watch, handler, schedLock, dispLock, killed>>

(* Mutant: the select does not listen to the StopChannel. *)
NoStopCase(t) == FALSE

SelectStop(t) ==
  /\ task[t].pc = "select"
  /\ task[t].mail = 1
  /\ task' = [task EXCEPT ![t].pc = "publish", ![t].leaving = TRUE, ![t].mail = 0]
  /\ UNCHANGED <<up, watch, handler, schedLock, dispLock, killed>>

Publish(t) ==
  /\ task[t].pc = "publish"
  /\ schedLock = Nobody
  /\ task' = [task EXCEPT ![t].deactivated = task[t].leaving,
                          ![t].pc = IF task[t].leaving THEN "final" ELSE "select"]
  /\ UNCHANGED <<up, watch, handler, schedLock, dispLock, killed>>

(* A trimmed task is forgotten with the return of its goroutine. *)
FinalPublish(t) ==
  /\ task[t].pc = "final"
  /\ schedLock = Nobody
  /\ task' = [task EXCEPT ![t] = IF @.listed THEN [@ EXCEPT !.pc = "done"]
                                 ELSE Blank(@.display)]
  /\ UNCHANGED <<up, watch, handler, schedLock, dispLock, killed>>

-----------------------------------------------------------------------------
(* Specification *)

HandlerStep(h) == UseWatchedDisplay(h) \/ WatchDisplay(h) \/ RejectDisplay(h)

WatchStep(w) ==
  \/ GracePeriodEnds(w)
  \/ Return(w)
  \/ WatchLocksDisplays(w)
  \/ WatchLocksScheduler(w)
  \/ Send(w)
  \/ UnlockBoth(w)

TaskStep(t) ==
  \/ CopyDynamicState(t)
  \/ SelectOther(t)
  \/ SelectStop(t)
  \/ Publish(t)
  \/ FinalPublish(t)

Next ==
  \/ \E d \in Displays : DisplayCloses(d) \/ DisplayOpens(d)
  \/ Kill
  \/ \E h \in Handlers, t \in Tasks, d \in Displays : LockScheduler(h, t, d)
  \/ \E h \in Handlers : HandlerStep(h)
  \/ \E w \in Watches : WatchStep(w)
  \/ \E t \in Tasks : Stop(t) \/ TrimTask(t) \/ TaskStep(t)
  \/ TrimDisplays

Spec == Init /\ [][Next]_vars

(* sync.Mutex hands a lock over to the goroutine that waited longest once  *)
(* it waited for a millisecond, so a lock that is free again and again is  *)
(* acquired; select picks at random among the ready channels.              *)
FairSpec ==
  /\ Spec
  /\ \A h \in Handlers : SF_vars(HandlerStep(h))
  /\ \A w \in Watches : SF_vars(WatchStep(w))
  /\ \A t \in Tasks :
       /\ SF_vars(CopyDynamicState(t) \/ Publish(t) \/ FinalPublish(t))
       /\ SF_vars(SelectStop(t))

-----------------------------------------------------------------------------
(* Properties *)

Active(t) == task[t].listed /\ ~task[t].deactivated

(* Goroutine w will still send to task t. *)
WillNotify(w, t) ==
  /\ watch[w].display = task[t].display
  /\ \/ watch[w].pc \in {"watching", "grace", "wantDisplays", "wantScheduler"}
     \/ watch[w].pc = "sending" /\ t \in watch[w].pending

(* No active task slips through the watch, however its start interleaves   *)
(* with the end of a grace period: a goroutine will still notify it, or    *)
(* has already, unless the backend is shutting down (displays.go:67        *)
(* against display.go:88).                                                 *)
ActiveTasksAreWatched ==
  \A t \in Tasks :
    Active(t) => \/ \E w \in Watches : WillNotify(w, t)
                 \/ task[t].mail = 1
                 \/ task[t].leaving
                 \/ killed

(* There is at most one entry of a display that is not deactivated         *)
(* (displays.go:67), so its tasks are stopped once.                        *)
OneWatchPerDisplay ==
  \A v, w \in Watches :
    /\ watch[v].pc \notin {"none", "done"}
    /\ watch[w].pc \notin {"none", "done"}
    /\ watch[v].display = watch[w].display
    => v = w

(* A command holds the scheduler's lock and waits for the displays' lock,  *)
(* which a watching goroutine holds, waiting for the scheduler's.          *)
LockCycle ==
  \E h \in Handlers, w \in Watches :
    /\ handler[h].pc = "wantDisplays"
    /\ schedLock = h
    /\ watch[w].pc = "wantScheduler"
    /\ dispLock = w

(* A watching goroutine holds both locks and sends to the full channel of  *)
(* a task whose goroutine has returned or waits for the scheduler's lock.  *)
SenderStuck ==
  \E w \in Watches :
    /\ watch[w].pc = "sending"
    /\ watch[w].next # NoTask
    /\ task[watch[w].next].mail = 1
    /\ task[watch[w].next].pc # "select"

(* The grace period of a closed display ends with a notification of its    *)
(* tasks, and the only two ways to miss that are the circular waits above  *)
(* (display.go:88).                                                        *)
NotifiesOrStuck ==
  \A w \in Watches :
    watch[w].pc = "grace"
      ~> (watch[w].pc \in {"done", "none", "returned"} \/ LockCycle \/ SenderStuck)

(* README.md:7: tasks are terminated whenever their display server closes, *)
(* if the server stays away and the backend is not shut down.              *)
ClosedDisplayStopsTasks ==
  \A t \in Tasks :
    (Active(t) /\ task[t].display \notin up)
      ~> (~Active(t) \/ task[t].display \in up \/ killed)

=============================================================================
