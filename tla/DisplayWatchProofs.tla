-------------------------- MODULE DisplayWatchProofs --------------------------
(***************************************************************************)
(* Theorems about DisplayWatch, for every set of displays, tasks, watching *)
(* goroutines and connections.                                             *)
(***************************************************************************)
EXTENDS DisplayWatch, TLAPS

-----------------------------------------------------------------------------
(* Type correctness *)

LEMMA BlankType ==
  ASSUME NEW d \in Displays
  PROVE  Blank(d) \in Task
BY DEF Blank, Task

LEMMA DefaultType == Default \in Displays
BY DisplaysAssumption DEF Default

LEMMA NextOfType ==
  ASSUME NEW pending \in SUBSET Tasks, NEW t \in NextOf(pending)
  PROVE  t \in Tasks \union {NoTask}
BY DEF NextOf

LEMMA InitTypeOK == Init => TypeOK
<1>. SUFFICES ASSUME Init PROVE TypeOK
  OBVIOUS
<1>1. task \in [Tasks -> Task]
  BY BlankType, DefaultType DEF Init
<1>2. watch \in [Watches -> Watch]
  BY DefaultType DEF Init, Watch
<1>3. handler \in [Handlers -> Handler]
  BY DefaultType DEF Init, Handler, NoHandler
<1>. QED  BY <1>1, <1>2, <1>3 DEF Init, TypeOK

(* What the steps do to the arrays keeps the types. *)
LEMMA GotoType ==
  ASSUME TypeOK, NEW w \in Watches,
         NEW pc \in {"none", "watching", "grace", "wantDisplays", "wantScheduler",
                     "sending", "done", "returned"},
         Goto(w, pc)
  PROVE  /\ watch' \in [Watches -> Watch]
         /\ watch'[w].pc = pc
         /\ watch'[w].display = watch[w].display
         /\ watch'[w].pending = watch[w].pending
         /\ watch'[w].next = watch[w].next
         /\ \A v \in Watches : v # w => watch'[v] = watch[v]
<1>1. watch[w] \in Watch /\ watch' = [watch EXCEPT ![w] = [watch[w] EXCEPT !.pc = pc]]
  BY DEF TypeOK, Goto
<1>2. [watch[w] EXCEPT !.pc = pc] \in Watch
  BY <1>1 DEF Watch
<1>. QED  BY <1>1, <1>2 DEF TypeOK, Watch

LEMMA NotifiedType ==
  ASSUME NEW x \in Watch, NEW pending \in SUBSET Tasks,
         NEW u \in Tasks \union {NoTask}
  PROVE  /\ [x EXCEPT !.pending = pending, !.next = u] \in Watch
         /\ [x EXCEPT !.pc = "sending", !.pending = pending, !.next = u] \in Watch
BY DEF Watch

LEMMA HandlerTypeOK ==
  ASSUME TypeOK, NEW h \in Handlers,
         \/ \E t \in Tasks, d \in Displays : LockScheduler(h, t, d)
         \/ HandlerStep(h)
  PROVE  TypeOK'
<1>1. ASSUME NEW t \in Tasks, NEW d \in Displays, LockScheduler(h, t, d) PROVE TypeOK'
  <2>1. [pc |-> "wantDisplays", task |-> t, display |-> d] \in Handler
    BY DEF Handler
  <2>. QED  BY <1>1, <2>1, BlankType DEF LockScheduler, TypeOK
<1>2. ASSUME Unlocked(h)
      PROVE  /\ handler' \in [Handlers -> Handler]
             /\ schedLock' \in Handlers \union Watches \union {Nobody}
             /\ UNCHANGED <<up, dispLock, killed>>
  <2>1. NoHandler \in Handler
    BY DefaultType DEF NoHandler, Handler
  <2>. QED  BY <1>2, <2>1 DEF Unlocked, TypeOK
<1>3. ASSUME Schedule(h) PROVE task' \in [Tasks -> Task]
  <2>. DEFINE t == handler[h].task
  <2>1. CASE t \in Tasks
    <3>1. task[t] \in Task
      BY <2>1 DEF TypeOK
    <3>2. [task[t] EXCEPT !.pc = "starting", !.listed = TRUE] \in Task
      BY <3>1 DEF Task
    <3>3. task' = [task EXCEPT ![t] = [task[t] EXCEPT !.pc = "starting", !.listed = TRUE]]
      BY <1>3, <2>1 DEF Schedule, TypeOK
    <3>. QED  BY <2>1, <3>2, <3>3 DEF TypeOK
  <2>2. CASE t \notin Tasks
    BY <1>3, <2>2 DEF Schedule, TypeOK
  <2>. QED  BY <2>1, <2>2
<1>4. CASE UseWatchedDisplay(h)
  BY <1>2, <1>3, <1>4 DEF UseWatchedDisplay, TypeOK
<1>5. CASE WatchDisplay(h)
  <2>1. PICK w \in Watches :
          watch' = [watch EXCEPT ![w] = [pc |-> "watching", display |-> handler[h].display,
                                         pending |-> {}, next |-> NoTask]]
    BY <1>5 DEF WatchDisplay
  <2>2. handler[h].display \in Displays
    BY DEF TypeOK, Handler
  <2>3. [pc |-> "watching", display |-> handler[h].display, pending |-> {},
         next |-> NoTask] \in Watch
    BY <2>2 DEF Watch
  <2>. QED  BY <1>2, <1>3, <1>5, <2>1, <2>3 DEF WatchDisplay, TypeOK
<1>6. CASE RejectDisplay(h)
  BY <1>2, <1>6 DEF RejectDisplay, TypeOK
<1>. QED  BY <1>1, <1>4, <1>5, <1>6 DEF HandlerStep

LEMMA WatchTypeOK ==
  ASSUME TypeOK, NEW w \in Watches, WatchStep(w)
  PROVE  TypeOK'
<1>1. CASE GracePeriodEnds(w) \/ Return(w) \/ WatchLocksDisplays(w) \/ UnlockBoth(w)
  BY <1>1, GotoType DEF GracePeriodEnds, Return, WatchLocksDisplays, UnlockBoth, TypeOK
<1>3. CASE WatchLocksScheduler(w)
  <2>. DEFINE targets == {t \in Tasks : task[t].listed /\ task[t].display = watch[w].display}
  <2>1. PICK t \in NextOf(targets) :
          watch' = [watch EXCEPT ![w] = [watch[w] EXCEPT !.pc = "sending",
                                                  !.pending = targets, !.next = t]]
    BY <1>3 DEF WatchLocksScheduler
  <2>2. targets \in SUBSET Tasks /\ watch[w] \in Watch
    BY DEF TypeOK
  <2>3. t \in Tasks \union {NoTask}
    BY <2>2, NextOfType
  <2>4. watch' = [watch EXCEPT ![w] = [watch[w] EXCEPT !.pc = "sending",
                                                !.pending = targets, !.next = t]]
    BY <2>1
  <2>. HIDE DEF targets
  <2>5. watch' \in [Watches -> Watch]
    BY <2>2, <2>3, <2>4, NotifiedType DEF TypeOK
  <2>. QED  BY <1>3, <2>5 DEF WatchLocksScheduler, TypeOK
<1>4. CASE Send(w)
  <2>. DEFINE rest == watch[w].pending \ {watch[w].next}
  <2>1. PICK u \in NextOf(rest) :
          watch' = [watch EXCEPT ![w] = [watch[w] EXCEPT !.pending = rest, !.next = u]]
    BY <1>4 DEF Send
  <2>2. rest \in SUBSET Tasks /\ watch[w] \in Watch
    BY DEF TypeOK, Watch
  <2>3. u \in Tasks \union {NoTask}
    BY <2>2, NextOfType
  <2>. HIDE DEF rest
  <2>4. [watch[w] EXCEPT !.pending = rest, !.next = u] \in Watch
    BY <2>2, <2>3, NotifiedType
  <2>5. watch' \in [Watches -> Watch]
    BY <2>1, <2>4 DEF TypeOK
  <2>6. watch[w].next \in Tasks
    BY <1>4, <2>2 DEF Send, Watch
  <2>7. /\ [task[watch[w].next] EXCEPT !.mail = 1] \in Task
        /\ task' = [task EXCEPT ![watch[w].next] = [task[watch[w].next] EXCEPT !.mail = 1]]
    BY <1>4, <2>6 DEF Send, TypeOK, Task
  <2>8. task' \in [Tasks -> Task]
    BY <2>6, <2>7 DEF TypeOK
  <2>. QED  BY <1>4, <2>5, <2>8 DEF Send, TypeOK
<1>. QED  BY <1>1, <1>3, <1>4 DEF WatchStep

LEMMA TaskTypeOK ==
  ASSUME TypeOK, NEW t \in Tasks, Stop(t) \/ TrimTask(t) \/ TaskStep(t)
  PROVE  TypeOK'
<1>1. task[t] \in Task /\ Blank(task[t].display) \in Task
  BY BlankType DEF TypeOK, Task
<1>2. CASE Stop(t)
  BY <1>1, <1>2 DEF Stop, TypeOK, Task
<1>3. CASE TrimTask(t)
  BY <1>1, <1>3 DEF TrimTask, TypeOK, Task
<1>4. CASE CopyDynamicState(t)
  BY <1>1, <1>4 DEF CopyDynamicState, TypeOK, Task
<1>5. CASE SelectOther(t)
  <2>1. PICK leaving \in BOOLEAN :
          task' = [task EXCEPT ![t] = [task[t] EXCEPT !.pc = "publish", !.leaving = leaving]]
    BY <1>1, <1>5 DEF SelectOther, TypeOK
  <2>2. [task[t] EXCEPT !.pc = "publish", !.leaving = leaving] \in Task
    BY <1>1 DEF Task
  <2>. QED  BY <1>5, <2>1, <2>2 DEF SelectOther, TypeOK
<1>6. CASE SelectStop(t)
  BY <1>1, <1>6 DEF SelectStop, TypeOK, Task
<1>7. CASE Publish(t)
  BY <1>1, <1>7 DEF Publish, TypeOK, Task
<1>8. CASE FinalPublish(t)
  BY <1>1, <1>8 DEF FinalPublish, TypeOK, Task
<1>. QED  BY <1>2, <1>3, <1>4, <1>5, <1>6, <1>7, <1>8 DEF TaskStep

LEMMA NextTypeOK == TypeOK /\ [Next]_vars => TypeOK'
<1>. SUFFICES ASSUME TypeOK, [Next]_vars PROVE TypeOK'
  OBVIOUS
<1>1. ASSUME NEW d \in Displays, DisplayCloses(d) PROVE TypeOK'
  BY <1>1 DEF DisplayCloses, TypeOK, Watch
<1>2. ASSUME NEW d \in Displays, DisplayOpens(d) PROVE TypeOK'
  BY <1>2 DEF DisplayOpens, TypeOK
<1>3. CASE Kill
  BY <1>3 DEF Kill, TypeOK
<1>4. CASE TrimDisplays
  BY <1>4 DEF TrimDisplays, TypeOK, Watch
<1>5. CASE UNCHANGED vars
  BY <1>5 DEF vars, TypeOK
<1>. QED  BY <1>1, <1>2, <1>3, <1>4, <1>5, HandlerTypeOK, WatchTypeOK, TaskTypeOK
          DEF Next

(* Every variable keeps its type; in particular a StopChannel never holds  *)
(* more than the one message it has room for.                              *)
THEOREM TypeCorrect == Spec => []TypeOK
BY InitTypeOK, NextTypeOK, PTL DEF Spec

-----------------------------------------------------------------------------
(* Who holds the locks *)

(* The owner of a lock is where the code holds it, and nobody else is.     *)
LocksHeld ==
  /\ \A h \in Handlers : handler[h].pc = "wantDisplays" <=> schedLock = h
  /\ \A w \in Watches : watch[w].pc \in {"wantScheduler", "sending"} <=> dispLock = w
  /\ \A w \in Watches : watch[w].pc = "sending" <=> schedLock = w

(* A goroutine only returns when the backend is killed, and a goroutine    *)
(* that has nobody left to send to has sent to everybody.                  *)
WatchesInOrder ==
  \A w \in Watches :
    /\ watch[w].pc = "returned" => killed
    /\ watch[w].pc = "sending" /\ watch[w].next = NoTask => watch[w].pending = {}

(* A task is listed once its goroutine runs, leaves its loop once, and is  *)
(* deactivated for others only after that.                                 *)
InOrder(t) ==
  /\ task[t].pc = "none" => ~task[t].listed
  /\ task[t].leaving => task[t].pc \in {"publish", "final", "done"}
  /\ task[t].deactivated => task[t].pc \in {"final", "done"}

TasksInOrder == \A t \in Tasks : InOrder(t)

(* The task of a command that waits for the displays is a fresh struct,    *)
(* unknown to everyone else.                                               *)
HandlersReady ==
  \A h \in Handlers :
    handler[h].pc = "wantDisplays" =>
      /\ handler[h].task \in Tasks
      /\ task[handler[h].task].pc = "none"
      /\ task[handler[h].task].display = handler[h].display

WatchInv ==
  /\ TypeOK
  /\ LocksHeld
  /\ WatchesInOrder
  /\ TasksInOrder
  /\ HandlersReady
  /\ OneWatchPerDisplay
  /\ ActiveTasksAreWatched

LEMMA InitWatchInv == Init => WatchInv
<1>. SUFFICES ASSUME Init PROVE WatchInv
  OBVIOUS
<1>1. \A t \in Tasks : /\ task[t].pc = "none" /\ ~task[t].listed
                       /\ ~task[t].leaving /\ ~task[t].deactivated
  BY DEF Init, Blank
<1>2. \A w \in Watches : watch[w].pc = "none"
  BY DEF Init
<1>3. \A h \in Handlers : handler[h].pc = "idle"
  BY DEF Init, NoHandler
<1>4. LocksHeld
  BY <1>2, <1>3, DistinctAssumption DEF Init, LocksHeld
<1>5. TasksInOrder
  BY <1>1 DEF TasksInOrder, InOrder
<1>. QED
  BY <1>1, <1>2, <1>3, <1>4, <1>5, InitTypeOK
     DEF WatchInv, WatchesInOrder, HandlersReady, OneWatchPerDisplay,
         ActiveTasksAreWatched, Active

-----------------------------------------------------------------------------
(* The steps of tasks *)

(* What a step of a task, a stop or a trim does: the task stays in order,  *)
(* is not activated, and does not forget that it was told to stop.         *)
TaskMoves(t) ==
  /\ task[t].pc # "none"
  /\ InOrder(t)'
  /\ task'[t].display = task[t].display
  /\ Active(t)' => Active(t)
  /\ Active(t)' /\ (task[t].mail = 1 \/ task[t].leaving)
       => task'[t].mail = 1 \/ task'[t].leaving
  /\ \A s \in Tasks \ {t} : task'[s] = task[s]
  /\ UNCHANGED <<watch, handler, schedLock, dispLock, killed>>

LEMMA TaskStepMoves ==
  ASSUME TypeOK, NEW t \in Tasks, InOrder(t), Stop(t) \/ TrimTask(t) \/ TaskStep(t)
  PROVE  TaskMoves(t)
<1>1. task[t] \in Task
  BY DEF TypeOK
<1>. USE <1>1 DEF TypeOK, Task, TaskMoves, InOrder, Active
<1>2. CASE Stop(t)
  BY <1>2 DEF Stop
<1>3. CASE TrimTask(t)
  <2>1. CASE task[t].pc = "done"
    BY <1>3, <2>1 DEF TrimTask, Blank
  <2>2. CASE task[t].pc # "done"
    BY <1>3, <2>2 DEF TrimTask
  <2>. QED  BY <2>1, <2>2
<1>4. CASE CopyDynamicState(t)
  BY <1>4 DEF CopyDynamicState
<1>5. CASE SelectOther(t)
  BY <1>5 DEF SelectOther
<1>6. CASE SelectStop(t)
  BY <1>6 DEF SelectStop
<1>7. CASE Publish(t)
  BY <1>7 DEF Publish
<1>8. CASE FinalPublish(t)
  <2>1. CASE task[t].listed
    BY <1>8, <2>1 DEF FinalPublish
  <2>2. CASE ~task[t].listed
    BY <1>8, <2>2 DEF FinalPublish, Blank
  <2>. QED  BY <2>1, <2>2
<1>. QED  BY <1>2, <1>3, <1>4, <1>5, <1>6, <1>7, <1>8 DEF TaskStep

LEMMA TaskKeepsWatchInv ==
  ASSUME WatchInv, NEW t \in Tasks, Stop(t) \/ TrimTask(t) \/ TaskStep(t)
  PROVE  WatchInv'
<1>1. TaskMoves(t)
  BY TaskStepMoves DEF WatchInv, TasksInOrder
<1>2. TypeOK'
  BY TaskTypeOK DEF WatchInv
<1>3. LocksHeld' /\ WatchesInOrder' /\ OneWatchPerDisplay'
  BY <1>1 DEF WatchInv, TaskMoves, LocksHeld, WatchesInOrder, OneWatchPerDisplay
<1>4. TasksInOrder'
  BY <1>1 DEF WatchInv, TaskMoves, TasksInOrder, InOrder
<1>5. HandlersReady'
  BY <1>1 DEF WatchInv, TaskMoves, HandlersReady
<1>6. ActiveTasksAreWatched'
  BY <1>1 DEF WatchInv, TaskMoves, ActiveTasksAreWatched, WillNotify, Active
<1>. QED  BY <1>2, <1>3, <1>4, <1>5, <1>6 DEF WatchInv

-----------------------------------------------------------------------------
(* The steps of commands *)

(* A task that is scheduled is fresh, and of the display that was asked    *)
(* for.                                                                    *)
LEMMA ScheduleEffect ==
  ASSUME WatchInv, NEW h \in Handlers, handler[h].pc = "wantDisplays", Schedule(h)
  PROVE  /\ handler[h].task \in Tasks
         /\ \A s \in Tasks \ {handler[h].task} : task'[s] = task[s]
         /\ task'[handler[h].task].pc = "starting"
         /\ task'[handler[h].task].display = handler[h].display
         /\ ~task'[handler[h].task].leaving
         /\ ~task'[handler[h].task].deactivated
<1>1. handler[h].task \in Tasks /\ task[handler[h].task] \in Task
  BY DEF WatchInv, HandlersReady, TypeOK
<1>2. InOrder(handler[h].task)
  BY <1>1 DEF WatchInv, TasksInOrder
<1>. QED
  BY <1>1, <1>2 DEF WatchInv, HandlersReady, TypeOK, Task, Schedule, InOrder

LEMMA LockKeepsWatchInv ==
  ASSUME WatchInv, NEW h \in Handlers, NEW t \in Tasks, NEW d \in Displays,
         LockScheduler(h, t, d)
  PROVE  WatchInv'
<1>1. /\ handler[h].pc = "idle" /\ schedLock = Nobody /\ schedLock' = h
      /\ handler'[h].pc = "wantDisplays" /\ handler'[h].task = t
      /\ handler'[h].display = d
      /\ \A k \in Handlers \ {h} : handler'[k] = handler[k]
      /\ task'[t].pc = "none" /\ task'[t].display = d /\ ~task'[t].listed
      /\ ~task'[t].leaving /\ ~task'[t].deactivated
      /\ \A s \in Tasks \ {t} : task'[s] = task[s]
      /\ UNCHANGED <<watch, dispLock, killed>>
  BY DEF WatchInv, TypeOK, LockScheduler, Blank
<1>2. TypeOK'
  BY HandlerTypeOK DEF WatchInv
<1>3. \A k \in Handlers \ {h} : handler'[k].pc # "wantDisplays"
  BY <1>1, DistinctAssumption DEF WatchInv, LocksHeld
<1>4. LocksHeld'
  BY <1>1, <1>3, DistinctAssumption DEF WatchInv, LocksHeld
<1>5. WatchesInOrder' /\ OneWatchPerDisplay'
  BY <1>1 DEF WatchInv, WatchesInOrder, OneWatchPerDisplay
<1>6. TasksInOrder'
  BY <1>1 DEF WatchInv, TasksInOrder, InOrder
<1>7. HandlersReady'
  BY <1>1, <1>3 DEF HandlersReady
<1>8. ActiveTasksAreWatched'
  BY <1>1 DEF WatchInv, ActiveTasksAreWatched, WillNotify, Active
<1>. QED  BY <1>2, <1>4, <1>5, <1>6, <1>7, <1>8 DEF WatchInv

LEMMA HandlerKeepsWatchInv ==
  ASSUME WatchInv, NEW h \in Handlers, HandlerStep(h)
  PROVE  WatchInv'
<1>. DEFINE t == handler[h].task
<1>1. /\ handler[h].pc = "wantDisplays" /\ schedLock = h /\ dispLock = Nobody
      /\ handler'[h].pc = "idle" /\ schedLock' = Nobody
      /\ \A k \in Handlers \ {h} : handler'[k] = handler[k]
      /\ UNCHANGED <<up, dispLock, killed>>
  BY DEF WatchInv, LocksHeld, TypeOK, HandlerStep, UseWatchedDisplay, WatchDisplay,
         RejectDisplay, Unlocked, NoHandler
<1>2. TypeOK'
  BY HandlerTypeOK DEF WatchInv
<1>3. \A k \in Handlers \ {h} : handler[k].pc # "wantDisplays"
  BY <1>1 DEF WatchInv, LocksHeld
<1>4. HandlersReady'
  BY <1>1, <1>3 DEF HandlersReady
<1>5. \A w \in Watches : watch[w].pc \notin {"wantScheduler", "sending"}
  BY <1>1, DistinctAssumption DEF WatchInv, LocksHeld
<1>6. ASSUME Schedule(h) PROVE TasksInOrder'
  BY <1>1, <1>6, ScheduleEffect DEF WatchInv, TasksInOrder, InOrder
<1>7. CASE UseWatchedDisplay(h)
  <2>1. UNCHANGED watch /\ Schedule(h)
    BY <1>7 DEF UseWatchedDisplay
  <2>2. LocksHeld' /\ WatchesInOrder' /\ OneWatchPerDisplay'
    BY <1>1, <1>3, <1>5, <2>1, DistinctAssumption
       DEF WatchInv, LocksHeld, WatchesInOrder, OneWatchPerDisplay
  <2>3. killed \/ \E w \in Watches : /\ watch[w].pc \in {"watching", "grace",
                                                        "wantDisplays", "wantScheduler"}
                                     /\ watch[w].display = handler[h].display
    BY <1>7 DEF UseWatchedDisplay, IsWatched, WatchInv, WatchesInOrder
  <2>4. ActiveTasksAreWatched'
    BY <1>1, <2>1, <2>3, ScheduleEffect
       DEF WatchInv, ActiveTasksAreWatched, WillNotify, Active
  <2>. QED  BY <1>2, <1>4, <1>6, <2>1, <2>2, <2>4 DEF WatchInv
<1>8. CASE WatchDisplay(h)
  <2>1. PICK w \in Watches :
          /\ watch[w].pc = "none"
          /\ watch' = [watch EXCEPT ![w] = [pc |-> "watching", display |-> handler[h].display,
                                            pending |-> {}, next |-> NoTask]]
    BY <1>8 DEF WatchDisplay
  <2>2. /\ watch'[w].pc = "watching" /\ watch'[w].display = handler[h].display
        /\ \A v \in Watches \ {w} : watch'[v] = watch[v]
        /\ Schedule(h) /\ ~IsWatched(handler[h].display)
    BY <1>8, <2>1 DEF WatchDisplay, WatchInv, TypeOK
  <2>3. LocksHeld' /\ WatchesInOrder'
    BY <1>1, <1>3, <1>5, <2>1, <2>2, DistinctAssumption
       DEF WatchInv, LocksHeld, WatchesInOrder
  <2>4. \A v \in Watches : watch[v].pc \notin {"none", "done"}
                            => watch[v].display # handler[h].display
    <3>. SUFFICES ASSUME NEW v \in Watches, watch[v].pc \notin {"none", "done"},
                         watch[v].display = handler[h].display
                  PROVE  FALSE
      OBVIOUS
    <3>1. watch[v] \in Watch
      BY DEF WatchInv, TypeOK
    <3>. QED  BY <1>5, <2>2, <3>1 DEF IsWatched, Watch
  <2>5. OneWatchPerDisplay'
    BY <2>2, <2>4 DEF WatchInv, OneWatchPerDisplay
  <2>6. ActiveTasksAreWatched'
    BY <1>1, <2>1, <2>2, ScheduleEffect
       DEF WatchInv, ActiveTasksAreWatched, WillNotify, Active
  <2>. QED  BY <1>2, <1>4, <1>6, <2>2, <2>3, <2>5, <2>6 DEF WatchInv
<1>9. CASE RejectDisplay(h)
  <2>1. UNCHANGED <<task, watch>>
    BY <1>9 DEF RejectDisplay
  <2>2. LocksHeld' /\ WatchesInOrder' /\ OneWatchPerDisplay' /\ TasksInOrder'
    BY <1>1, <1>3, <1>5, <2>1, DistinctAssumption
       DEF WatchInv, LocksHeld, WatchesInOrder, OneWatchPerDisplay, TasksInOrder, InOrder
  <2>3. ActiveTasksAreWatched'
    BY <1>1, <2>1 DEF WatchInv, ActiveTasksAreWatched, WillNotify, Active
  <2>. QED  BY <1>2, <1>4, <2>2, <2>3 DEF WatchInv
<1>. QED  BY <1>7, <1>8, <1>9 DEF HandlerStep

-----------------------------------------------------------------------------
(* The steps of watching goroutines *)

(* A step that only moves goroutines on keeps what is said of tasks and    *)
(* commands.                                                               *)
LEMMA WatchesMove ==
  ASSUME WatchInv, UNCHANGED <<task, handler>>
  PROVE  TasksInOrder' /\ HandlersReady'
BY DEF WatchInv, TasksInOrder, InOrder, HandlersReady

LEMMA WatchLocksSchedulerEffect ==
  ASSUME TypeOK, NEW w \in Watches, WatchLocksScheduler(w)
  PROVE  /\ watch'[w].pc = "sending"
         /\ watch'[w].display = watch[w].display
         /\ \A t \in Tasks : Active(t) /\ task[t].display = watch[w].display
                               => t \in watch'[w].pending
         /\ watch'[w].next = NoTask => watch'[w].pending = {}
         /\ \A v \in Watches \ {w} : watch'[v] = watch[v]
<1>. DEFINE targets == {t \in Tasks : task[t].listed /\ task[t].display = watch[w].display}
<1>1. PICK t \in NextOf(targets) :
        watch' = [watch EXCEPT ![w] = [watch[w] EXCEPT !.pc = "sending",
                                                !.pending = targets, !.next = t]]
  BY DEF WatchLocksScheduler
<1>2. t = NoTask => targets = {}
  BY DistinctAssumption DEF NextOf
<1>3. \A s \in Tasks : Active(s) /\ task[s].display = watch[w].display => s \in targets
  BY DEF Active
<1>4. watch[w] \in Watch
  BY DEF TypeOK
<1>. HIDE DEF targets
<1>. QED  BY <1>1, <1>2, <1>3, <1>4 DEF TypeOK, Watch

LEMMA SendEffect ==
  ASSUME TypeOK, NEW w \in Watches, Send(w)
  PROVE  /\ watch[w].pc = "sending"
         /\ watch[w].next \in Tasks
         /\ watch'[w].pc = "sending"
         /\ watch'[w].display = watch[w].display
         /\ watch'[w].pending = watch[w].pending \ {watch[w].next}
         /\ watch'[w].next = NoTask => watch'[w].pending = {}
         /\ \A v \in Watches \ {w} : watch'[v] = watch[v]
         /\ \A t \in Tasks : /\ task'[t].pc = task[t].pc
                             /\ task'[t].display = task[t].display
                             /\ task'[t].listed = task[t].listed
                             /\ task'[t].deactivated = task[t].deactivated
                             /\ task'[t].leaving = task[t].leaving
                             /\ task[t].mail = 1 => task'[t].mail = 1
         /\ task'[watch[w].next].mail = 1
<1>. DEFINE rest == watch[w].pending \ {watch[w].next}
<1>1. PICK u \in NextOf(rest) :
        watch' = [watch EXCEPT ![w] = [watch[w] EXCEPT !.pending = rest, !.next = u]]
  BY DEF Send
<1>2. u = NoTask => rest = {}
  <2>1. rest \subseteq Tasks
    BY DEF TypeOK, Watch
  <2>. QED  BY <2>1, DistinctAssumption DEF NextOf
<1>3. watch[w] \in Watch /\ watch[w].next \in Tasks /\ watch[w].pc = "sending"
  BY DEF Send, TypeOK, Watch
<1>4. watch' = [watch EXCEPT ![w] = [watch[w] EXCEPT !.pending = rest, !.next = u]]
  BY <1>1
<1>. HIDE DEF rest
<1>5. /\ watch'[w].pc = "sending" /\ watch'[w].display = watch[w].display
      /\ watch'[w].pending = rest /\ watch'[w].next = u
      /\ \A v \in Watches \ {w} : watch'[v] = watch[v]
  BY <1>3, <1>4 DEF TypeOK, Watch
<1>6. /\ \A t \in Tasks : task[t] \in Task
      /\ task' = [task EXCEPT ![watch[w].next].mail = 1]
  BY DEF Send, TypeOK
<1>7. /\ \A t \in Tasks \ {watch[w].next} : task'[t] = task[t]
      /\ task'[watch[w].next] = [task[watch[w].next] EXCEPT !.mail = 1]
  BY <1>3, <1>6 DEF TypeOK
<1>. QED  BY <1>2, <1>3, <1>5, <1>6, <1>7 DEF Task, rest

LEMMA WatchKeepsWatchInv ==
  ASSUME WatchInv, NEW w \in Watches, WatchStep(w)
  PROVE  WatchInv'
<1>1. TypeOK /\ TypeOK'
  BY WatchTypeOK DEF WatchInv
<1>. USE <1>1
<1>2. CASE GracePeriodEnds(w) \/ Return(w)
  <2>1. /\ watch[w].pc \in {"watching", "grace"} /\ watch'[w].pc \in {"wantDisplays", "returned"}
        /\ watch'[w].pc = "returned" => killed
        /\ watch'[w].display = watch[w].display
        /\ \A v \in Watches \ {w} : watch'[v] = watch[v]
        /\ UNCHANGED <<task, handler, schedLock, dispLock, killed>>
    BY <1>2, GotoType DEF GracePeriodEnds, Return
  <2>2. LocksHeld' /\ WatchesInOrder' /\ OneWatchPerDisplay'
    BY <2>1 DEF WatchInv, LocksHeld, WatchesInOrder, OneWatchPerDisplay
  <2>3. ActiveTasksAreWatched'
    BY <2>1 DEF WatchInv, ActiveTasksAreWatched, WillNotify, Active
  <2>. QED  BY <2>1, <2>2, <2>3, WatchesMove DEF WatchInv
<1>3. CASE WatchLocksDisplays(w)
  <2>1. /\ watch[w].pc = "wantDisplays" /\ watch'[w].pc = "wantScheduler"
        /\ watch'[w].display = watch[w].display
        /\ \A v \in Watches \ {w} : watch'[v] = watch[v]
        /\ dispLock = Nobody /\ dispLock' = w
        /\ UNCHANGED <<task, handler, schedLock, killed>>
    BY <1>3, GotoType DEF WatchLocksDisplays
  <2>2. LocksHeld' /\ WatchesInOrder' /\ OneWatchPerDisplay'
    BY <2>1, DistinctAssumption
       DEF WatchInv, LocksHeld, WatchesInOrder, OneWatchPerDisplay
  <2>3. ActiveTasksAreWatched'
    BY <2>1 DEF WatchInv, ActiveTasksAreWatched, WillNotify, Active
  <2>. QED  BY <2>1, <2>2, <2>3, WatchesMove DEF WatchInv
<1>4. CASE WatchLocksScheduler(w)
  <2>1. /\ watch[w].pc = "wantScheduler" /\ schedLock = Nobody /\ schedLock' = w
        /\ UNCHANGED <<task, handler, dispLock, killed>>
    BY <1>4 DEF WatchLocksScheduler
  <2>2. LocksHeld' /\ WatchesInOrder' /\ OneWatchPerDisplay'
    BY <1>4, <2>1, WatchLocksSchedulerEffect, DistinctAssumption
       DEF WatchInv, LocksHeld, WatchesInOrder, OneWatchPerDisplay
  <2>3. ASSUME NEW t \in Tasks, NEW v \in Watches, Active(t), WillNotify(v, t)
        PROVE  WillNotify(v, t)'
    BY <1>4, <2>1, <2>3, WatchLocksSchedulerEffect DEF WillNotify
  <2>4. ActiveTasksAreWatched'
    BY <2>1, <2>3 DEF WatchInv, ActiveTasksAreWatched, Active
  <2>. QED  BY <2>1, <2>2, <2>4, WatchesMove DEF WatchInv
<1>5. CASE Send(w)
  <2>1. UNCHANGED <<handler, schedLock, dispLock, killed>>
    BY <1>5 DEF Send
  <2>2. LocksHeld' /\ WatchesInOrder' /\ OneWatchPerDisplay'
    BY <1>5, <2>1, SendEffect
       DEF WatchInv, LocksHeld, WatchesInOrder, OneWatchPerDisplay
  <2>3. TasksInOrder'
    BY <1>5, SendEffect DEF WatchInv, TasksInOrder, InOrder
  <2>4. HandlersReady'
    BY <1>5, <2>1, SendEffect DEF WatchInv, HandlersReady
  <2>5. ASSUME NEW t \in Tasks, NEW v \in Watches, WillNotify(v, t)
        PROVE  task'[t].mail = 1 \/ WillNotify(v, t)'
    BY <1>5, <2>5, SendEffect DEF WillNotify
  <2>6. ActiveTasksAreWatched'
    BY <1>5, <2>1, <2>5, SendEffect DEF WatchInv, ActiveTasksAreWatched, Active
  <2>. QED  BY <2>2, <2>3, <2>4, <2>6 DEF WatchInv
<1>6. CASE UnlockBoth(w)
  <2>1. /\ watch[w].pc = "sending" /\ watch[w].next = NoTask /\ watch'[w].pc = "done"
        /\ \A v \in Watches \ {w} : watch'[v] = watch[v]
        /\ schedLock' = Nobody /\ dispLock' = Nobody
        /\ UNCHANGED <<task, handler, killed>>
    BY <1>6, GotoType DEF UnlockBoth
  <2>2. LocksHeld'
    BY <2>1, DistinctAssumption DEF WatchInv, LocksHeld
  <2>3. WatchesInOrder' /\ OneWatchPerDisplay'
    BY <2>1 DEF WatchInv, WatchesInOrder, OneWatchPerDisplay
  <2>4. \A t \in Tasks : ~WillNotify(w, t)
    BY <2>1 DEF WatchInv, WatchesInOrder, WillNotify
  <2>5. ActiveTasksAreWatched'
    BY <2>1, <2>4 DEF WatchInv, ActiveTasksAreWatched, WillNotify, Active
  <2>. QED  BY <2>1, <2>2, <2>3, <2>5, WatchesMove DEF WatchInv
<1>. QED  BY <1>2, <1>3, <1>4, <1>5, <1>6 DEF WatchStep

-----------------------------------------------------------------------------
(* The steps of the environment, and the theorems *)

(* A server that closes, and the trim of the displays, move several        *)
(* goroutines in one step.                                                 *)
LEMMA ManyWatchesMove ==
  ASSUME WatchInv, TypeOK', UNCHANGED <<task, handler, schedLock, dispLock, killed>>,
         \A w \in Watches : \/ watch'[w] = watch[w]
                            \/ /\ watch[w].pc = "watching" /\ watch'[w].pc = "grace"
                               /\ watch'[w].display = watch[w].display
                            \/ watch[w].pc = "done" /\ watch'[w].pc = "none"
  PROVE  WatchInv'
<1>1. LocksHeld' /\ WatchesInOrder'
  BY DEF WatchInv, LocksHeld, WatchesInOrder
<1>2. OneWatchPerDisplay'
  BY DEF WatchInv, OneWatchPerDisplay
<1>3. ASSUME NEW t \in Tasks, NEW w \in Watches, WillNotify(w, t) PROVE WillNotify(w, t)'
  BY <1>3 DEF WillNotify
<1>4. ActiveTasksAreWatched'
  BY <1>3 DEF WatchInv, ActiveTasksAreWatched, Active
<1>. QED  BY <1>1, <1>2, <1>4, WatchesMove DEF WatchInv

LEMMA NextWatchInv == WatchInv /\ [Next]_vars => WatchInv'
<1>. SUFFICES ASSUME WatchInv, [Next]_vars PROVE WatchInv'
  OBVIOUS
<1>1. TypeOK'
  BY NextTypeOK DEF WatchInv
<1>. USE <1>1
<1>2. ASSUME NEW d \in Displays, DisplayCloses(d) PROVE WatchInv'
  BY <1>2, ManyWatchesMove DEF DisplayCloses, WatchInv, TypeOK, Watch
<1>3. ASSUME NEW d \in Displays, DisplayOpens(d) PROVE WatchInv'
  BY <1>3, ManyWatchesMove DEF DisplayOpens
<1>4. CASE TrimDisplays
  <2>1. \A w \in Watches : watch[w] \in Watch
    BY DEF WatchInv, TypeOK
  <2>2. \A w \in Watches : watch'[w] = watch[w] \/ (watch[w].pc = "done"
                                                   /\ watch'[w].pc = "none")
    BY <1>4, <2>1 DEF TrimDisplays, Watch
  <2>. QED  BY <1>4, <2>2, ManyWatchesMove DEF TrimDisplays
<1>5. CASE UNCHANGED vars
  BY <1>5, ManyWatchesMove DEF vars
<1>6. CASE Kill
  <2>1. killed' /\ UNCHANGED <<task, watch, handler, schedLock, dispLock>>
    BY <1>6 DEF Kill
  <2>. QED
    BY <2>1 DEF WatchInv, LocksHeld, WatchesInOrder, TasksInOrder, InOrder, HandlersReady,
                OneWatchPerDisplay, ActiveTasksAreWatched
<1>. QED  BY <1>2, <1>3, <1>4, <1>5, <1>6, LockKeepsWatchInv, HandlerKeepsWatchInv,
             WatchKeepsWatchInv, TaskKeepsWatchInv
          DEF Next

LEMMA SpecWatchInv == Spec => []WatchInv
BY InitWatchInv, NextWatchInv, PTL DEF Spec

(* There is at most one entry of a display that is not deactivated: the    *)
(* goroutine that is past its search holds the displays' lock, so InitDisplay *)
(* never overlooks it (displays.go:67).                                    *)
THEOREM DisplaysWatchedOnce == Spec => []OneWatchPerDisplay
<1>1. WatchInv => OneWatchPerDisplay
  BY DEF WatchInv
<1>. QED  BY <1>1, SpecWatchInv, PTL

(* Until the backend is killed, every active task is watched by a          *)
(* goroutine that will still notify it, or was notified: none slips        *)
(* between the search of InitDisplay and the notification of the tasks of  *)
(* the display (displays.go:67, display.go:88).                            *)
THEOREM NoTaskSlipsThrough == Spec => []ActiveTasksAreWatched
<1>1. WatchInv => ActiveTasksAreWatched
  BY DEF WatchInv
<1>. QED  BY <1>1, SpecWatchInv, PTL

(* There is no third way to get stuck with a lock besides LockCycle and    *)
(* SenderStuck: otherwise the holder finds what it needs next, be it the   *)
(* other lock, room in the channel, a task that is about to receive from   *)
(* it, or nothing (display.go:88, scheduler.go:300).                       *)
HoldersProceed ==
  \/ schedLock = Nobody /\ dispLock = Nobody
  \/ LockCycle
  \/ SenderStuck
  \/ \E h \in Handlers :
       schedLock = h /\ dispLock = Nobody /\ handler[h].pc = "wantDisplays"
  \/ \E w \in Watches :
       /\ dispLock = w
       /\ \/ watch[w].pc = "wantScheduler" /\ schedLock = Nobody
          \/ /\ watch[w].pc = "sending" /\ schedLock = w
             /\ \/ watch[w].next = NoTask
                \/ task[watch[w].next].mail = 0
                \/ task[watch[w].next].pc = "select"

(* The two locks are only ever held for good in a circular wait or by a    *)
(* goroutine whose receiver is gone: apart from these the holder can go on *)
(* at once (display.go:88, scheduler.go:300).                              *)
THEOREM OnlyTwoWaysToGetStuck == Spec => []HoldersProceed
<1>1. WatchInv => HoldersProceed
  <2>. SUFFICES ASSUME WatchInv, ~LockCycle, ~SenderStuck PROVE HoldersProceed
    BY DEF HoldersProceed
  <2>1. CASE schedLock = Nobody
    <3>1. ASSUME NEW w \in Watches, dispLock = w
          PROVE  watch[w].pc = "wantScheduler"
      BY <2>1, <3>1, DistinctAssumption DEF WatchInv, LocksHeld
    <3>. QED  BY <2>1, <3>1 DEF WatchInv, TypeOK, HoldersProceed
  <2>2. ASSUME NEW h \in Handlers, schedLock = h PROVE HoldersProceed
    <3>1. handler[h].pc = "wantDisplays"
      BY <2>2 DEF WatchInv, LocksHeld
    <3>2. ASSUME NEW w \in Watches PROVE dispLock # w
      <4>. SUFFICES ASSUME dispLock = w PROVE FALSE
        OBVIOUS
      <4>1. schedLock # w
        BY <2>2, DistinctAssumption
      <4>2. watch[w].pc = "wantScheduler"
        BY <4>1 DEF WatchInv, LocksHeld
      <4>. QED  BY <2>2, <3>1, <4>2 DEF LockCycle
    <3>. QED  BY <2>2, <3>1, <3>2 DEF WatchInv, TypeOK, HoldersProceed
  <2>3. ASSUME NEW w \in Watches, schedLock = w PROVE HoldersProceed
    <3>1. watch[w].pc = "sending" /\ dispLock = w
      BY <2>3 DEF WatchInv, LocksHeld
    <3>2. watch[w].next \in Tasks => task[watch[w].next].mail \in {0, 1}
      BY DEF WatchInv, TypeOK, Task
    <3>3. watch[w].next \in Tasks \union {NoTask}
      BY DEF WatchInv, TypeOK, Watch
    <3>. QED  BY <2>3, <3>1, <3>2, <3>3 DEF SenderStuck, HoldersProceed
  <2>. QED  BY <2>1, <2>2, <2>3 DEF WatchInv, TypeOK
<1>. QED  BY <1>1, SpecWatchInv, PTL

=============================================================================
