-------------------------- MODULE SchedulerCalmProofs --------------------------
(***************************************************************************)
(* Theorems about Scheduler when no resume overtakes the returning         *)
(* goroutine of its task (~EagerResume): then a task has one goroutine at  *)
(* a time, and what a goroutine publishes agrees with what it copied.      *)
(* What is said of the lines of the file, and what follows from it, also   *)
(* takes file operations that do not fail (~FileFaults): torn and repeated *)
(* lines are in TaskArchive.                                               *)
(***************************************************************************)
EXTENDS SchedulerProofs

-----------------------------------------------------------------------------
(* One goroutine, one truth *)

OneGoroutine == \A k, l \in DOMAIN runner : runner[k].task = runner[l].task => k = l

(* The private copy of goroutine l and the struct it was copied from: they *)
(* differ only while an execution is not published yet, or a stop that     *)
(* ends the goroutine.  A task that is not listed any more was trimmed     *)
(* while its goroutine was returning.                                      *)
Settled(l) ==
  LET p == runner[l].task
      d == heap[p].dyn
      s == runner[l].shadow
  IN  /\ d.deactivated => At(l, "final") /\ s = d
      /\ p \in tasks \/ d.deactivated
      /\ runner[l].pc \in {"loop", "running", "delay"} => s = d
      /\ At(l, "publish") =>
           \E success \in BOOLEAN, e \in {d, Deactivated(d)} :
             s = Counted(e, success, LimitOf(l))
      /\ At(l, "final") => s = d \/ s = Deactivated(d)

(* SettledWhenDeactivated is not inductive: it says nothing of the copies  *)
(* of goroutines whose task is active, which are published later.          *)
CalmInv == OneGoroutine /\ \A l \in DOMAIN runner : Settled(l)

LEMMA CalmInvImplies == CalmInv => SettledWhenDeactivated
BY DEF CalmInv, OneGoroutine, Settled, SettledWhenDeactivated

(* A goroutine is as settled as before if neither it nor its task changes. *)
LEMMA SettledKept ==
  ASSUME TypeOK, TypeOK', [Next]_vars, CalmInv, NEW k \in DOMAIN runner,
         k \in DOMAIN runner', runner'[k] = runner[k],
         heap'[runner[k].task].dyn = heap[runner[k].task].dyn,
         \/ runner[k].task \in tasks'
         \/ heap[runner[k].task].dyn.deactivated
  PROVE  Settled(k)'
<1>1. Settled(k)
  BY DEF CalmInv
<1>2. LimitOf(k)' = LimitOf(k)
  BY LimitOfKept
<1>. QED  BY <1>1, <1>2 DEF Settled, At

(* A new goroutine, for a task that has no other and is active again. *)
LEMMA StartCalmInv ==
  ASSUME TypeOK, TypeOK', [Next]_vars, CalmInv,
         NEW p \in Pointers, NEW l \in FreshLaunches, StartGoroutine(l, p),
         \A k \in DOMAIN runner : runner[k].task # p,
         p \in tasks', ~heap'[p].dyn.deactivated, tasks \subseteq tasks',
         \A q \in DOMAIN heap : q # p => heap'[q] = heap[q]
  PROVE  CalmInv'
<1>1. /\ DOMAIN runner' = DOMAIN runner \union {l}
      /\ l \notin DOMAIN runner
      /\ runner'[l].pc = "starting"
      /\ runner'[l].task = p
      /\ \A k \in DOMAIN runner : runner'[k] = runner[k]
  BY StartRunner
<1>2. Settled(l)'
  BY <1>1 DEF Settled, At
<1>3. ASSUME NEW k \in DOMAIN runner PROVE Settled(k)'
  <2>1. runner[k].task \in DOMAIN heap /\ heap'[runner[k].task] = heap[runner[k].task]
    BY DEF TypeOK
  <2>2. runner[k].task \in tasks' \/ heap[runner[k].task].dyn.deactivated
    BY DEF CalmInv, Settled
  <2>. QED  BY <1>1, <2>1, <2>2, SettledKept
<1>4. OneGoroutine'
  BY <1>1 DEF OneGoroutine, CalmInv
<1>. QED  BY <1>1, <1>2, <1>3, <1>4 DEF CalmInv

(* Goroutines stay as they are or return; tasks in use are left alone.     *)
LEMMA FewerCalmInv ==
  ASSUME TypeOK, TypeOK', [Next]_vars, CalmInv,
         DOMAIN runner' \subseteq DOMAIN runner,
         \A k \in DOMAIN runner' :
           /\ runner'[k] = runner[k]
           /\ heap'[runner[k].task].dyn = heap[runner[k].task].dyn
           /\ \/ runner[k].task \in tasks'
              \/ heap[runner[k].task].dyn.deactivated
  PROVE  CalmInv'
<1>1. \A k \in DOMAIN runner' : Settled(k)'
  BY SettledKept
<1>2. OneGoroutine'
  BY DEF OneGoroutine, CalmInv
<1>. QED  BY <1>1, <1>2 DEF CalmInv

LEMMA CommandCalmInv ==
  ASSUME TypeOK, TypeOK', CalmInv, ~EagerResume, Command
  PROVE  CalmInv'
<1>. USE DEF Channels
<1>0. [Next]_vars
  BY DEF Next
<1>1. ASSUME NEW p \in Pointers \ DOMAIN heap, NEW l \in FreshLaunches, NEW t \in Task,
             ~t.dyn.deactivated, heap' = With(heap, p, t), tasks' = tasks \union {p},
             StartGoroutine(l, p)
      PROVE  CalmInv'
  <2>1. /\ heap'[p] = t
        /\ \A q \in DOMAIN heap : heap'[q] = heap[q]
    BY <1>1 DEF With
  <2>2. \A k \in DOMAIN runner : runner[k].task # p
    BY DEF TypeOK
  <2>. QED  BY <1>0, <1>1, <2>1, <2>2, StartCalmInv
<1>2. ASSUME NEW r \in Requests, RunAccepted(r) PROVE CalmInv'
  <2>1. PICK p \in Pointers \ DOMAIN heap, l \in FreshLaunches :
          /\ heap' = With(heap, p, Initialised(currentId, r, NewDynamic, l))
          /\ tasks' = tasks \union {p}
          /\ StartGoroutine(l, p)
    BY <1>2 DEF RunAccepted
  <2>2. currentId \in 0 .. MaxId - 1
    BY <1>2, BoundAssumption DEF RunAccepted, TypeOK
  <2>3. /\ Initialised(currentId, r, NewDynamic, l) \in Task
        /\ ~Initialised(currentId, r, NewDynamic, l).dyn.deactivated
    BY <2>2, NewDynamicType, InitialisedType DEF FreshLaunches
  <2>. QED  BY <1>1, <2>1, <2>3
<1>3. ASSUME NEW a \in archive, ResumeFromFile(a) PROVE CalmInv'
  <2>1. PICK p \in Pointers \ DOMAIN heap, l \in FreshLaunches :
          /\ heap' = With(heap, p, Initialised(a.id, a.req, a.dyn, l))
          /\ tasks' = tasks \union {p}
          /\ StartGoroutine(l, p)
    BY <1>3 DEF ResumeFromFile
  <2>2. /\ Initialised(a.id, a.req, a.dyn, l) \in Task
        /\ ~Initialised(a.id, a.req, a.dyn, l).dyn.deactivated
    BY InitialisedType DEF TypeOK, Archived, FreshLaunches
  <2>. QED  BY <1>1, <2>1, <2>2
<1>4. ASSUME NEW p \in tasks, ResumeFromMemory(p) PROVE CalmInv'
  <2>1. PICK l \in FreshLaunches :
          /\ heap' = [heap EXCEPT ![p] = Initialised(heap[p].id, heap[p].req, heap[p].dyn, l)]
          /\ StartGoroutine(l, p)
    BY <1>4 DEF ResumeFromMemory
  <2>2. p \in DOMAIN heap /\ p \in Pointers /\ heap[p] \in Task
    BY DEF TypeOK
  <2>3. ~Initialised(heap[p].id, heap[p].req, heap[p].dyn, l).dyn.deactivated
    BY <2>2, InitialisedType DEF Task, FreshLaunches
  <2>4. /\ ~heap'[p].dyn.deactivated
        /\ \A q \in DOMAIN heap : q # p => heap'[q] = heap[q]
    BY <2>1, <2>2, <2>3
  <2>5. /\ \A k \in DOMAIN runner : runner[k].task # p
        /\ tasks' = tasks
    BY <1>4 DEF ResumeFromMemory, MayResume
  <2>. QED  BY <1>0, <2>1, <2>2, <2>4, <2>5, StartCalmInv
<1>5. ASSUME NEW p \in tasks, ResumeFromMemoryRejected(p) PROVE CalmInv'
  <2>. DEFINE h == [heap EXCEPT ![p] = Initialised(heap[p].id, heap[p].req, heap[p].dyn, NoLaunch)]
  <2>1. /\ \A k \in DOMAIN runner : runner[k].task # p
        /\ tasks' = tasks \ {p}
        /\ heap' = Collect(h, tasks', runner)
        /\ runner' = runner
    BY <1>5 DEF ResumeFromMemoryRejected, MayResume
  <2>2. \A q \in DOMAIN heap : q # p => h[q] = heap[q]
    OBVIOUS
  <2>. HIDE DEF h
  <2>3. \A q \in DOMAIN heap' : heap'[q] = h[q]
    BY <2>1 DEF Collect
  <2>4. ASSUME NEW k \in DOMAIN runner
        PROVE  /\ heap'[runner[k].task].dyn = heap[runner[k].task].dyn
               /\ runner[k].task \in tasks' \/ heap[runner[k].task].dyn.deactivated
    <3>1. runner[k].task \in DOMAIN heap /\ runner[k].task \in DOMAIN heap'
      BY <2>1 DEF TypeOK
    <3>2. runner[k].task \in tasks \/ heap[runner[k].task].dyn.deactivated
      BY DEF CalmInv, Settled
    <3>. QED  BY <2>1, <2>2, <2>3, <3>1, <3>2
  <2>. QED  BY <1>0, <2>1, <2>4, FewerCalmInv
<1>6. ASSUME Refresh PROVE CalmInv'
  <2>1. PICK woken \in SUBSET Refreshable :
          runner' = [l \in DOMAIN runner |->
                       IF l \in woken
                       THEN [runner[l] EXCEPT !.pc = "loop", !.chan = NoLaunch]
                       ELSE runner[l]]
    BY <1>6 DEF Refresh
  <2>2. tasks' = tasks /\ heap' = heap
    BY <1>6 DEF Refresh
  <2>3. ASSUME NEW k \in DOMAIN runner
        PROVE  runner'[k].task = runner[k].task /\ Settled(k)'
    <3>1. Settled(k) /\ runner[k] \in Runner
      BY DEF CalmInv, TypeOK
    <3>2. CASE k \in woken
      <4>1. /\ runner'[k].pc = "loop"
            /\ runner'[k].task = runner[k].task
            /\ runner'[k].shadow = runner[k].shadow
        BY <2>1, <3>1, <3>2 DEF Runner
      <4>2. runner[k].pc = "delay"
        BY <3>2 DEF Refreshable
      <4>. QED  BY <2>2, <3>1, <4>1, <4>2 DEF Settled, At
    <3>3. CASE k \notin woken
      <4>1. runner'[k] = runner[k] /\ k \in DOMAIN runner'
        BY <2>1, <3>3
      <4>2. runner[k].task \in tasks \/ heap[runner[k].task].dyn.deactivated
        BY <3>1 DEF Settled
      <4>. QED  BY <1>0, <2>2, <4>1, <4>2, SettledKept
    <3>. QED  BY <3>2, <3>3
  <2>4. DOMAIN runner' = DOMAIN runner
    BY <2>1
  <2>. QED  BY <2>3, <2>4 DEF CalmInv, OneGoroutine
<1>7. ASSUME Trim PROVE CalmInv'
  <2>1. PICK written \in SUBSET TasksToDeactivate :
          /\ tasks' = tasks \ written
          /\ heap' = Collect(heap, tasks', runner)
          /\ runner' = runner
    BY <1>7 DEF Trim
  <2>2. ASSUME NEW k \in DOMAIN runner
        PROVE  /\ heap'[runner[k].task].dyn = heap[runner[k].task].dyn
               /\ runner[k].task \in tasks' \/ heap[runner[k].task].dyn.deactivated
    <3>1. runner[k].task \in DOMAIN heap'
      BY <2>1 DEF TypeOK
    <3>2. runner[k].task \in tasks \/ heap[runner[k].task].dyn.deactivated
      BY DEF CalmInv, Settled
    <3>. QED  BY <2>1, <3>1, <3>2 DEF Collect, TasksToDeactivate
  <2>. QED  BY <1>0, <2>1, <2>2, FewerCalmInv
<1>8. CASE UNCHANGED <<tasks, heap, runner>>
  <2>1. \A k \in DOMAIN runner :
          runner[k].task \in tasks \/ heap[runner[k].task].dyn.deactivated
    BY DEF CalmInv, Settled
  <2>. QED  BY <1>0, <1>8, <2>1, FewerCalmInv
<1>. QED  BY <1>2, <1>3, <1>4, <1>5, <1>6, <1>7, <1>8
          DEF Command, RunRejected, ResumeFromFileRejected, ResumeFromFileFails, Stop,
              StopTasksByDisplay, Kill

(* The steps of goroutine l that leave its task alone. *)
LEMMA GotoCalmInv ==
  ASSUME TypeOK, TypeOK', [Next]_vars, CalmInv, NEW l \in DOMAIN runner,
         NEW pc \in {"starting", "loop", "running", "publish", "delay", "final",
                     "hung"},
         NEW s \in Dynamic, NEW c \in Channels, Goto(l, pc, s, c),
         UNCHANGED <<tasks, heap>>,
         LET d == heap[runner[l].task].dyn
         IN  /\ ~d.deactivated
             /\ pc \in {"loop", "running", "delay"} => s = d
             /\ pc = "publish" =>
                  \E success \in BOOLEAN, e \in {d, Deactivated(d)} :
                    s = Counted(e, success, LimitOf(l))
             /\ pc = "final" => s = Deactivated(d)
  PROVE  CalmInv'
<1>1. /\ DOMAIN runner' = DOMAIN runner
      /\ runner'[l].pc = pc
      /\ runner'[l].shadow = s
      /\ \A k \in DOMAIN runner : runner'[k].task = runner[k].task
      /\ \A k \in DOMAIN runner : k # l => runner'[k] = runner[k]
  BY GotoRunner
<1>2. LimitOf(l)' = LimitOf(l)
  BY <1>1, LimitOfKept
<1>3. \A k \in DOMAIN runner :
        runner[k].task \in tasks \/ heap[runner[k].task].dyn.deactivated
  BY DEF CalmInv, Settled
<1>4. Settled(l)'
  BY <1>1, <1>2, <1>3 DEF Settled, At
<1>5. \A k \in DOMAIN runner : k # l => Settled(k)'
  BY <1>1, <1>3, SettledKept
<1>. QED  BY <1>1, <1>4, <1>5 DEF CalmInv, OneGoroutine

LEMMA ExecuteTaskCalmInv ==
  ASSUME TypeOK, TypeOK', CalmInv, NEW l \in DOMAIN runner, ExecuteTask(l)
  PROVE  CalmInv'
<1>. DEFINE p == runner[l].task
            s == runner[l].shadow
            d == heap[p].dyn
<1>0. [Next]_vars
  BY DEF Next
<1>1. Settled(l)
  BY DEF CalmInv
<1>2. /\ runner[l] \in Runner
      /\ p \in DOMAIN heap
      /\ heap[p] \in Task
      /\ s \in Dynamic /\ d \in Dynamic
      /\ LimitOf(l) \in Int
  BY RequestAssumption DEF TypeOK, Runner, Task, LimitOf
<1>3. /\ Deactivated(s) \in Dynamic
      /\ runner[l].chan \in Channels
      /\ heap[p].chan \in Channels
      /\ NoLaunch \in Channels
  BY <1>2, DeactivatedType DEF Channels, Runner, Task
<1>4. \A success \in BOOLEAN, e \in {s, Deactivated(s)} :
        Counted(e, success, LimitOf(l)) \in Dynamic
  BY <1>2, <1>3, CountedType
<1>5. ASSUME NEW h, h \in [DOMAIN heap -> Task],
             \A q \in DOMAIN heap : h[q] = heap[q] \/ q = p,
             runner' = Without(runner, l), heap' = Collect(h, tasks, runner'),
             tasks' = tasks
      PROVE  CalmInv'
  <2>1. /\ DOMAIN runner' = DOMAIN runner \ {l}
        /\ \A k \in DOMAIN runner' : runner'[k] = runner[k]
    BY <1>5 DEF Without
  <2>2. \A q \in DOMAIN heap' : heap'[q] = h[q]
    BY <1>5 DEF Collect
  <2>3. ASSUME NEW k \in DOMAIN runner'
        PROVE  /\ heap'[runner[k].task].dyn = heap[runner[k].task].dyn
               /\ runner[k].task \in tasks' \/ heap[runner[k].task].dyn.deactivated
    <3>1. runner[k].task \in DOMAIN heap'
      BY <2>1 DEF TypeOK
    <3>2. runner[k].task \in DOMAIN heap
      BY <2>1 DEF TypeOK
    <3>3. runner[k].task # p
      BY <2>1 DEF CalmInv, OneGoroutine
    <3>4. runner[k].task \in tasks \/ heap[runner[k].task].dyn.deactivated
      BY <2>1 DEF CalmInv, Settled
    <3>. QED  BY <1>5, <2>2, <3>1, <3>2, <3>3, <3>4
  <2>. QED  BY <1>0, <2>1, <2>3, FewerCalmInv
<1>. HIDE DEF p, s, d
<1>6. CASE LoggerCreationFails(l)
  BY <1>5, <1>6 DEF LoggerCreationFails, TypeOK
<1>7. CASE CopyDynamicState(l)
  <2>1. ~d.deactivated
    BY <1>1, <1>7 DEF CopyDynamicState, Settled, At, p, d
  <2>2. /\ Goto(l, "loop", d, NoLaunch)
        /\ UNCHANGED <<tasks, heap>>
    BY <1>7, <2>1 DEF CopyDynamicState, p, d
  <2>. QED  BY <1>0, <1>2, <1>3, <2>1, <2>2, GotoCalmInv DEF p, d
<1>8. CASE runner[l].pc \in {"loop", "running", "delay"}
  <2>1. s = d /\ ~d.deactivated
    BY <1>1, <1>8 DEF Settled, At, p, s, d
  <2>2. CASE StartCommand(l)
    BY <1>0, <1>2, <1>3, <2>1, <2>2, GotoCalmInv DEF StartCommand, p, s, d
  <2>3. CASE StartFails(l) \/ StopDuringDelay(l) \/ ContextDoneDuringDelay(l)
    <3>1. Goto(l, "final", Deactivated(s), NoLaunch) /\ UNCHANGED <<tasks, heap>>
      BY <2>3 DEF StartFails, StopDuringDelay, ContextDoneDuringDelay, s
    <3>. QED  BY <1>0, <1>2, <1>3, <2>1, <3>1, GotoCalmInv DEF p, s, d
  <2>4. CASE CommandEnds(l) \/ StopReceived(l) \/ ContextDone(l)
    <3>1. PICK success \in BOOLEAN, e \in {s, Deactivated(s)} :
            /\ Goto(l, "publish", Counted(e, success, LimitOf(l)), NoLaunch)
            /\ UNCHANGED <<tasks, heap>>
      BY <2>4 DEF CommandEnds, StopReceived, ContextDone, s
    <3>. QED  BY <1>0, <1>3, <1>4, <2>1, <3>1, GotoCalmInv DEF p, d
  <2>5. CASE DelayElapses(l)
    BY <1>0, <1>2, <1>3, <2>1, <2>5, GotoCalmInv DEF DelayElapses, p, s, d
  <2>6. CASE LoggerDies(l)
    BY <1>0, <1>2, <1>3, <2>1, <2>6, GotoCalmInv DEF LoggerDies, p, s, d
  <2>. QED  BY <1>8, <2>2, <2>3, <2>4, <2>5, <2>6
            DEF ExecuteTask, LoggerCreationFails, CopyDynamicState, Publish,
                FinalPublish, At
<1>9. CASE Publish(l)
  <2>1. ~d.deactivated /\ p \in tasks
    BY <1>1, <1>9 DEF Publish, Settled, At, p, d
  <2>2. PICK pc \in {"final", "delay"}, c \in Channels :
          /\ Goto(l, pc, s, c)
          /\ pc = "final" <=> s.deactivated
    BY <1>2, <1>3, <1>9 DEF Publish, Dynamic, p, s
  <2>3. /\ DOMAIN runner' = DOMAIN runner
        /\ runner'[l].pc = pc
        /\ runner'[l].shadow = s
        /\ runner'[l].task = p
        /\ \A k \in DOMAIN runner : k # l => runner'[k] = runner[k]
    BY <1>2, <2>2, GotoRunner DEF p
  <2>4. heap'[p].dyn = s
    BY <1>2, <1>9 DEF Publish, Task, p, s
  <2>5. tasks' = tasks
    BY <1>9 DEF Publish
  <2>6. Settled(l)'
    BY <2>1, <2>2, <2>3, <2>4, <2>5 DEF Settled, At
  <2>7. ASSUME NEW k \in DOMAIN runner, k # l PROVE Settled(k)'
    <3>1. runner[k].task \in DOMAIN heap /\ runner[k].task # p
      BY <2>7 DEF TypeOK, CalmInv, OneGoroutine, p
    <3>2. heap'[runner[k].task] = heap[runner[k].task]
      BY <1>9, <3>1 DEF Publish, p
    <3>3. runner[k].task \in tasks \/ heap[runner[k].task].dyn.deactivated
      BY DEF CalmInv, Settled
    <3>. QED  BY <1>0, <2>3, <2>5, <2>7, <3>2, <3>3, SettledKept
  <2>8. \A k \in DOMAIN runner : runner'[k].task = runner[k].task
    BY <1>2, <2>2, GotoRunner
  <2>. QED  BY <2>3, <2>6, <2>7, <2>8 DEF CalmInv, OneGoroutine
<1>10. CASE FinalPublish(l)
  <2>1. [heap[p] EXCEPT !.dyn = s] \in Task
    BY <1>2 DEF Task
  <2>2. [heap EXCEPT ![p].dyn = s] \in [DOMAIN heap -> Task]
    BY <1>2, <2>1 DEF TypeOK
  <2>3. \A q \in DOMAIN heap : [heap EXCEPT ![p].dyn = s][q] = heap[q] \/ q = p
    OBVIOUS
  <2>. QED  BY <1>5, <1>10, <2>2, <2>3 DEF FinalPublish, p, s
<1>. QED  BY <1>6, <1>7, <1>8, <1>9, <1>10
          DEF ExecuteTask, StartCommand, StartFails, CommandEnds, StopReceived,
              ContextDone, DelayElapses, StopDuringDelay, ContextDoneDuringDelay,
              LoggerDies, At

LEMMA NextCalmInv ==
  ASSUME TypeOK, TypeOK', CalmInv, ~EagerResume, [Next]_vars
  PROVE  CalmInv'
<1>1. ASSUME UNCHANGED vars PROVE CalmInv'
  <2>1. \A k \in DOMAIN runner :
          runner[k].task \in tasks \/ heap[runner[k].task].dyn.deactivated
    BY DEF CalmInv, Settled
  <2>. QED  BY <1>1, <2>1, FewerCalmInv DEF vars
<1>. QED  BY <1>1, CommandCalmInv, ExecuteTaskCalmInv DEF Next

LEMMA CalmInvHolds ==
  ASSUME ~EagerResume
  PROVE  Spec => []CalmInv
<1>1. Init => CalmInv
  BY DEF Init, CalmInv, OneGoroutine
<1>2. TypeOK /\ TypeOK' /\ CalmInv /\ [Next]_vars => CalmInv'
  BY NextCalmInv
<1>. QED  BY <1>1, <1>2, TypeCorrect, PTL DEF Spec

(* Unless a resume overtakes the returning goroutine of its task, a task   *)
(* has one goroutine at a time, and what the list says of a deactivated    *)
(* task, and what Trim saves of it, is final.                              *)
THEOREM DeactivatedTasksAreSettled ==
  ASSUME ~EagerResume
  PROVE  Spec => []SettledWhenDeactivated
BY CalmInvHolds, CalmInvImplies, PTL

-----------------------------------------------------------------------------
(* What a step does to the records: the tasks of the list and of the file, *)
(* without pointers, channels and goroutines                               *)

(* One task gets another dynamic part. *)
Swap(a, d) ==
  /\ a \in KnownRecords
  /\ KnownRecords' = (KnownRecords \ {a}) \union {[id |-> a.id, req |-> a.req, dyn |-> d]}

RecordsKept == KnownRecords' = KnownRecords /\ UNCHANGED currentId

RecordAccepted(r) ==
  /\ currentId < MaxId
  /\ ~CheckForTaskConflict(r, tasks)
  /\ currentId' = currentId + 1
  /\ KnownRecords' = KnownRecords \union {[id |-> currentId, req |-> r, dyn |-> NewDynamic]}

RecordRejected(r) ==
  /\ currentId < MaxId
  /\ MayReject(r, tasks)
  /\ currentId' = currentId + 1
  /\ KnownRecords' = KnownRecords

(* What Task.Init makes of a dynamic part. *)
Renewed(d) ==
  [runs |-> d.runs, failures |-> d.failures, subsequent |-> 0, deactivated |-> FALSE]

Others(a) == {p \in tasks : heap[p].id # a.id}

RecordRenewed(a) ==
  /\ a.dyn.deactivated
  /\ ~CheckForTaskConflict(a.req, Others(a))
  /\ Swap(a, Renewed(a.dyn))
  /\ UNCHANGED currentId

RecordForgotten(a) ==
  /\ a.dyn.deactivated
  /\ MayReject(a.req, Others(a))
  /\ KnownRecords' = KnownRecords \ {a}
  /\ UNCHANGED currentId

RecordExecuted(a, success, e) ==
  /\ ~a.dyn.deactivated
  /\ Swap(a, Counted(e, success, MaxSubsequentFailures[a.req]))
  /\ UNCHANGED currentId

RecordDeactivated(a) ==
  /\ ~a.dyn.deactivated
  /\ Swap(a, Deactivated(a.dyn))
  /\ UNCHANGED currentId

RecordsStep ==
  \/ RecordsKept
  \/ \E r \in Requests : RecordAccepted(r) \/ RecordRejected(r)
  \/ \E a \in KnownRecords :
       \/ RecordRenewed(a)
       \/ RecordForgotten(a)
       \/ \E success \in BOOLEAN, e \in {a.dyn, Deactivated(a.dyn)} :
            RecordExecuted(a, success, e)
       \/ RecordDeactivated(a)

LEMMA KnownRecordType ==
  ASSUME TypeOK
  PROVE  KnownRecords \subseteq Archived
BY RecordType DEF KnownRecords, TypeOK

LEMMA KnownRecordUnique ==
  ASSUME TypeOK, UniqueIds, NEW a \in KnownRecords, NEW b \in KnownRecords, a.id = b.id
  PROVE  a = b
<1>1. \A p \in tasks : Record(p).id = heap[p].id
  BY RecordType DEF TypeOK
<1>. QED  BY <1>1 DEF KnownRecords, UniqueIds

(* Record(p) of the next state, for a task that keeps its place. *)
LEMMA RecordPrimed ==
  ASSUME TypeOK, TypeOK', NEW p \in tasks'
  PROVE  /\ Record(p)' = [id |-> heap'[p].id, req |-> heap'[p].req, dyn |-> heap'[p].dyn]
         /\ heap'[p] \in Task
BY DEF Record, TypeOK

LEMMA RecordsUnchanged ==
  ASSUME TypeOK, TypeOK', tasks' = tasks, archive' = archive,
         \A q \in tasks : /\ heap'[q].id = heap[q].id
                          /\ heap'[q].req = heap[q].req
                          /\ heap'[q].dyn = heap[q].dyn
  PROVE  KnownRecords' = KnownRecords
<1>1. \A q \in tasks : Record(q)' = Record(q)
  BY DEF Record
<1>. QED  BY <1>1 DEF KnownRecords

(* The struct of one listed task changes. *)
LEMMA SwapInMemory ==
  ASSUME TypeOK, TypeOK', UniqueIds, NEW p \in tasks, tasks' = tasks, archive' = archive,
         \A q \in tasks : q # p => heap'[q] = heap[q],
         heap'[p].id = heap[p].id, heap'[p].req = heap[p].req
  PROVE  Swap(Record(p), heap'[p].dyn)
<1>. DEFINE new == [id |-> Record(p).id, req |-> Record(p).req, dyn |-> heap'[p].dyn]
<1>1. \A q \in tasks : q # p => Record(q)' = Record(q)
  BY DEF Record
<1>2. Record(p)' = new
  BY RecordPrimed, RecordType DEF TypeOK
<1>3. \A q \in tasks : Record(q).id = heap[q].id
  BY RecordType DEF TypeOK
<1>4. /\ \A q \in tasks : q # p => Record(q) # Record(p)
      /\ Record(p) \notin archive
  BY <1>3 DEF UniqueIds
<1>. HIDE DEF new
<1>5. KnownRecords' = (KnownRecords \ {Record(p)}) \union {new}
  BY <1>1, <1>2, <1>4 DEF KnownRecords
<1>6. Record(p) \in KnownRecords
  BY DEF KnownRecords
<1>. QED  BY <1>5, <1>6 DEF Swap, new

(* A new struct enters the list; what is left of the file stays. *)
LEMMA RecordAppended ==
  ASSUME TypeOK, TypeOK', NEW p \in Pointers \ DOMAIN heap, NEW t \in Task,
         heap' = With(heap, p, t), tasks' = tasks \union {p}
  PROVE  KnownRecords' = {Record(q) : q \in tasks} \union archive'
                           \union {[id |-> t.id, req |-> t.req, dyn |-> t.dyn]}
<1>1. \A q \in tasks : Record(q)' = Record(q)
  BY DEF Record, With, TypeOK
<1>2. Record(p)' = [id |-> t.id, req |-> t.req, dyn |-> t.dyn]
  BY DEF Record, With
<1>. QED  BY <1>1, <1>2 DEF KnownRecords

LEMMA InitialisedRecord ==
  ASSUME NEW id \in 0 .. MaxId - 1, NEW r \in Requests, NEW d \in Dynamic,
         NEW l \in Channels
  PROVE  /\ Initialised(id, r, d, l) \in Task
         /\ Initialised(id, r, d, l).id = id
         /\ Initialised(id, r, d, l).req = r
         /\ Initialised(id, r, d, l).dyn = Renewed(d)
<1>. DEFINE e == [d EXCEPT !.subsequent = 0, !.deactivated = FALSE]
<1>1. 0 \in 0 .. MaxCount
  BY BoundAssumption
<1>2. e \in Dynamic /\ Renewed(d) \in Dynamic
  BY <1>1 DEF Dynamic, Renewed
<1>3. e.runs = d.runs /\ e.failures = d.failures /\ e.subsequent = 0 /\ e.deactivated = FALSE
  BY DEF Dynamic
<1>. HIDE DEF e
<1>4. e = Renewed(d)
  BY <1>2, <1>3 DEF Dynamic, Renewed
<1>5. Initialised(id, r, d, l).dyn = e
  BY DEF Initialised, e
<1>. QED  BY <1>4, <1>5, InitialisedType

LEMMA CommandOnRecords ==
  ASSUME TypeOK, TypeOK', UniqueIds, SavedDeactivated, CalmInv, ~EagerResume,
         ~FileFaults, Command
  PROVE  RecordsStep
<1>. USE DEF Channels
<1>1. /\ \A p \in tasks : /\ p \in DOMAIN heap
                          /\ heap[p] \in Task
                          /\ Record(p) \in KnownRecords
                          /\ Record(p) = [id |-> heap[p].id, req |-> heap[p].req,
                                          dyn |-> heap[p].dyn]
      /\ archive \subseteq KnownRecords
  BY DEF TypeOK, KnownRecords, Record
<1>2. \A p \in tasks : Others(Record(p)) = tasks \ {p}
  BY <1>1 DEF Others, UniqueIds
<1>3. ASSUME NEW r \in Requests, RunAccepted(r) PROVE RecordAccepted(r)
  <2>1. PICK p \in Pointers \ DOMAIN heap, l \in FreshLaunches :
          /\ heap' = With(heap, p, Initialised(currentId, r, NewDynamic, l))
          /\ tasks' = tasks \union {p}
    BY <1>3 DEF RunAccepted
  <2>. DEFINE t == Initialised(currentId, r, NewDynamic, l)
  <2>2. currentId \in 0 .. MaxId - 1
    BY <1>3, BoundAssumption DEF RunAccepted, TypeOK
  <2>3. t \in Task /\ t.id = currentId /\ t.req = r /\ t.dyn = NewDynamic
    <3>1. Renewed(NewDynamic) = NewDynamic
      BY DEF NewDynamic, Renewed
    <3>. QED  BY <2>2, <3>1, NewDynamicType, InitialisedRecord DEF FreshLaunches
  <2>4. archive' = archive
    BY <1>3 DEF RunAccepted
  <2>. HIDE DEF t
  <2>5. KnownRecords' = KnownRecords \union {[id |-> currentId, req |-> r, dyn |-> NewDynamic]}
    BY <2>1, <2>3, <2>4, RecordAppended DEF KnownRecords, t
  <2>. QED  BY <1>3, <2>5 DEF RunAccepted, RecordAccepted
<1>4. ASSUME NEW r \in Requests, RunRejected(r) PROVE RecordRejected(r)
  BY <1>4, RecordsUnchanged DEF RunRejected, RecordRejected
<1>5. ASSUME NEW p \in tasks, ResumeFromMemory(p) PROVE RecordRenewed(Record(p))
  <2>1. PICK l \in FreshLaunches :
          heap' = [heap EXCEPT ![p] = Initialised(heap[p].id, heap[p].req, heap[p].dyn, l)]
    BY <1>5 DEF ResumeFromMemory
  <2>. DEFINE t == Initialised(heap[p].id, heap[p].req, heap[p].dyn, l)
  <2>2. /\ t.id = heap[p].id
        /\ t.req = heap[p].req
        /\ t.dyn = Renewed(heap[p].dyn)
    BY <1>1, InitialisedRecord DEF Task, FreshLaunches
  <2>. HIDE DEF t
  <2>3. /\ heap'[p] = t
        /\ \A q \in tasks : q # p => heap'[q] = heap[q]
    BY <1>1, <2>1 DEF t
  <2>4. Swap(Record(p), t.dyn)
    BY <1>5, <2>2, <2>3, SwapInMemory DEF ResumeFromMemory
  <2>5. Record(p).dyn = heap[p].dyn /\ Record(p).req = heap[p].req
    BY <1>1
  <2>. QED  BY <1>2, <1>5, <2>2, <2>4, <2>5 DEF ResumeFromMemory, MayResume, RecordRenewed
<1>6. ASSUME NEW p \in tasks, ResumeFromMemoryRejected(p) PROVE RecordForgotten(Record(p))
  <2>. DEFINE h == [heap EXCEPT ![p] = Initialised(heap[p].id, heap[p].req, heap[p].dyn, NoLaunch)]
  <2>1. /\ heap[p].dyn.deactivated
        /\ MayReject(heap[p].req, tasks \ {p})
        /\ tasks' = tasks \ {p}
        /\ heap' = Collect(h, tasks', runner)
        /\ UNCHANGED <<currentId, archive>>
    BY <1>6 DEF ResumeFromMemoryRejected, MayResume
  <2>2. \A q \in tasks : q # p => h[q] = heap[q]
    BY <1>1
  <2>. HIDE DEF h
  <2>3. \A q \in tasks' : heap'[q] = heap[q]
    BY <2>1, <2>2 DEF Collect, TypeOK
  <2>4. \A q \in tasks' : Record(q)' = Record(q)
    BY <2>3 DEF Record
  <2>5. /\ \A q \in tasks : q # p => Record(q) # Record(p)
        /\ Record(p) \notin archive
    BY <1>1 DEF UniqueIds
  <2>6. KnownRecords' = KnownRecords \ {Record(p)}
    BY <2>1, <2>4, <2>5 DEF KnownRecords
  <2>7. Record(p).dyn = heap[p].dyn /\ Record(p).req = heap[p].req
    BY <1>1
  <2>. QED  BY <1>2, <2>1, <2>6, <2>7 DEF RecordForgotten
<1>7. ASSUME NEW a \in archive, NotInMemory(a.id)
      PROVE  Others(a) = tasks /\ a \notin {Record(q) : q \in tasks}
  BY <1>1, <1>7 DEF NotInMemory, Others
<1>8. ASSUME NEW a \in archive, ResumeFromFile(a) PROVE RecordRenewed(a)
  <2>1. PICK p \in Pointers \ DOMAIN heap, l \in FreshLaunches :
          /\ heap' = With(heap, p, Initialised(a.id, a.req, a.dyn, l))
          /\ tasks' = tasks \union {p}
    BY <1>8 DEF ResumeFromFile
  <2>. DEFINE t == Initialised(a.id, a.req, a.dyn, l)
  <2>2. /\ t \in Task
        /\ t.id = a.id
        /\ t.req = a.req
        /\ t.dyn = Renewed(a.dyn)
    BY InitialisedRecord DEF TypeOK, Archived, FreshLaunches
  <2>3. archive' = archive \ {a} /\ NotInMemory(a.id)
    BY <1>8 DEF ResumeFromFile, FileWithout
  <2>. HIDE DEF t
  <2>4. KnownRecords' = {Record(q) : q \in tasks} \union archive'
                          \union {[id |-> t.id, req |-> t.req, dyn |-> t.dyn]}
    BY <2>1, <2>2, RecordAppended DEF t
  <2>5. KnownRecords' = (KnownRecords \ {a}) \union {[id |-> a.id, req |-> a.req, dyn |-> t.dyn]}
    BY <1>7, <2>2, <2>3, <2>4 DEF KnownRecords
  <2>6. Swap(a, t.dyn)
    BY <1>1, <2>5 DEF Swap
  <2>. QED  BY <1>7, <1>8, <2>2, <2>3, <2>6
            DEF ResumeFromFile, RecordRenewed, SavedDeactivated
<1>9. ASSUME NEW a \in archive, ResumeFromFileRejected(a) PROVE RecordForgotten(a)
  <2>1. /\ MayReject(a.req, tasks) /\ NotInMemory(a.id)
        /\ archive' = archive \ {a}
        /\ UNCHANGED <<currentId, tasks, heap>>
    BY <1>9 DEF ResumeFromFileRejected, FileWithout
  <2>2. \A q \in tasks : Record(q)' = Record(q)
    BY <2>1 DEF Record
  <2>3. KnownRecords' = KnownRecords \ {a}
    BY <1>7, <2>1, <2>2 DEF KnownRecords
  <2>. QED  BY <1>7, <2>1, <2>3 DEF RecordForgotten, SavedDeactivated
<1>10. ASSUME Trim PROVE RecordsKept
  <2>1. PICK written \in SUBSET TasksToDeactivate :
          /\ archive' = archive \union {Record(p) : p \in written}
          /\ tasks' = tasks \ written
          /\ heap' = Collect(heap, tasks', runner)
          /\ UNCHANGED currentId
    BY <1>10 DEF Trim, FileWith
  <2>2. \A q \in tasks' : Record(q)' = Record(q)
    BY <2>1 DEF Record, Collect, TypeOK
  <2>3. written \subseteq tasks
    BY DEF TasksToDeactivate
  <2>4. KnownRecords' = KnownRecords
    BY <2>1, <2>2, <2>3 DEF KnownRecords
  <2>. QED  BY <2>1, <2>4 DEF RecordsKept
<1>11. CASE UNCHANGED <<currentId, tasks, heap, archive>>
  BY <1>11, RecordsUnchanged DEF RecordsKept, RecordsStep
<1>. QED  BY <1>1, <1>3, <1>4, <1>5, <1>6, <1>8, <1>9, <1>10, <1>11
          DEF Command, RecordsStep, ResumeFromFileFails, Stop, StopTasksByDisplay, Refresh,
              Kill

LEMMA ExecuteTaskOnRecords ==
  ASSUME TypeOK, TypeOK', UniqueIds, CalmInv, NEW l \in DOMAIN runner, ExecuteTask(l)
  PROVE  RecordsStep
<1>. DEFINE p == runner[l].task
            s == runner[l].shadow
            d == heap[p].dyn
<1>1. Settled(l)
  BY DEF CalmInv
<1>2. /\ runner[l] \in Runner
      /\ p \in DOMAIN heap
      /\ heap[p] \in Task
  BY DEF TypeOK
<1>3. ASSUME p \in tasks
      PROVE  /\ Record(p) \in KnownRecords
             /\ Record(p).dyn = d
             /\ Record(p).req = heap[p].req
  BY <1>2, <1>3, RecordType DEF KnownRecords
<1>. HIDE DEF p, s, d
<1>4. CASE UNCHANGED <<currentId, tasks, heap, archive>>
  BY <1>4, RecordsUnchanged DEF RecordsKept, RecordsStep
<1>5. CASE LoggerCreationFails(l)
  <2>1. \A q \in tasks : heap'[q] = heap[q]
    BY <1>5 DEF LoggerCreationFails, Collect, TypeOK
  <2>2. UNCHANGED <<currentId, tasks, archive>>
    BY <1>5 DEF LoggerCreationFails
  <2>. QED  BY <2>1, <2>2, RecordsUnchanged DEF RecordsKept, RecordsStep
<1>6. ASSUME p \in tasks, UNCHANGED <<tasks, archive>>,
             \A q \in tasks : q # p => heap'[q] = heap[q],
             heap'[p].id = heap[p].id, heap'[p].req = heap[p].req,
             heap'[p].dyn = s
      PROVE  Swap(Record(p), s)
  BY <1>6, SwapInMemory
<1>7. CASE Publish(l)
  <2>1. ~d.deactivated /\ p \in tasks
    BY <1>1, <1>7 DEF Publish, Settled, At, p, d
  <2>2. /\ heap' = [heap EXCEPT ![p].dyn = s]
        /\ UNCHANGED <<currentId, tasks, archive>>
    BY <1>7 DEF Publish, p, s
  <2>3. Swap(Record(p), s)
    BY <1>2, <1>6, <2>1, <2>2 DEF Task
  <2>4. PICK success \in BOOLEAN, e \in {d, Deactivated(d)} :
          s = Counted(e, success, MaxSubsequentFailures[heap[p].req])
    BY <1>1, <1>7 DEF Publish, Settled, At, LimitOf, p, s, d
  <2>5. RecordExecuted(Record(p), success, e)
    BY <1>3, <2>1, <2>2, <2>3, <2>4 DEF RecordExecuted
  <2>. QED  BY <1>3, <2>1, <2>5 DEF RecordsStep
<1>8. CASE FinalPublish(l)
  <2>. DEFINE h == [heap EXCEPT ![p].dyn = s]
  <2>1. UNCHANGED <<currentId, tasks, archive>> /\ heap' = Collect(h, tasks, runner')
    BY <1>8 DEF FinalPublish, p, s
  <2>2. /\ \A q \in tasks : q # p => h[q] = heap[q]
        /\ h[p].id = heap[p].id /\ h[p].req = heap[p].req /\ h[p].dyn = s
    BY <1>2 DEF Task, TypeOK
  <2>. HIDE DEF h
  <2>3. \A q \in tasks : heap'[q] = h[q]
    BY <2>1 DEF Collect, TypeOK
  <2>4. CASE p \notin tasks \/ s = d
    <3>1. \A q \in tasks : /\ heap'[q].id = heap[q].id
                           /\ heap'[q].req = heap[q].req
                           /\ heap'[q].dyn = heap[q].dyn
      BY <2>2, <2>3, <2>4 DEF d
    <3>. QED  BY <2>1, <3>1, RecordsUnchanged DEF RecordsKept, RecordsStep
  <2>5. CASE p \in tasks /\ s # d
    <3>1. ~d.deactivated /\ s = Deactivated(d)
      BY <1>1, <1>8, <2>5 DEF FinalPublish, Settled, At, p, s, d
    <3>2. Swap(Record(p), s)
      BY <1>6, <2>1, <2>2, <2>3, <2>5
    <3>3. RecordDeactivated(Record(p))
      BY <1>3, <2>1, <2>5, <3>1, <3>2 DEF RecordDeactivated
    <3>. QED  BY <1>3, <2>5, <3>3 DEF RecordsStep
  <2>. QED  BY <2>4, <2>5
<1>. QED  BY <1>4, <1>5, <1>7, <1>8
          DEF ExecuteTask, CopyDynamicState, StartCommand, StartFails, CommandEnds,
              StopReceived, ContextDone, DelayElapses, StopDuringDelay,
              ContextDoneDuringDelay, LoggerDies

LEMMA NextOnRecords ==
  ASSUME TypeOK, TypeOK', UniqueIds, SavedDeactivated, CalmInv, ~EagerResume,
         ~FileFaults, [Next]_vars
  PROVE  RecordsStep
<1>1. ASSUME UNCHANGED vars PROVE RecordsStep
  BY <1>1, RecordsUnchanged DEF vars, RecordsKept, RecordsStep
<1>. QED  BY <1>1, CommandOnRecords, ExecuteTaskOnRecords DEF Next

(* The invariants that carry the proofs about records. *)
RecordsInv == UniqueIds /\ SavedDeactivated /\ CalmInv

LEMMA RecordsInvHolds ==
  ASSUME ~EagerResume, ~FileFaults
  PROVE  Spec => []RecordsInv
<1>1. Init => SavedDeactivated
  BY DEF Init, SavedDeactivated
<1>2. TypeOK /\ SavedDeactivated /\ [Next]_vars => SavedDeactivated'
  BY NextSavedDeactivated
<1>3. Spec => []SavedDeactivated
  BY <1>1, <1>2, TypeCorrect, PTL DEF Spec
<1>. QED  BY <1>3, IdsStayUnique, CalmInvHolds, PTL DEF RecordsInv

-----------------------------------------------------------------------------
(* Counters *)

LEMMA CountersGrow ==
  ASSUME NEW d \in Dynamic, NEW success \in BOOLEAN, NEW limit \in Int,
         NEW e \in {d, Deactivated(d)}
  PROVE  /\ Counted(e, success, limit).runs >= d.runs
         /\ Counted(e, success, limit).failures >= d.failures
         /\ Deactivated(d).runs >= d.runs
         /\ Deactivated(d).failures >= d.failures
         /\ Renewed(d).runs >= d.runs
         /\ Renewed(d).failures >= d.failures
<1>1. d.runs \in Nat /\ d.failures \in Nat
  BY BoundAssumption DEF Dynamic
<1>2. e.runs = d.runs /\ e.failures = d.failures
  BY DEF Deactivated, Dynamic
<1>3. \A n \in Nat : Increment(n) >= n
  BY BoundAssumption DEF Increment
<1>4. /\ Counted(e, success, limit).runs = Increment(e.runs)
      /\ Counted(e, success, limit).failures \in {e.failures, Increment(e.failures)}
  BY DEF Counted
<1>5. Deactivated(d).runs = d.runs /\ Deactivated(d).failures = d.failures
  BY DEF Deactivated, Dynamic
<1>. QED  BY <1>1, <1>2, <1>3, <1>4, <1>5 DEF Renewed

LEMMA NextKeepsHistory ==
  ASSUME TypeOK, TypeOK', RecordsInv, ~EagerResume, ~FileFaults, [Next]_vars,
         NEW a \in KnownRecords, NEW b \in KnownRecords', a.id = b.id
  PROVE  b.dyn.runs >= a.dyn.runs /\ b.dyn.failures >= a.dyn.failures
<1>1. /\ a \in Archived
      /\ a.dyn \in Dynamic /\ MaxSubsequentFailures[a.req] \in Int
      /\ a.dyn.runs \in Nat /\ a.dyn.failures \in Nat
  BY KnownRecordType, RequestAssumption, BoundAssumption DEF Archived, Dynamic
<1>2. CASE b \in KnownRecords
  BY <1>1, <1>2, KnownRecordUnique DEF RecordsInv
<1>3. CASE b \notin KnownRecords
  <2>1. RecordsStep
    BY NextOnRecords DEF RecordsInv
  <2>2. ASSUME NEW c \in KnownRecords, NEW d, Swap(c, d)
        PROVE  c = a /\ b.dyn = d
    <3>1. b = [id |-> c.id, req |-> c.req, dyn |-> d]
      BY <1>3, <2>2 DEF Swap
    <3>2. b.id = c.id /\ b.dyn = d
      BY <3>1
    <3>. QED  BY <3>2, KnownRecordUnique DEF RecordsInv
  <2>3. ASSUME NEW r, RecordAccepted(r) PROVE FALSE
    <3>1. b = [id |-> currentId, req |-> r, dyn |-> NewDynamic]
      BY <1>3, <2>3 DEF RecordAccepted
    <3>2. a.id = currentId
      BY <3>1
    <3>3. a.id < currentId
      BY RecordType DEF KnownRecords, RecordsInv, UniqueIds, TypeOK
    <3>. QED  BY <3>2, <3>3 DEF TypeOK
  <2>4. CASE \E c \in KnownRecords : RecordRenewed(c)
    BY <1>1, <2>2, <2>4, CountersGrow DEF RecordRenewed
  <2>5. CASE \E c \in KnownRecords, success \in BOOLEAN :
               \E e \in {c.dyn, Deactivated(c.dyn)} : RecordExecuted(c, success, e)
    BY <1>1, <2>2, <2>5, CountersGrow DEF RecordExecuted
  <2>6. CASE \E c \in KnownRecords : RecordDeactivated(c)
    BY <1>1, <2>2, <2>6, CountersGrow DEF RecordDeactivated
  <2>. QED  BY <1>3, <2>1, <2>3, <2>4, <2>5, <2>6
            DEF RecordsStep, RecordsKept, RecordRejected, RecordForgotten
<1>. QED  BY <1>2, <1>3

(* Unless a resume overtakes the returning goroutine or a file operation   *)
(* fails, no publication, trim or resume takes back what a task's counters *)
(* say.                                                                    *)
THEOREM CountersNeverGoBack ==
  ASSUME ~EagerResume, ~FileFaults
  PROVE  Spec => HistoryKept
<1>1. TypeOK /\ TypeOK' /\ RecordsInv /\ [Next]_vars
        => [\A a \in KnownRecords, b \in KnownRecords' :
              a.id = b.id => /\ b.dyn.runs >= a.dyn.runs
                             /\ b.dyn.failures >= a.dyn.failures]_vars
  BY NextKeepsHistory
<1>. QED  BY <1>1, TypeCorrect, RecordsInvHolds, PTL DEF Spec, HistoryKept

-----------------------------------------------------------------------------
(* Conflicts *)

Compatible(r, s) ==
  /\ Hash[r] # Hash[s]
  /\ NoName \in {Name[r], Name[s]} \/ NameDisplayHash[r] # NameDisplayHash[s]

(* NoConflictingTasks with records for structs: a task that is renewed may *)
(* come from the file.                                                     *)
CompatibleRecords ==
  \A a, b \in KnownRecords :
    ~a.dyn.deactivated /\ ~b.dyn.deactivated /\ a.id # b.id => Compatible(a.req, b.req)

LEMMA CompatibleRecordsImplies ==
  TypeOK /\ UniqueIds /\ CompatibleRecords => NoConflictingTasks
<1>. SUFFICES ASSUME TypeOK, UniqueIds, CompatibleRecords,
                     NEW p \in tasks, NEW q \in tasks, Active(p), Active(q), p # q
              PROVE  Compatible(heap[p].req, heap[q].req)
  BY DEF NoConflictingTasks, Compatible
<1>1. \A x \in tasks : /\ Record(x) \in KnownRecords
                       /\ Record(x).id = heap[x].id
                       /\ Record(x).req = heap[x].req
                       /\ Record(x).dyn = heap[x].dyn
  BY RecordType DEF KnownRecords, TypeOK
<1>2. Record(p).id # Record(q).id
  BY <1>1 DEF UniqueIds
<1>3. ~Record(p).dyn.deactivated /\ ~Record(q).dyn.deactivated
  BY <1>1 DEF Active
<1>4. Compatible(Record(p).req, Record(q).req)
  BY <1>1, <1>2, <1>3 DEF CompatibleRecords
<1>. QED  BY <1>1, <1>4

(* The check of a command protects against every active record but the one *)
(* it is about.                                                            *)
LEMMA CheckedIsCompatible ==
  ASSUME TypeOK, SavedDeactivated, NEW r, NEW ts \in SUBSET tasks,
         ~CheckForTaskConflict(r, ts),
         NEW b \in KnownRecords, ~b.dyn.deactivated,
         \A p \in tasks : heap[p].id = b.id => p \in ts
  PROVE  Compatible(b.req, r) /\ Compatible(r, b.req)
<1>1. PICK p \in tasks : b = Record(p)
  BY DEF KnownRecords, SavedDeactivated
<1>2. b.id = heap[p].id /\ b.req = heap[p].req /\ b.dyn = heap[p].dyn
  BY <1>1, RecordType DEF TypeOK
<1>3. p \in ts
  BY <1>2
<1>. QED  BY <1>2, <1>3 DEF CheckForTaskConflict, Compatible

LEMMA NextCompatibleRecords ==
  ASSUME TypeOK, TypeOK', RecordsInv, CompatibleRecords, ~EagerResume,
         ~FileFaults, [Next]_vars
  PROVE  CompatibleRecords'
<1>1. RecordsStep
  BY NextOnRecords DEF RecordsInv
<1>2. ASSUME NEW a \in KnownRecords, NEW d, Swap(a, d), ~a.dyn.deactivated
      PROVE  CompatibleRecords'
  <2>. DEFINE new == [id |-> a.id, req |-> a.req, dyn |-> d]
  <2>1. new.id = a.id /\ new.req = a.req
    OBVIOUS
  <2>2. KnownRecords' = (KnownRecords \ {a}) \union {new}
    BY <1>2 DEF Swap
  <2>. HIDE DEF new
  <2>. QED  BY <1>2, <2>1, <2>2 DEF CompatibleRecords
<1>3. ASSUME NEW r \in Requests, RecordAccepted(r) PROVE CompatibleRecords'
  <2>. DEFINE new == [id |-> currentId, req |-> r, dyn |-> NewDynamic]
  <2>1. new.id = currentId /\ new.req = r
    OBVIOUS
  <2>2. KnownRecords' = KnownRecords \union {new}
    BY <1>3 DEF RecordAccepted
  <2>3. \A b \in KnownRecords :
          ~b.dyn.deactivated => Compatible(b.req, r) /\ Compatible(r, b.req)
    BY <1>3, CheckedIsCompatible DEF RecordAccepted, RecordsInv
  <2>. HIDE DEF new
  <2>. QED  BY <2>1, <2>2, <2>3 DEF CompatibleRecords
<1>4. ASSUME NEW a \in KnownRecords, RecordRenewed(a) PROVE CompatibleRecords'
  <2>. DEFINE new == [id |-> a.id, req |-> a.req, dyn |-> Renewed(a.dyn)]
  <2>1. new.id = a.id /\ new.req = a.req
    OBVIOUS
  <2>2. KnownRecords' = (KnownRecords \ {a}) \union {new}
    BY <1>4 DEF RecordRenewed, Swap
  <2>3. \A b \in KnownRecords :
          ~b.dyn.deactivated /\ b.id # a.id
            => Compatible(b.req, a.req) /\ Compatible(a.req, b.req)
    BY <1>4, CheckedIsCompatible DEF RecordRenewed, RecordsInv, Others
  <2>. HIDE DEF new
  <2>. QED  BY <2>1, <2>2, <2>3 DEF CompatibleRecords
<1>5. CASE KnownRecords' \subseteq KnownRecords
  BY <1>5 DEF CompatibleRecords
<1>. QED  BY <1>1, <1>2, <1>3, <1>4, <1>5
          DEF RecordsStep, RecordsKept, RecordRejected, RecordForgotten,
              RecordExecuted, RecordDeactivated

LEMMA CompatibleRecordsHolds ==
  ASSUME ~EagerResume, ~FileFaults
  PROVE  Spec => []CompatibleRecords
<1>1. Init => CompatibleRecords
  BY DEF Init, CompatibleRecords, KnownRecords
<1>2. TypeOK /\ TypeOK' /\ RecordsInv /\ CompatibleRecords /\ [Next]_vars
        => CompatibleRecords'
  BY NextCompatibleRecords
<1>. QED  BY <1>1, <1>2, TypeCorrect, RecordsInvHolds, PTL DEF Spec

(* Unless a resume overtakes the returning goroutine or a file operation   *)
(* fails, no two active tasks conflict: the check of a new or resumed task *)
(* is not undone by what goroutines publish later.                         *)
THEOREM ActiveTasksNeverConflict ==
  ASSUME ~EagerResume, ~FileFaults
  PROVE  Spec => []NoConflictingTasks
BY CompatibleRecordsHolds, CompatibleRecordsImplies, IdsStayUnique, TypeCorrect, PTL

(* The rule of task.go:114, one active task of a name on a display, is     *)
(* not broken while no resume overtakes a goroutine and no file operation  *)
(* fails: then it follows from the hashes, whatever they are.              *)
THEOREM OneNamePerDisplay ==
  ASSUME ~EagerResume, ~FileFaults
  PROVE  Spec => []OneTaskPerNameAndDisplay
<1>1. TypeOK /\ NoConflictingTasks => OneTaskPerNameAndDisplay
  BY RequestAssumption DEF NoConflictingTasks, OneTaskPerNameAndDisplay, TypeOK, Task
<1>. QED  BY <1>1, TypeCorrect, ActiveTasksNeverConflict, PTL

=============================================================================
