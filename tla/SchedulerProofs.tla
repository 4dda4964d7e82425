--------------------------- MODULE SchedulerProofs ---------------------------
(***************************************************************************)
(* Theorems about Scheduler, for every set of requests, pointers and       *)
(* launches, every limit and every bound.                                  *)
(***************************************************************************)
EXTENDS Scheduler, TLAPS

(* Collect restricts the heap to what the list and the goroutines reach. *)
LEMMA CollectFunction ==
  ASSUME NEW S, NEW h, h \in [DOMAIN h -> S], NEW ts, NEW rs
  PROVE  /\ DOMAIN Collect(h, ts, rs) \subseteq DOMAIN h
         /\ \A p \in DOMAIN h :
              p \in ts \/ (\E l \in DOMAIN rs : rs[l].task = p)
                => p \in DOMAIN Collect(h, ts, rs)
         /\ \A p \in DOMAIN Collect(h, ts, rs) : Collect(h, ts, rs)[p] = h[p]
         /\ Collect(h, ts, rs) \in [DOMAIN Collect(h, ts, rs) -> S]
BY DEF Collect

(* The records the actions build have their types. *)
LEMMA NewDynamicType == NewDynamic \in Dynamic
BY BoundAssumption DEF NewDynamic, Dynamic

LEMMA DeactivatedType ==
  ASSUME NEW s \in Dynamic
  PROVE  /\ Deactivated(s) \in Dynamic
         /\ Deactivated(s).deactivated
         /\ Deactivated(s).subsequent = s.subsequent
BY DEF Deactivated, Dynamic

LEMMA InitialisedType ==
  ASSUME NEW id \in 0 .. MaxId - 1, NEW r \in Requests, NEW d \in Dynamic,
         NEW l \in Channels
  PROVE  /\ Initialised(id, r, d, l) \in Task
         /\ Initialised(id, r, d, l).id = id
         /\ Initialised(id, r, d, l).req = r
         /\ Initialised(id, r, d, l).chan = l
         /\ Initialised(id, r, d, l).dyn.subsequent = 0
         /\ ~Initialised(id, r, d, l).dyn.deactivated
<1>. DEFINE e == [d EXCEPT !.subsequent = 0, !.deactivated = FALSE]
<1>1. 0 \in 0 .. MaxCount
  BY BoundAssumption
<1>2. e \in Dynamic /\ e.subsequent = 0 /\ e.deactivated = FALSE
  BY <1>1 DEF Dynamic
<1>3. Initialised(id, r, d, l) = [id |-> id, req |-> r, chan |-> l, dyn |-> e]
  BY DEF Initialised
<1>. HIDE DEF e
<1>. QED  BY <1>2, <1>3 DEF Task

LEMMA IncrementType ==
  ASSUME NEW n \in 0 .. MaxCount
  PROVE  Increment(n) \in 0 .. MaxCount
BY BoundAssumption DEF Increment

LEMMA CountedType ==
  ASSUME NEW s \in Dynamic, NEW success \in BOOLEAN, NEW limit \in Int
  PROVE  Counted(s, success, limit) \in Dynamic
<1>1. /\ s.runs \in 0 .. MaxCount
      /\ s.failures \in 0 .. MaxCount
      /\ s.subsequent \in 0 .. MaxCount
      /\ s.deactivated \in BOOLEAN
  BY DEF Dynamic
<1>2. /\ Increment(s.runs) \in 0 .. MaxCount
      /\ Increment(s.failures) \in 0 .. MaxCount
      /\ Increment(s.subsequent) \in 0 .. MaxCount
  BY <1>1, IncrementType
<1>3. 0 \in 0 .. MaxCount
  BY BoundAssumption
<1>. QED  BY <1>1, <1>2, <1>3 DEF Counted, Dynamic

(* A goroutine that moves on keeps its task. *)
LEMMA GotoRunner ==
  ASSUME TypeOK, NEW l \in DOMAIN runner,
         NEW pc \in {"starting", "loop", "running", "publish", "delay", "final",
                     "hung"},
         NEW s \in Dynamic, NEW c \in Channels, Goto(l, pc, s, c)
  PROVE  /\ DOMAIN runner' = DOMAIN runner
         /\ runner' \in [DOMAIN runner -> Runner]
         /\ runner'[l].pc = pc
         /\ runner'[l].shadow = s
         /\ runner'[l].chan = c
         /\ \A k \in DOMAIN runner : runner'[k].task = runner[k].task
         /\ \A k \in DOMAIN runner : k # l => runner'[k] = runner[k]
<1>1. runner \in [DOMAIN runner -> Runner]
  BY DEF TypeOK
<1>2. runner[l] \in Runner
  BY <1>1
<1>3. runner' = [runner EXCEPT ![l] = [runner[l] EXCEPT !.pc = pc, !.shadow = s, !.chan = c]]
  BY DEF Goto
<1>4. /\ [runner[l] EXCEPT !.pc = pc, !.shadow = s, !.chan = c] \in Runner
      /\ [runner[l] EXCEPT !.pc = pc, !.shadow = s, !.chan = c].task = runner[l].task
      /\ [runner[l] EXCEPT !.pc = pc, !.shadow = s, !.chan = c].pc = pc
      /\ [runner[l] EXCEPT !.pc = pc, !.shadow = s, !.chan = c].shadow = s
      /\ [runner[l] EXCEPT !.pc = pc, !.shadow = s, !.chan = c].chan = c
  BY <1>2 DEF Runner
<1>. QED  BY <1>1, <1>3, <1>4

-----------------------------------------------------------------------------
(* Type correctness *)

LEMMA InitTypeOK == Init => TypeOK
<1>1. SUFFICES ASSUME Init PROVE TypeOK
  OBVIOUS
<1>2. /\ DOMAIN heap = {} /\ heap \in [{} -> Task]
      /\ DOMAIN runner = {} /\ runner \in [{} -> Runner]
  BY <1>1 DEF Init
<1>3. currentId \in 0 .. MaxId
  BY <1>1, BoundAssumption DEF Init
<1>. QED  BY <1>1, <1>2, <1>3 DEF Init, TypeOK

(* The steps of a goroutine that stays alive and writes nothing but its    *)
(* own state and the stop channels.                                        *)
LEMMA GotoTypeOK ==
  ASSUME TypeOK, NEW l \in DOMAIN runner,
         NEW pc \in {"starting", "loop", "running", "publish", "delay", "final",
                     "hung"},
         NEW s \in Dynamic, NEW c \in Channels, Goto(l, pc, s, c),
         stopSent' \subseteq stopSent,
         UNCHANGED <<currentId, tasks, heap, archive, killed>>
  PROVE  TypeOK'
BY GotoRunner DEF TypeOK

(* StartGoroutine adds one goroutine, for a task in the heap. *)
LEMMA StartRunner ==
  ASSUME TypeOK, NEW l \in FreshLaunches, NEW p \in Pointers, StartGoroutine(l, p)
  PROVE  /\ DOMAIN runner' = DOMAIN runner \union {l}
         /\ l \notin DOMAIN runner
         /\ l \in Launches
         /\ runner' \in [DOMAIN runner' -> Runner]
         /\ runner'[l].pc = "starting"
         /\ runner'[l].task = p
         /\ runner'[l].shadow = NewDynamic
         /\ \A k \in DOMAIN runner : runner'[k] = runner[k]
         /\ stopSent' \subseteq stopSent
<1>. DEFINE start == [pc |-> "starting", task |-> p, shadow |-> NewDynamic,
                      chan |-> NoLaunch]
<1>1. start \in Runner
  BY NewDynamicType DEF Runner, Channels
<1>2. /\ start.pc = "starting" /\ start.task = p /\ start.shadow = NewDynamic
  OBVIOUS
<1>3. /\ runner \in [DOMAIN runner -> Runner]
      /\ DOMAIN runner \subseteq Launches
  BY DEF TypeOK
<1>4. l \notin DOMAIN runner /\ l \in Launches
  BY DEF FreshLaunches
<1>5. runner' = With(runner, l, start)
  BY DEF StartGoroutine
<1>. HIDE DEF start
<1>6. /\ DOMAIN runner' = DOMAIN runner \union {l}
      /\ runner' \in [DOMAIN runner \union {l} -> Runner]
      /\ runner'[l] = start
      /\ \A k \in DOMAIN runner : k # l => runner'[k] = runner[k]
  BY <1>1, <1>3, <1>5 DEF With
<1>. QED  BY <1>2, <1>4, <1>6 DEF StartGoroutine

(* A new task in the list, with its goroutine. *)
LEMMA ScheduleTypeOK ==
  ASSUME TypeOK, NEW p \in Pointers \ DOMAIN heap, NEW l \in FreshLaunches,
         NEW t \in Task, heap' = With(heap, p, t), tasks' = tasks \union {p},
         StartGoroutine(l, p), currentId' \in 0 .. MaxId,
         archive' \subseteq archive, UNCHANGED killed
  PROVE  TypeOK'
<1>1. /\ DOMAIN heap' = DOMAIN heap \union {p}
      /\ heap' \in [DOMAIN heap' -> Task]
  BY DEF TypeOK, With
<1>2. /\ DOMAIN runner' \subseteq Launches
      /\ runner' \in [DOMAIN runner' -> Runner]
      /\ stopSent' \subseteq stopSent
      /\ \A k \in DOMAIN runner' : runner'[k].task \in DOMAIN heap \union {p}
  <2>1. /\ \A k \in DOMAIN runner : runner[k].task \in DOMAIN heap
        /\ DOMAIN runner \subseteq Launches
    BY DEF TypeOK
  <2>2. /\ DOMAIN runner' = DOMAIN runner \union {l} /\ l \in Launches
        /\ runner' \in [DOMAIN runner' -> Runner]
        /\ stopSent' \subseteq stopSent
        /\ runner'[l].task = p
        /\ \A k \in DOMAIN runner : runner'[k] = runner[k]
    BY StartRunner
  <2>. QED  BY <2>1, <2>2
<1>3. DOMAIN heap' \subseteq Pointers /\ tasks' \subseteq DOMAIN heap'
  BY <1>1 DEF TypeOK
<1>. QED  BY <1>1, <1>2, <1>3 DEF TypeOK

(* The heap after a collection still holds what is referenced. *)
LEMMA CollectTypeOK ==
  ASSUME TypeOK, NEW h, h \in [DOMAIN heap -> Task], heap' = Collect(h, tasks', runner'),
         tasks' \subseteq tasks, DOMAIN runner' \subseteq DOMAIN runner,
         runner' \in [DOMAIN runner' -> Runner],
         \A k \in DOMAIN runner' : runner'[k] = runner[k],
         archive' \subseteq Archived, UNCHANGED <<currentId, stopSent, killed>>
  PROVE  TypeOK'
<1>1. DOMAIN h = DOMAIN heap
  OBVIOUS
<1>2. /\ DOMAIN heap' \subseteq DOMAIN heap
      /\ heap' \in [DOMAIN heap' -> Task]
      /\ \A p \in DOMAIN heap :
           p \in tasks' \/ (\E l \in DOMAIN runner' : runner'[l].task = p)
             => p \in DOMAIN heap'
  BY <1>1, CollectFunction
<1>. QED  BY <1>2 DEF TypeOK

LEMMA RecordType ==
  ASSUME TypeOK, NEW p \in DOMAIN heap
  PROVE  /\ Record(p) \in Archived
         /\ Record(p).id = heap[p].id
         /\ Record(p).req = heap[p].req
         /\ Record(p).dyn = heap[p].dyn
<1>1. heap[p] \in Task
  BY DEF TypeOK
<1>. QED  BY <1>1 DEF Record, Archived, Task

(* What is left of a file has lines that were there, or written by Trim.   *)
LEMMA FileShrinks ==
  ASSUME NEW a \in archive, archive' \in FileWithout(a)
  PROVE  archive' \subseteq archive
BY DEF FileWithout

LEMMA FileGrows ==
  ASSUME NEW written \in SUBSET TasksToDeactivate, archive' \in FileWith(written)
  PROVE  archive' \subseteq archive \union {Record(p) : p \in TasksToDeactivate}
BY DEF FileWith

LEMMA CommandTypeOK == TypeOK /\ Command => TypeOK'
<1>. SUFFICES ASSUME TypeOK, Command PROVE TypeOK'
  OBVIOUS
<1>. USE DEF Channels
<1>1. ASSUME NEW r \in Requests, RunAccepted(r) PROVE TypeOK'
  <2>1. PICK p \in Pointers \ DOMAIN heap, l \in FreshLaunches :
          /\ heap' = With(heap, p, Initialised(currentId, r, NewDynamic, l))
          /\ tasks' = tasks \union {p}
          /\ StartGoroutine(l, p)
    BY <1>1 DEF RunAccepted
  <2>2. currentId \in 0 .. MaxId - 1 /\ currentId' \in 0 .. MaxId
    BY <1>1, BoundAssumption DEF RunAccepted, TypeOK
  <2>3. l \in Channels
    BY DEF FreshLaunches
  <2>4. Initialised(currentId, r, NewDynamic, l) \in Task
    BY <2>2, <2>3, NewDynamicType, InitialisedType
  <2>. QED  BY <1>1, <2>1, <2>2, <2>4, ScheduleTypeOK DEF RunAccepted
<1>2. ASSUME NEW r \in Requests, RunRejected(r) PROVE TypeOK'
  BY <1>2, BoundAssumption DEF RunRejected, TypeOK
<1>3. ASSUME NEW p \in tasks, ResumeFromMemory(p) PROVE TypeOK'
  <2>1. PICK l \in FreshLaunches :
          /\ heap' = [heap EXCEPT ![p] = Initialised(heap[p].id, heap[p].req, heap[p].dyn, l)]
          /\ StartGoroutine(l, p)
    BY <1>3 DEF ResumeFromMemory
  <2>2. p \in DOMAIN heap /\ p \in Pointers /\ heap[p] \in Task
    BY DEF TypeOK
  <2>3. Initialised(heap[p].id, heap[p].req, heap[p].dyn, l) \in Task
    BY <2>2, InitialisedType DEF Task, FreshLaunches
  <2>4. DOMAIN heap' = DOMAIN heap /\ heap' \in [DOMAIN heap -> Task]
    BY <2>1, <2>3 DEF TypeOK
  <2>5. /\ DOMAIN runner' \subseteq Launches
        /\ runner' \in [DOMAIN runner' -> Runner]
        /\ stopSent' \subseteq stopSent
        /\ \A k \in DOMAIN runner' : runner'[k].task \in DOMAIN heap
    <3>1. /\ \A k \in DOMAIN runner : runner[k].task \in DOMAIN heap
          /\ DOMAIN runner \subseteq Launches
      BY DEF TypeOK
    <3>2. /\ DOMAIN runner' = DOMAIN runner \union {l} /\ l \in Launches
          /\ runner' \in [DOMAIN runner' -> Runner]
          /\ stopSent' \subseteq stopSent
          /\ runner'[l].task = p
          /\ \A k \in DOMAIN runner : runner'[k] = runner[k]
      BY <2>1, <2>2, StartRunner
    <3>. QED  BY <2>2, <3>1, <3>2
  <2>. QED  BY <1>3, <2>4, <2>5 DEF ResumeFromMemory, TypeOK
<1>4. ASSUME NEW p \in tasks, ResumeFromMemoryRejected(p) PROVE TypeOK'
  <2>. DEFINE h == [heap EXCEPT ![p] = Initialised(heap[p].id, heap[p].req, heap[p].dyn, NoLaunch)]
  <2>1. p \in DOMAIN heap /\ heap[p] \in Task
    BY DEF TypeOK
  <2>2. Initialised(heap[p].id, heap[p].req, heap[p].dyn, NoLaunch) \in Task
    BY <2>1, InitialisedType DEF Task
  <2>3. h \in [DOMAIN heap -> Task]
    BY <2>2 DEF TypeOK
  <2>4. heap' = Collect(h, tasks', runner')
    BY <1>4 DEF ResumeFromMemoryRejected
  <2>. HIDE DEF h
  <2>. QED  BY <1>4, <2>3, <2>4, CollectTypeOK DEF ResumeFromMemoryRejected, TypeOK
<1>5. ASSUME NEW p \in tasks, Stop(p) PROVE TypeOK'
  BY <1>5 DEF Stop, TypeOK, Task
<1>6. ASSUME NEW a \in archive, ResumeFromFile(a) PROVE TypeOK'
  <2>1. PICK p \in Pointers \ DOMAIN heap, l \in FreshLaunches :
          /\ heap' = With(heap, p, Initialised(a.id, a.req, a.dyn, l))
          /\ tasks' = tasks \union {p}
          /\ StartGoroutine(l, p)
    BY <1>6 DEF ResumeFromFile
  <2>2. a \in Archived
    BY DEF TypeOK
  <2>3. Initialised(a.id, a.req, a.dyn, l) \in Task
    BY <2>2, InitialisedType DEF Archived, FreshLaunches
  <2>4. archive' \subseteq archive /\ currentId' \in 0 .. MaxId
    BY <1>6, FileShrinks DEF ResumeFromFile, TypeOK
  <2>. QED  BY <1>6, <2>1, <2>3, <2>4, ScheduleTypeOK DEF ResumeFromFile
<1>7. ASSUME NEW a \in archive, ResumeFromFileRejected(a) \/ ResumeFromFileFails(a)
      PROVE  TypeOK'
  BY <1>7, FileShrinks DEF ResumeFromFileRejected, ResumeFromFileFails, TypeOK
<1>8. ASSUME NEW d, StopTasksByDisplay(d) PROVE TypeOK'
  BY <1>8 DEF StopTasksByDisplay, TypeOK, Task
<1>9. ASSUME Refresh PROVE TypeOK'
  <2>1. PICK woken \in SUBSET Refreshable :
          runner' = [l \in DOMAIN runner |->
                       IF l \in woken
                       THEN [runner[l] EXCEPT !.pc = "loop", !.chan = NoLaunch]
                       ELSE runner[l]]
    BY <1>9 DEF Refresh
  <2>2. \A l \in DOMAIN runner :
          /\ runner[l] \in Runner
          /\ [runner[l] EXCEPT !.pc = "loop", !.chan = NoLaunch] \in Runner
          /\ [runner[l] EXCEPT !.pc = "loop", !.chan = NoLaunch].task = runner[l].task
    BY DEF TypeOK, Runner
  <2>3. /\ DOMAIN runner' = DOMAIN runner
        /\ runner' \in [DOMAIN runner -> Runner]
        /\ \A l \in DOMAIN runner : runner'[l].task = runner[l].task
    BY <2>1, <2>2
  <2>. QED  BY <1>9, <2>3 DEF Refresh, TypeOK
<1>10. ASSUME Trim PROVE TypeOK'
  <2>1. PICK written \in SUBSET TasksToDeactivate :
          /\ archive' \in FileWith(written)
          /\ tasks' = tasks \ written
          /\ heap' = Collect(heap, tasks', runner)
          /\ UNCHANGED <<currentId, runner, stopSent, killed>>
    BY <1>10 DEF Trim
  <2>2. archive' \subseteq Archived
    BY <2>1, RecordType, FileGrows DEF TypeOK, TasksToDeactivate
  <2>3. tasks' \subseteq tasks
    BY <2>1
  <2>. QED  BY <2>1, <2>2, <2>3, CollectTypeOK DEF TypeOK
<1>11. ASSUME Kill PROVE TypeOK'
  BY <1>11 DEF Kill, TypeOK
<1>. QED  BY <1>1, <1>2, <1>3, <1>4, <1>5, <1>6, <1>7, <1>8, <1>9, <1>10, <1>11 DEF Command

LEMMA ExecuteTaskTypeOK ==
  ASSUME TypeOK, NEW l \in DOMAIN runner, ExecuteTask(l)
  PROVE  TypeOK'
<1>. DEFINE p == runner[l].task
<1>1. /\ runner[l] \in Runner
      /\ p \in DOMAIN heap
      /\ heap[p] \in Task
  BY DEF TypeOK
<1>2. /\ runner[l].shadow \in Dynamic
      /\ runner[l].chan \in Channels
      /\ heap[p].dyn \in Dynamic
      /\ heap[p].chan \in Channels
      /\ LimitOf(l) \in Int
  BY <1>1, RequestAssumption DEF Runner, Task, LimitOf
<1>3. /\ Deactivated(runner[l].shadow) \in Dynamic
      /\ NoLaunch \in Channels
  BY <1>2, DeactivatedType DEF Channels
<1>4. \A success \in BOOLEAN :
        /\ Counted(runner[l].shadow, success, LimitOf(l)) \in Dynamic
        /\ Counted(Deactivated(runner[l].shadow), success, LimitOf(l)) \in Dynamic
  BY <1>2, <1>3, CountedType
<1>5. \A h \in [DOMAIN heap -> Task] :
        /\ runner' = Without(runner, l)
        /\ heap' = Collect(h, tasks, runner')
        /\ UNCHANGED <<currentId, tasks, archive, stopSent, killed>>
        => TypeOK'
  <2>1. SUFFICES ASSUME NEW h \in [DOMAIN heap -> Task],
                        runner' = Without(runner, l),
                        heap' = Collect(h, tasks, runner'),
                        UNCHANGED <<currentId, tasks, archive, stopSent, killed>>
                 PROVE  TypeOK'
    OBVIOUS
  <2>2. /\ DOMAIN runner' \subseteq DOMAIN runner
        /\ runner' \in [DOMAIN runner' -> Runner]
        /\ \A k \in DOMAIN runner' : runner'[k] = runner[k]
    BY <2>1 DEF Without, TypeOK
  <2>. QED  BY <2>1, <2>2, CollectTypeOK DEF TypeOK
<1>. HIDE DEF p
<1>6. CASE LoggerCreationFails(l)
  BY <1>5, <1>6 DEF LoggerCreationFails, TypeOK
<1>7. CASE CopyDynamicState(l)
  <2>1. \E pc \in {"final", "loop"} : Goto(l, pc, heap[p].dyn, NoLaunch)
    BY <1>7 DEF CopyDynamicState, p
  <2>. QED  BY <1>2, <1>3, <1>7, <2>1, GotoTypeOK DEF CopyDynamicState
<1>8. CASE StartCommand(l)
  BY <1>2, <1>8, GotoTypeOK DEF StartCommand, p
<1>9. CASE StartFails(l)
  BY <1>3, <1>9, GotoTypeOK DEF StartFails
<1>10. CASE CommandEnds(l)
  BY <1>3, <1>4, <1>10, GotoTypeOK DEF CommandEnds
<1>11. CASE StopReceived(l)
  BY <1>3, <1>4, <1>11, GotoTypeOK DEF StopReceived
<1>12. CASE ContextDone(l)
  BY <1>3, <1>4, <1>12, GotoTypeOK DEF ContextDone
<1>13. CASE Publish(l)
  <2>1. /\ DOMAIN heap' = DOMAIN heap
        /\ heap' \in [DOMAIN heap -> Task]
    <3>1. [heap[p] EXCEPT !.dyn = runner[l].shadow] \in Task
      BY <1>1, <1>2 DEF Task
    <3>2. heap' = [heap EXCEPT ![p] = [heap[p] EXCEPT !.dyn = runner[l].shadow]]
      BY <1>13 DEF Publish, p
    <3>. QED  BY <3>1, <3>2 DEF TypeOK
  <2>2. \E pc \in {"final", "delay"}, c \in Channels : Goto(l, pc, runner[l].shadow, c)
    BY <1>2, <1>3, <1>13 DEF Publish, p
  <2>3. /\ DOMAIN runner' = DOMAIN runner
        /\ runner' \in [DOMAIN runner -> Runner]
        /\ \A k \in DOMAIN runner : runner'[k].task = runner[k].task
    BY <1>2, <2>2, GotoRunner
  <2>. QED  BY <1>13, <2>1, <2>3 DEF Publish, TypeOK
<1>14. CASE DelayElapses(l)
  BY <1>2, <1>3, <1>14, GotoTypeOK DEF DelayElapses
<1>15. CASE StopDuringDelay(l)
  BY <1>3, <1>15, GotoTypeOK DEF StopDuringDelay
<1>16. CASE ContextDoneDuringDelay(l)
  BY <1>3, <1>16, GotoTypeOK DEF ContextDoneDuringDelay
<1>17. CASE FinalPublish(l)
  <2>1. [heap[p] EXCEPT !.dyn = runner[l].shadow] \in Task
    BY <1>1, <1>2 DEF Task
  <2>2. [heap EXCEPT ![p].dyn = runner[l].shadow] \in [DOMAIN heap -> Task]
    BY <2>1 DEF TypeOK
  <2>. QED  BY <1>5, <1>17, <2>2 DEF FinalPublish, p
<1>18. CASE LoggerDies(l)
  <2>1. stopSent' \subseteq stopSent
    BY <1>18 DEF LoggerDies
  <2>. QED  BY <1>2, <1>3, <1>18, <2>1, GotoTypeOK DEF LoggerDies
<1>. QED  BY <1>6, <1>7, <1>8, <1>9, <1>10, <1>11, <1>12, <1>13, <1>14, <1>15,
             <1>16, <1>17, <1>18 DEF ExecuteTask

LEMMA NextTypeOK == TypeOK /\ [Next]_vars => TypeOK'
<1>1. ASSUME TypeOK, UNCHANGED vars PROVE TypeOK'
  BY <1>1 DEF vars, TypeOK
<1>. QED  BY <1>1, CommandTypeOK, ExecuteTaskTypeOK DEF Next

(* Every variable keeps its type; in particular no goroutine ever holds a  *)
(* struct that was freed, and ids stay below the bound.                    *)
THEOREM TypeCorrect == Spec => []TypeOK
BY InitTypeOK, NextTypeOK, PTL DEF Spec

-----------------------------------------------------------------------------
(* Identifiers *)

(* A struct keeps its id and its request while it is in the heap. *)
Identity(p) == heap'[p].id = heap[p].id /\ heap'[p].req = heap[p].req

LEMMA ExceptIdentity ==
  ASSUME TypeOK, NEW p \in DOMAIN heap, NEW t \in Task,
         t.id = heap[p].id, t.req = heap[p].req, heap' = [heap EXCEPT ![p] = t]
  PROVE  DOMAIN heap' = DOMAIN heap /\ \A q \in DOMAIN heap : Identity(q)
BY DEF TypeOK, Identity

LEMMA CollectIdentity ==
  ASSUME TypeOK, NEW p \in DOMAIN heap, NEW t \in Task, NEW ts, NEW rs,
         t.id = heap[p].id, t.req = heap[p].req,
         heap' = Collect([heap EXCEPT ![p] = t], ts, rs)
  PROVE  DOMAIN heap' \subseteq DOMAIN heap /\ \A q \in DOMAIN heap' : Identity(q)
<1>. DEFINE h == [heap EXCEPT ![p] = t]
<1>1. /\ h \in [DOMAIN heap -> Task]
      /\ \A q \in DOMAIN heap : h[q].id = heap[q].id /\ h[q].req = heap[q].req
  BY DEF TypeOK
<1>. HIDE DEF h
<1>2. heap' = Collect(h, ts, rs)
  BY DEF h
<1>. QED  BY <1>1, <1>2 DEF Collect, Identity

LEMMA IdentityKept ==
  ASSUME TypeOK, [Next]_vars
  PROVE  \A p \in DOMAIN heap' : p \in DOMAIN heap => Identity(p)
<1>. USE DEF Identity
<1>1. ASSUME NEW p \in tasks, NEW l \in Channels,
             \/ heap' = [heap EXCEPT ![p] = Initialised(@.id, @.req, @.dyn, l)]
             \/ heap' = Collect([heap EXCEPT ![p] = Initialised(@.id, @.req, @.dyn, l)],
                               tasks', runner)
      PROVE  \A q \in DOMAIN heap' : q \in DOMAIN heap => Identity(q)
  <2>. DEFINE t == Initialised(heap[p].id, heap[p].req, heap[p].dyn, l)
  <2>1. p \in DOMAIN heap /\ heap[p] \in Task
    BY DEF TypeOK
  <2>2. t \in Task /\ t.id = heap[p].id /\ t.req = heap[p].req
    BY <2>1, InitialisedType DEF Task
  <2>3. heap' = [heap EXCEPT ![p] = t] \/ heap' = Collect([heap EXCEPT ![p] = t], tasks', runner)
    BY <1>1
  <2>. HIDE DEF t
  <2>. QED  BY <2>1, <2>2, <2>3, ExceptIdentity, CollectIdentity
<1>2. ASSUME NEW l \in DOMAIN runner, Publish(l) \/ FinalPublish(l)
      PROVE  \A q \in DOMAIN heap' : q \in DOMAIN heap => Identity(q)
  <2>. DEFINE p == runner[l].task
              t == [heap[p] EXCEPT !.dyn = runner[l].shadow]
  <2>1. p \in DOMAIN heap /\ heap[p] \in Task /\ runner[l] \in Runner
    BY DEF TypeOK
  <2>2. t \in Task /\ t.id = heap[p].id /\ t.req = heap[p].req
    BY <2>1 DEF Task, Runner
  <2>3. heap' = [heap EXCEPT ![p] = t] \/ heap' = Collect([heap EXCEPT ![p] = t], tasks, runner')
    BY <1>2 DEF Publish, FinalPublish
  <2>. HIDE DEF p, t
  <2>. QED  BY <2>1, <2>2, <2>3, ExceptIdentity, CollectIdentity
<1>3. CASE UNCHANGED heap
  BY <1>3
<1>4. CASE \E ts, rs : heap' = Collect(heap, ts, rs)
  BY <1>4 DEF Collect, TypeOK
<1>5. CASE \E t : \E p \in Pointers \ DOMAIN heap : heap' = With(heap, p, t)
  BY <1>5 DEF With
<1>6. ASSUME Command PROVE \A p \in DOMAIN heap' : p \in DOMAIN heap => Identity(p)
  <2>1. CASE \E r \in Requests : RunAccepted(r)
    BY <1>5, <2>1 DEF RunAccepted
  <2>2. CASE \E a \in archive : ResumeFromFile(a)
    BY <1>5, <2>2 DEF ResumeFromFile
  <2>3. CASE \E p \in tasks : ResumeFromMemory(p)
    BY <1>1, <2>3 DEF ResumeFromMemory, FreshLaunches, Channels
  <2>4. CASE \E p \in tasks : ResumeFromMemoryRejected(p)
    BY <1>1, <2>4 DEF ResumeFromMemoryRejected, Channels
  <2>5. CASE Trim
    BY <1>4, <2>5 DEF Trim
  <2>6. CASE UNCHANGED heap
    BY <1>3, <2>6
  <2>. QED  BY <1>6, <2>1, <2>2, <2>3, <2>4, <2>5, <2>6
            DEF Command, RunRejected, ResumeFromFileRejected, ResumeFromFileFails, Stop,
                StopTasksByDisplay, Refresh, Kill
<1>7. ASSUME NEW l \in DOMAIN runner, ExecuteTask(l)
      PROVE  \A p \in DOMAIN heap' : p \in DOMAIN heap => Identity(p)
  <2>1. CASE Publish(l) \/ FinalPublish(l)
    BY <1>2, <2>1
  <2>2. CASE LoggerCreationFails(l)
    BY <1>4, <2>2 DEF LoggerCreationFails
  <2>3. CASE UNCHANGED heap
    BY <1>3, <2>3
  <2>. QED  BY <1>7, <2>1, <2>2, <2>3
            DEF ExecuteTask, CopyDynamicState, StartCommand, StartFails, CommandEnds,
                StopReceived, ContextDone, DelayElapses, StopDuringDelay,
                ContextDoneDuringDelay, LoggerDies
<1>. QED  BY <1>3, <1>6, <1>7 DEF Next, vars

(* A step that adds no task and no line keeps ids unique. *)
LEMMA ShrinkUniqueIds ==
  ASSUME TypeOK, TypeOK', UniqueIds, [Next]_vars, tasks' \subseteq tasks,
         archive' \subseteq archive, currentId' >= currentId
  PROVE  UniqueIds'
<1>1. \A p \in tasks' : p \in tasks /\ heap'[p].id = heap[p].id
  BY IdentityKept DEF TypeOK, Identity
<1>2. \A p \in tasks' : heap'[p].id < currentId'
  <2>1. \A p \in tasks : heap[p].id \in Int /\ heap[p].id < currentId
    BY DEF UniqueIds, TypeOK, Task
  <2>. QED  BY <1>1, <2>1 DEF TypeOK
<1>3. \A a \in archive' : a.id < currentId'
  <2>1. \A a \in archive : a.id \in Int /\ a.id < currentId
    BY DEF UniqueIds, TypeOK, Archived
  <2>. QED  BY <2>1 DEF TypeOK
<1>. QED  BY <1>1, <1>2, <1>3 DEF UniqueIds

(* A step that moves one new task into the list keeps ids unique if the id *)
(* is neither in the list nor left in the file.                            *)
LEMMA ScheduleUniqueIds ==
  ASSUME TypeOK, TypeOK', UniqueIds, NEW p \in Pointers \ DOMAIN heap,
         NEW t \in Task, heap' = With(heap, p, t), tasks' = tasks \union {p},
         archive' \subseteq archive, currentId' >= currentId,
         t.id < currentId', \A q \in tasks : heap[q].id # t.id,
         \A a \in archive' : a.id # t.id
  PROVE  UniqueIds'
<1>1. /\ heap'[p] = t
      /\ \A q \in tasks : q # p /\ heap'[q] = heap[q]
  BY DEF With, TypeOK
<1>2. \A q \in tasks : heap[q].id \in Int /\ heap[q].id < currentId'
  BY DEF UniqueIds, TypeOK, Task
<1>3. \A a \in archive' : a.id < currentId'
  <2>1. \A a \in archive : a.id \in Int /\ a.id < currentId
    BY DEF UniqueIds, TypeOK, Archived
  <2>. QED  BY <2>1 DEF TypeOK
<1>. QED  BY <1>1, <1>2, <1>3 DEF UniqueIds

LEMMA NextUniqueIds ==
  ASSUME TypeOK, TypeOK', UniqueIds, ~FileFaults, [Next]_vars
  PROVE  UniqueIds'
<1>1. ASSUME NEW r \in Requests, RunAccepted(r) PROVE UniqueIds'
  <2>1. PICK p \in Pointers \ DOMAIN heap, l \in FreshLaunches :
          /\ heap' = With(heap, p, Initialised(currentId, r, NewDynamic, l))
          /\ tasks' = tasks \union {p}
    BY <1>1 DEF RunAccepted
  <2>. DEFINE t == Initialised(currentId, r, NewDynamic, l)
  <2>2. currentId \in 0 .. MaxId - 1 /\ currentId' = currentId + 1
    BY <1>1, BoundAssumption DEF RunAccepted, TypeOK
  <2>3. t \in Task /\ t.id = currentId
    BY <2>2, NewDynamicType, InitialisedType DEF FreshLaunches, Channels
  <2>4. /\ \A q \in tasks : heap[q].id # currentId
        /\ \A a \in archive : a.id # currentId
    BY <2>2 DEF UniqueIds
  <2>5. /\ archive' = archive
        /\ t.id < currentId'
        /\ currentId' >= currentId
    BY <1>1, <2>2, <2>3 DEF RunAccepted
  <2>. HIDE DEF t
  <2>. QED  BY <2>1, <2>3, <2>4, <2>5, ScheduleUniqueIds DEF t
<1>2. ASSUME NEW a \in archive, ResumeFromFile(a) PROVE UniqueIds'
  <2>1. PICK p \in Pointers \ DOMAIN heap, l \in FreshLaunches :
          /\ heap' = With(heap, p, Initialised(a.id, a.req, a.dyn, l))
          /\ tasks' = tasks \union {p}
    BY <1>2 DEF ResumeFromFile
  <2>. DEFINE t == Initialised(a.id, a.req, a.dyn, l)
  <2>2. t \in Task /\ t.id = a.id
    BY InitialisedType DEF TypeOK, Archived, FreshLaunches, Channels
  <2>3. /\ archive' = archive \ {a}
        /\ currentId' = currentId
        /\ \A q \in tasks : heap[q].id # t.id
    BY <1>2, <2>2 DEF ResumeFromFile, FileWithout, NotInMemory
  <2>4. \A b \in archive' : b.id # t.id
    BY <2>2, <2>3 DEF UniqueIds
  <2>5. t.id < currentId' /\ currentId' >= currentId
    BY <2>2, <2>3 DEF UniqueIds, TypeOK
  <2>. HIDE DEF t
  <2>. QED  BY <2>1, <2>2, <2>3, <2>4, <2>5, ScheduleUniqueIds DEF t
<1>3. ASSUME Trim PROVE UniqueIds'
  <2>1. PICK written \in SUBSET TasksToDeactivate :
          /\ archive' = archive \union {Record(p) : p \in written}
          /\ tasks' = tasks \ written
          /\ currentId' = currentId
    BY <1>3 DEF Trim, FileWith
  <2>2. \A p \in tasks' : p \in tasks /\ p \notin written /\ heap'[p].id = heap[p].id
    BY <2>1, <1>3, IdentityKept DEF TypeOK, Identity, Next, Command
  <2>3. \A p \in tasks : Record(p).id = heap[p].id
    BY RecordType DEF TypeOK
  <2>4. \A p \in written : p \in tasks
    BY DEF TasksToDeactivate
  <2>5. \A a \in archive' : a \in archive \/ \E p \in written : a = Record(p) /\ p \in tasks
    BY <2>1, <2>4
  <2>6. \A a, b \in archive' : a.id = b.id => a = b
    BY <2>3, <2>5 DEF UniqueIds
  <2>7. \A p \in tasks', a \in archive' : heap'[p].id # a.id
    BY <2>2, <2>3, <2>5 DEF UniqueIds
  <2>. QED  BY <2>1, <2>2, <2>3, <2>5, <2>6, <2>7 DEF UniqueIds
<1>4. CASE /\ tasks' \subseteq tasks
           /\ archive' \subseteq archive
           /\ currentId' = currentId \/ currentId' = currentId + 1
  BY <1>4, ShrinkUniqueIds DEF TypeOK
<1>5. ASSUME Command PROVE UniqueIds'
  BY <1>1, <1>2, <1>3, <1>4, <1>5
  DEF Command, RunRejected, ResumeFromMemory, ResumeFromMemoryRejected,
      ResumeFromFileRejected, ResumeFromFileFails, FileWithout, Stop, StopTasksByDisplay,
      Refresh, Kill
<1>6. ASSUME NEW l \in DOMAIN runner, ExecuteTask(l) PROVE UniqueIds'
  BY <1>4, <1>6
  DEF ExecuteTask, LoggerCreationFails, CopyDynamicState, StartCommand, StartFails,
      CommandEnds, StopReceived, ContextDone, Publish, DelayElapses,
      StopDuringDelay, ContextDoneDuringDelay, FinalPublish, LoggerDies
<1>7. ASSUME UNCHANGED vars PROVE UniqueIds'
  BY <1>4, <1>7 DEF vars
<1>. QED  BY <1>5, <1>6, <1>7 DEF Next

(* As long as no file operation fails, an id always names one task, in     *)
(* memory or in the file of trimmed tasks, whatever order runs, trims,     *)
(* resumes and publications come in (scheduler.go:103).                    *)
THEOREM IdsStayUnique ==
  ASSUME ~FileFaults
  PROVE  Spec => []UniqueIds
<1>1. Init => UniqueIds
  BY DEF Init, UniqueIds
<1>2. TypeOK /\ TypeOK' /\ UniqueIds /\ [Next]_vars => UniqueIds'
  BY NextUniqueIds
<1>. QED  BY <1>1, <1>2, TypeCorrect, PTL DEF Spec

(* A file that holds anything has only ids that were handed out. *)
IssuedIds == OneTaskPerId /\ \A a \in archive : a.id < currentId

LEMMA ScheduleIssuedIds ==
  ASSUME TypeOK, TypeOK', IssuedIds, NEW p \in Pointers \ DOMAIN heap,
         NEW t \in Task, heap' = With(heap, p, t), tasks' = tasks \union {p},
         archive' \subseteq archive, currentId' >= currentId,
         t.id < currentId', \A q \in tasks : heap[q].id # t.id
  PROVE  IssuedIds'
<1>1. /\ heap'[p] = t
      /\ \A q \in tasks : q # p /\ heap'[q] = heap[q]
  BY DEF With, TypeOK
<1>2. \A q \in tasks : heap[q].id \in Int /\ heap[q].id < currentId'
  BY DEF IssuedIds, OneTaskPerId, TypeOK, Task
<1>3. \A a \in archive' : a.id < currentId'
  <2>1. \A a \in archive : a.id \in Int /\ a.id < currentId
    BY DEF IssuedIds, TypeOK, Archived
  <2>. QED  BY <2>1 DEF TypeOK
<1>. QED  BY <1>1, <1>2, <1>3 DEF IssuedIds, OneTaskPerId

LEMMA NextIssuedIds ==
  ASSUME TypeOK, TypeOK', IssuedIds, [Next]_vars
  PROVE  IssuedIds'
<1>1. ASSUME NEW r \in Requests, RunAccepted(r) PROVE IssuedIds'
  <2>1. PICK p \in Pointers \ DOMAIN heap, l \in FreshLaunches :
          /\ heap' = With(heap, p, Initialised(currentId, r, NewDynamic, l))
          /\ tasks' = tasks \union {p}
    BY <1>1 DEF RunAccepted
  <2>. DEFINE t == Initialised(currentId, r, NewDynamic, l)
  <2>2. currentId \in 0 .. MaxId - 1 /\ currentId' = currentId + 1
    BY <1>1, BoundAssumption DEF RunAccepted, TypeOK
  <2>3. t \in Task /\ t.id = currentId
    BY <2>2, NewDynamicType, InitialisedType DEF FreshLaunches, Channels
  <2>4. \A q \in tasks : heap[q].id # currentId
    BY <2>2 DEF IssuedIds, OneTaskPerId
  <2>5. /\ archive' = archive
        /\ t.id < currentId'
        /\ currentId' >= currentId
    BY <1>1, <2>2, <2>3 DEF RunAccepted
  <2>. HIDE DEF t
  <2>. QED  BY <2>1, <2>3, <2>4, <2>5, ScheduleIssuedIds DEF t
<1>2. ASSUME NEW a \in archive, ResumeFromFile(a) PROVE IssuedIds'
  <2>1. PICK p \in Pointers \ DOMAIN heap, l \in FreshLaunches :
          /\ heap' = With(heap, p, Initialised(a.id, a.req, a.dyn, l))
          /\ tasks' = tasks \union {p}
    BY <1>2 DEF ResumeFromFile
  <2>. DEFINE t == Initialised(a.id, a.req, a.dyn, l)
  <2>2. t \in Task /\ t.id = a.id
    BY InitialisedType DEF TypeOK, Archived, FreshLaunches, Channels
  <2>3. /\ archive' \subseteq archive
        /\ currentId' = currentId
        /\ \A q \in tasks : heap[q].id # t.id
    BY <1>2, <2>2, FileShrinks DEF ResumeFromFile, NotInMemory
  <2>4. t.id < currentId' /\ currentId' >= currentId
    BY <2>2, <2>3 DEF IssuedIds, TypeOK
  <2>. HIDE DEF t
  <2>. QED  BY <2>1, <2>2, <2>3, <2>4, ScheduleIssuedIds DEF t
<1>3. ASSUME tasks' \subseteq tasks, currentId' >= currentId,
             \A b \in archive' : b.id < currentId
      PROVE  IssuedIds'
  <2>1. \A p \in tasks' : p \in tasks /\ heap'[p].id = heap[p].id
    BY <1>3, IdentityKept DEF TypeOK, Identity
  <2>2. \A p \in tasks : heap[p].id \in Int /\ heap[p].id < currentId
    BY DEF IssuedIds, OneTaskPerId, TypeOK, Task
  <2>3. \A b \in archive' : b.id \in Int
    BY DEF TypeOK, Archived
  <2>4. currentId \in Int /\ currentId' \in Int
    BY DEF TypeOK
  <2>. QED  BY <1>3, <2>1, <2>2, <2>3, <2>4 DEF IssuedIds, OneTaskPerId
<1>4. CASE /\ tasks' \subseteq tasks
           /\ archive' \subseteq archive
           /\ currentId' = currentId \/ currentId' = currentId + 1
  BY <1>3, <1>4 DEF IssuedIds, TypeOK
<1>5. ASSUME Trim PROVE IssuedIds'
  <2>1. PICK written \in SUBSET TasksToDeactivate :
          /\ archive' \in FileWith(written)
          /\ tasks' = tasks \ written
          /\ currentId' = currentId
    BY <1>5 DEF Trim
  <2>2. archive' \subseteq archive \union {Record(p) : p \in TasksToDeactivate}
    BY <2>1, FileGrows
  <2>3. \A p \in TasksToDeactivate : Record(p).id < currentId
    BY RecordType DEF TypeOK, TasksToDeactivate, IssuedIds, OneTaskPerId
  <2>4. \A b \in archive' : b.id < currentId
    BY <2>2, <2>3 DEF IssuedIds
  <2>. QED  BY <1>3, <2>1, <2>4 DEF TypeOK
<1>6. ASSUME NEW a \in archive, ResumeFromFileRejected(a) \/ ResumeFromFileFails(a)
      PROVE  IssuedIds'
  BY <1>4, <1>6, FileShrinks DEF ResumeFromFileRejected, ResumeFromFileFails
<1>7. ASSUME Command PROVE IssuedIds'
  BY <1>1, <1>2, <1>4, <1>5, <1>6, <1>7
  DEF Command, RunRejected, ResumeFromMemory, ResumeFromMemoryRejected, Stop,
      StopTasksByDisplay, Refresh, Kill
<1>8. ASSUME NEW l \in DOMAIN runner, ExecuteTask(l) PROVE IssuedIds'
  BY <1>4, <1>8
  DEF ExecuteTask, LoggerCreationFails, CopyDynamicState, StartCommand, StartFails,
      CommandEnds, StopReceived, ContextDone, Publish, DelayElapses,
      StopDuringDelay, ContextDoneDuringDelay, FinalPublish, LoggerDies
<1>9. ASSUME UNCHANGED vars PROVE IssuedIds'
  BY <1>4, <1>9 DEF vars
<1>. QED  BY <1>7, <1>8, <1>9 DEF Next

(* However the file fails, no two tasks in memory have the same id and     *)
(* none has one that a run will get: the file may hold a line of a task in *)
(* memory, but memory is searched first (scheduler.go:112).                *)
THEOREM IdsInMemoryAreUnique == Spec => []OneTaskPerId
<1>1. Init => IssuedIds
  BY DEF Init, IssuedIds, OneTaskPerId
<1>2. TypeOK /\ TypeOK' /\ IssuedIds /\ [Next]_vars => IssuedIds'
  BY NextIssuedIds
<1>3. IssuedIds => OneTaskPerId
  BY DEF IssuedIds
<1>. QED  BY <1>1, <1>2, <1>3, TypeCorrect, PTL DEF Spec

-----------------------------------------------------------------------------
(* The failure limit *)

WithinLimit(d, limit) == d.deactivated \/ limit <= 0 \/ d.subsequent < limit

HeapLimits ==
  \A p \in DOMAIN heap :
    WithinLimit(heap[p].dyn, MaxSubsequentFailures[heap[p].req])

(* What the program counter of goroutine l says about its private copy. *)
RunnerLimits(l) ==
  /\ runner[l].pc \in {"loop", "running", "delay"} => ~runner[l].shadow.deactivated
  /\ At(l, "final") => runner[l].shadow.deactivated
  /\ WithinLimit(runner[l].shadow, LimitOf(l))
  /\ runner[l].pc \in {"publish", "delay"} =>
       runner[l].shadow.deactivated \/ LimitOf(l) # 0

(* LimitRespected speaks of listed tasks and of waiting goroutines only; a *)
(* goroutine publishes its copy without looking, and copies what was       *)
(* published, so every copy has to be within the limit.                    *)
LimitInv == HeapLimits /\ \A l \in DOMAIN runner : RunnerLimits(l)

LEMMA LimitInvImplies == TypeOK /\ LimitInv => LimitRespected
<1>. SUFFICES ASSUME TypeOK, LimitInv PROVE LimitRespected
  OBVIOUS
<1>1. ASSUME NEW l \in DOMAIN runner, At(l, "delay")
      PROVE  LimitOf(l) < 0 \/ runner[l].shadow.subsequent < LimitOf(l)
  <2>1. LimitOf(l) \in Int
    BY RequestAssumption DEF LimitOf, TypeOK, Task
  <2>. QED  BY <1>1, <2>1 DEF LimitInv, RunnerLimits, WithinLimit, At
<1>2. ASSUME NEW p \in tasks, Active(p)
      PROVE  \/ MaxSubsequentFailures[heap[p].req] <= 0
             \/ heap[p].dyn.subsequent < MaxSubsequentFailures[heap[p].req]
  BY <1>2 DEF LimitInv, HeapLimits, WithinLimit, Active, TypeOK
<1>. QED  BY <1>1, <1>2 DEF LimitRespected

LEMMA CountedLimit ==
  ASSUME NEW s \in Dynamic, NEW success \in BOOLEAN, NEW limit \in Int
  PROVE  LET c == Counted(s, success, limit)
         IN  /\ WithinLimit(c, limit)
             /\ c.deactivated \/ limit # 0
<1>. DEFINE c == Counted(s, success, limit)
<1>1. c.subsequent \in Nat
  BY CountedType, BoundAssumption DEF Dynamic
<1>2. (limit >= 0 /\ c.subsequent >= limit) => c.deactivated
  BY DEF Counted
<1>. HIDE DEF c
<1>3. WithinLimit(c, limit) /\ (c.deactivated \/ limit # 0)
  BY <1>1, <1>2 DEF WithinLimit
<1>. QED  BY <1>3 DEF c

(* The limit of a goroutine does not change. *)
LEMMA LimitOfKept ==
  ASSUME TypeOK, TypeOK', [Next]_vars, NEW k \in DOMAIN runner,
         k \in DOMAIN runner', runner'[k].task = runner[k].task
  PROVE  LimitOf(k)' = LimitOf(k)
<1>1. runner[k].task \in DOMAIN heap /\ runner[k].task \in DOMAIN heap'
  BY DEF TypeOK
<1>. QED  BY <1>1, IdentityKept DEF LimitOf, Identity

(* A goroutine whose state a step leaves alone stays within its limit. *)
LEMMA RunnerLimitsKept ==
  ASSUME TypeOK, TypeOK', [Next]_vars, LimitInv, NEW k \in DOMAIN runner,
         k \in DOMAIN runner', runner'[k] = runner[k]
  PROVE  RunnerLimits(k)'
BY LimitOfKept DEF LimitInv, RunnerLimits, At

LEMMA NewRunnerLimits ==
  ASSUME TypeOK, TypeOK', NEW l \in DOMAIN runner', runner'[l].pc = "starting",
         runner'[l].shadow = NewDynamic
  PROVE  RunnerLimits(l)'
<1>1. LimitOf(l)' \in Int
  BY RequestAssumption DEF LimitOf, TypeOK, Task
<1>. QED  BY <1>1 DEF RunnerLimits, WithinLimit, NewDynamic, At

(* A struct that holds the old dynamic part or a fresh one is within the   *)
(* limit.                                                                  *)
LEMMA FreshLimit ==
  ASSUME NEW t, t.req \in Requests, t.dyn.subsequent = 0
  PROVE  WithinLimit(t.dyn, MaxSubsequentFailures[t.req])
BY RequestAssumption DEF WithinLimit

LEMMA CommandLimitInv ==
  ASSUME TypeOK, TypeOK', LimitInv, Command
  PROVE  LimitInv'
<1>. USE DEF Channels
<1>0. [Next]_vars
  BY DEF Next
<1>1. ASSUME NEW p \in Pointers, NEW l \in FreshLaunches, StartGoroutine(l, p)
      PROVE  \A k \in DOMAIN runner' : RunnerLimits(k)'
  BY <1>0, <1>1, StartRunner, RunnerLimitsKept, NewRunnerLimits
<1>2. ASSUME UNCHANGED runner
      PROVE  \A k \in DOMAIN runner' : RunnerLimits(k)'
  BY <1>0, <1>2, RunnerLimitsKept
<1>3. ASSUME NEW p \in Pointers \ DOMAIN heap, NEW t \in Task, t.dyn.subsequent = 0,
             heap' = With(heap, p, t)
      PROVE  HeapLimits'
  BY <1>3, FreshLimit DEF LimitInv, HeapLimits, With, Task
<1>4. ASSUME NEW r \in Requests, RunAccepted(r) PROVE LimitInv'
  <2>1. PICK p \in Pointers \ DOMAIN heap, l \in FreshLaunches :
          /\ heap' = With(heap, p, Initialised(currentId, r, NewDynamic, l))
          /\ StartGoroutine(l, p)
    BY <1>4 DEF RunAccepted
  <2>2. currentId \in 0 .. MaxId - 1
    BY <1>4, BoundAssumption DEF RunAccepted, TypeOK
  <2>3. /\ Initialised(currentId, r, NewDynamic, l) \in Task
        /\ Initialised(currentId, r, NewDynamic, l).dyn.subsequent = 0
    BY <2>2, NewDynamicType, InitialisedType DEF FreshLaunches
  <2>. QED  BY <1>1, <1>3, <2>1, <2>3 DEF LimitInv
<1>5. ASSUME NEW a \in archive, ResumeFromFile(a) PROVE LimitInv'
  <2>1. PICK p \in Pointers \ DOMAIN heap, l \in FreshLaunches :
          /\ heap' = With(heap, p, Initialised(a.id, a.req, a.dyn, l))
          /\ StartGoroutine(l, p)
    BY <1>5 DEF ResumeFromFile
  <2>2. /\ Initialised(a.id, a.req, a.dyn, l) \in Task
        /\ Initialised(a.id, a.req, a.dyn, l).dyn.subsequent = 0
    BY InitialisedType DEF TypeOK, Archived, FreshLaunches
  <2>. QED  BY <1>1, <1>3, <2>1, <2>2 DEF LimitInv
<1>6. ASSUME NEW p \in tasks, NEW l \in Channels, NEW ts, NEW rs,
             \/ heap' = [heap EXCEPT ![p] = Initialised(@.id, @.req, @.dyn, l)]
             \/ heap' = Collect([heap EXCEPT ![p] = Initialised(@.id, @.req, @.dyn, l)], ts, rs)
      PROVE  HeapLimits'
  <2>. DEFINE t == Initialised(heap[p].id, heap[p].req, heap[p].dyn, l)
              h == [heap EXCEPT ![p] = t]
  <2>1. p \in DOMAIN heap /\ heap[p] \in Task
    BY DEF TypeOK
  <2>2. t.req \in Requests /\ t.dyn.subsequent = 0
    BY <2>1, InitialisedType DEF Task
  <2>3. DOMAIN h = DOMAIN heap /\ h[p] = t /\ \A q \in DOMAIN h : q # p => h[q] = heap[q]
    BY <2>1
  <2>4. heap' = h \/ heap' = Collect(h, ts, rs)
    BY <1>6
  <2>. HIDE DEF t, h
  <2>5. \A q \in DOMAIN h : WithinLimit(h[q].dyn, MaxSubsequentFailures[h[q].req])
    BY <2>2, <2>3, FreshLimit DEF LimitInv, HeapLimits
  <2>. QED  BY <2>4, <2>5 DEF HeapLimits, Collect
<1>7. ASSUME NEW p \in tasks, ResumeFromMemory(p) PROVE LimitInv'
  <2>1. p \in Pointers
    BY DEF TypeOK
  <2>. QED  BY <1>1, <1>6, <1>7, <2>1 DEF ResumeFromMemory, LimitInv, FreshLaunches
<1>8. ASSUME NEW p \in tasks, ResumeFromMemoryRejected(p) PROVE LimitInv'
  BY <1>2, <1>6, <1>8 DEF ResumeFromMemoryRejected, LimitInv
<1>9. ASSUME Refresh PROVE LimitInv'
  <2>1. PICK woken \in SUBSET Refreshable :
          runner' = [l \in DOMAIN runner |->
                       IF l \in woken
                       THEN [runner[l] EXCEPT !.pc = "loop", !.chan = NoLaunch]
                       ELSE runner[l]]
    BY <1>9 DEF Refresh
  <2>2. heap' = heap
    BY <1>9 DEF Refresh
  <2>3. ASSUME NEW k \in DOMAIN runner'
        PROVE  RunnerLimits(k)'
    <3>1. k \in DOMAIN runner /\ runner[k] \in Runner /\ RunnerLimits(k)
      BY <2>1 DEF TypeOK, LimitInv
    <3>2. CASE k \in woken
      <4>1. At(k, "delay")
        BY <3>2 DEF Refreshable, At
      <4>2. runner'[k] = [runner[k] EXCEPT !.pc = "loop", !.chan = NoLaunch]
        BY <2>1, <3>1, <3>2
      <4>3. /\ runner'[k].pc = "loop"
            /\ runner'[k].shadow = runner[k].shadow
            /\ runner'[k].task = runner[k].task
        BY <3>1, <4>2 DEF Runner
      <4>4. LimitOf(k)' = LimitOf(k)
        BY <2>2, <4>3 DEF LimitOf
      <4>. QED  BY <3>1, <4>1, <4>3, <4>4 DEF RunnerLimits, At
    <3>3. CASE k \notin woken
      BY <1>0, <2>1, <3>1, <3>3, RunnerLimitsKept
    <3>. QED  BY <3>2, <3>3
  <2>. QED  BY <2>2, <2>3 DEF LimitInv, HeapLimits
<1>10. ASSUME Trim PROVE LimitInv'
  BY <1>2, <1>10 DEF Trim, LimitInv, HeapLimits, Collect
<1>11. CASE UNCHANGED <<heap, runner>>
  BY <1>2, <1>11 DEF LimitInv, HeapLimits
<1>. QED  BY <1>4, <1>5, <1>7, <1>8, <1>9, <1>10, <1>11
          DEF Command, RunRejected, ResumeFromFileRejected, ResumeFromFileFails, Stop,
              StopTasksByDisplay, Kill

(* A goroutine that moves on without writing the heap. *)
LEMMA GotoLimitInv ==
  ASSUME TypeOK, TypeOK', LimitInv, [Next]_vars, NEW l \in DOMAIN runner,
         NEW pc \in {"loop", "running", "publish", "delay", "final", "hung"},
         NEW s \in Dynamic, NEW c \in Channels, Goto(l, pc, s, c), heap' = heap,
         pc \in {"loop", "running", "delay"} => ~s.deactivated,
         pc = "final" => s.deactivated,
         WithinLimit(s, LimitOf(l)),
         pc \in {"publish", "delay"} => s.deactivated \/ LimitOf(l) # 0
  PROVE  LimitInv'
<1>1. /\ DOMAIN runner' = DOMAIN runner
      /\ runner'[l].pc = pc
      /\ runner'[l].shadow = s
      /\ runner'[l].task = runner[l].task
      /\ \A k \in DOMAIN runner : k # l => runner'[k] = runner[k]
  BY GotoRunner
<1>2. LimitOf(l)' = LimitOf(l)
  BY <1>1 DEF LimitOf
<1>3. RunnerLimits(l)'
  BY <1>1, <1>2 DEF RunnerLimits, At
<1>4. \A k \in DOMAIN runner' : k # l => RunnerLimits(k)'
  BY <1>1, RunnerLimitsKept
<1>. QED  BY <1>3, <1>4 DEF LimitInv, HeapLimits

(* The two publications write a copy that is within the limit. *)
LEMMA PublishedLimits ==
  ASSUME TypeOK, LimitInv, NEW l \in DOMAIN runner, NEW ts, NEW rs,
         LET h == [heap EXCEPT ![runner[l].task].dyn = runner[l].shadow]
         IN  heap' = h \/ heap' = Collect(h, ts, rs)
  PROVE  HeapLimits'
<1>. DEFINE p == runner[l].task
            t == [heap[p] EXCEPT !.dyn = runner[l].shadow]
            h == [heap EXCEPT ![p] = t]
<1>1. p \in DOMAIN heap /\ heap[p] \in Task /\ runner[l] \in Runner
  BY DEF TypeOK
<1>2. t.req = heap[p].req /\ t.dyn = runner[l].shadow
  BY <1>1 DEF Task
<1>3. DOMAIN h = DOMAIN heap /\ h[p] = t /\ \A q \in DOMAIN h : q # p => h[q] = heap[q]
  BY <1>1
<1>4. heap' = h \/ heap' = Collect(h, ts, rs)
  OBVIOUS
<1>5. WithinLimit(t.dyn, MaxSubsequentFailures[t.req])
  BY <1>2 DEF LimitInv, RunnerLimits, LimitOf
<1>. HIDE DEF t, h
<1>6. \A q \in DOMAIN h : WithinLimit(h[q].dyn, MaxSubsequentFailures[h[q].req])
  BY <1>3, <1>5 DEF LimitInv, HeapLimits
<1>. QED  BY <1>4, <1>6 DEF HeapLimits, Collect

LEMMA ExecuteTaskLimitInv ==
  ASSUME TypeOK, TypeOK', LimitInv, NEW l \in DOMAIN runner, ExecuteTask(l)
  PROVE  LimitInv'
<1>. DEFINE p == runner[l].task
            s == runner[l].shadow
<1>0. [Next]_vars
  BY DEF Next
<1>1. /\ runner[l] \in Runner
      /\ p \in DOMAIN heap
      /\ heap[p] \in Task
      /\ RunnerLimits(l)
      /\ WithinLimit(heap[p].dyn, LimitOf(l))
  BY DEF TypeOK, LimitInv, HeapLimits, LimitOf
<1>2. /\ s \in Dynamic
      /\ runner[l].chan \in Channels
      /\ NoLaunch \in Channels
      /\ heap[p].dyn \in Dynamic
      /\ heap[p].chan \in Channels
      /\ LimitOf(l) \in Int
  BY <1>1, RequestAssumption DEF Runner, Task, LimitOf, Channels
<1>3. /\ Deactivated(s) \in Dynamic
      /\ Deactivated(s).deactivated
      /\ WithinLimit(Deactivated(s), LimitOf(l))
  BY <1>2, DeactivatedType DEF WithinLimit
<1>4. \A success \in BOOLEAN, d \in {s, Deactivated(s)} :
        LET c == Counted(d, success, LimitOf(l))
        IN  /\ c \in Dynamic
            /\ WithinLimit(c, LimitOf(l))
            /\ c.deactivated \/ LimitOf(l) # 0
  BY <1>2, <1>3, CountedType, CountedLimit
<1>5. ASSUME runner' = Without(runner, l)
      PROVE  \A k \in DOMAIN runner' : RunnerLimits(k)'
  <2>1. \A k \in DOMAIN runner' : k \in DOMAIN runner /\ runner'[k] = runner[k]
    BY <1>5 DEF Without
  <2>. QED  BY <1>0, <2>1, RunnerLimitsKept
<1>6. CASE LoggerCreationFails(l)
  BY <1>5, <1>6 DEF LoggerCreationFails, LimitInv, HeapLimits, Collect
<1>7. CASE CopyDynamicState(l)
  <2>1. heap' = heap
    BY <1>7 DEF CopyDynamicState
  <2>2. CASE heap[p].dyn.deactivated
    <3>1. Goto(l, "final", heap[p].dyn, NoLaunch)
      BY <1>7, <2>2 DEF CopyDynamicState
    <3>. QED  BY <1>0, <1>1, <1>2, <2>1, <2>2, <3>1, GotoLimitInv
  <2>3. CASE ~heap[p].dyn.deactivated
    <3>1. Goto(l, "loop", heap[p].dyn, NoLaunch)
      BY <1>7, <2>3 DEF CopyDynamicState
    <3>. QED  BY <1>0, <1>1, <1>2, <2>1, <2>3, <3>1, GotoLimitInv
  <2>. QED  BY <2>2, <2>3
<1>8. CASE StartCommand(l)
  <2>1. ~s.deactivated /\ WithinLimit(s, LimitOf(l))
    BY <1>1, <1>8 DEF RunnerLimits, StartCommand, At
  <2>2. heap' = heap /\ Goto(l, "running", s, heap[p].chan)
    BY <1>8 DEF StartCommand
  <2>. QED  BY <1>0, <1>2, <2>1, <2>2, GotoLimitInv
<1>9. CASE StartFails(l)
  <2>1. heap' = heap /\ Goto(l, "final", Deactivated(s), NoLaunch)
    BY <1>9 DEF StartFails
  <2>. QED  BY <1>0, <1>2, <1>3, <2>1, GotoLimitInv
<1>10. CASE CommandEnds(l) \/ StopReceived(l) \/ ContextDone(l)
  <2>1. PICK success \in BOOLEAN, d \in {s, Deactivated(s)} :
          Goto(l, "publish", Counted(d, success, LimitOf(l)), NoLaunch)
    BY <1>10 DEF CommandEnds, StopReceived, ContextDone
  <2>2. heap' = heap
    BY <1>10 DEF CommandEnds, StopReceived, ContextDone
  <2>. QED  BY <1>0, <1>2, <1>4, <2>1, <2>2, GotoLimitInv
<1>11. CASE Publish(l)
  <2>1. HeapLimits'
    BY <1>11, PublishedLimits DEF Publish
  <2>2. PICK pc \in {"final", "delay"}, c \in Channels :
          /\ Goto(l, pc, s, c)
          /\ pc = "final" <=> s.deactivated
    BY <1>2, <1>11 DEF Publish
  <2>3. /\ DOMAIN runner' = DOMAIN runner
        /\ runner'[l].pc = pc
        /\ runner'[l].shadow = s
        /\ runner'[l].task = p
        /\ \A k \in DOMAIN runner : k # l => runner'[k] = runner[k]
    BY <1>2, <2>2, GotoRunner
  <2>4. LimitOf(l)' = LimitOf(l)
    BY <1>0, <2>3, LimitOfKept
  <2>5. WithinLimit(s, LimitOf(l)) /\ (s.deactivated \/ LimitOf(l) # 0)
    BY <1>1, <1>11 DEF RunnerLimits, Publish, At
  <2>6. RunnerLimits(l)'
    BY <2>2, <2>3, <2>4, <2>5 DEF RunnerLimits, At
  <2>7. \A k \in DOMAIN runner' : k # l => RunnerLimits(k)'
    BY <1>0, <2>3, RunnerLimitsKept
  <2>. QED  BY <2>1, <2>6, <2>7 DEF LimitInv
<1>12. CASE DelayElapses(l)
  <2>1. ~s.deactivated /\ WithinLimit(s, LimitOf(l))
    BY <1>1, <1>12 DEF RunnerLimits, DelayElapses, At
  <2>2. heap' = heap /\ Goto(l, "loop", s, NoLaunch)
    BY <1>12 DEF DelayElapses
  <2>. QED  BY <1>0, <1>2, <2>1, <2>2, GotoLimitInv
<1>13. CASE StopDuringDelay(l) \/ ContextDoneDuringDelay(l)
  <2>1. heap' = heap /\ Goto(l, "final", Deactivated(s), NoLaunch)
    BY <1>13 DEF StopDuringDelay, ContextDoneDuringDelay
  <2>. QED  BY <1>0, <1>2, <1>3, <2>1, GotoLimitInv
<1>14. CASE FinalPublish(l)
  <2>1. HeapLimits'
    BY <1>14, PublishedLimits DEF FinalPublish
  <2>. QED  BY <1>5, <1>14, <2>1 DEF FinalPublish, LimitInv
<1>15. CASE LoggerDies(l)
  <2>1. heap' = heap /\ Goto(l, "hung", s, NoLaunch)
    BY <1>15 DEF LoggerDies
  <2>2. WithinLimit(s, LimitOf(l))
    BY <1>1 DEF RunnerLimits
  <2>. QED  BY <1>0, <1>2, <2>1, <2>2, GotoLimitInv
<1>. QED  BY <1>6, <1>7, <1>8, <1>9, <1>10, <1>11, <1>12, <1>13, <1>14, <1>15
          DEF ExecuteTask

LEMMA NextLimitInv ==
  ASSUME TypeOK, TypeOK', LimitInv, [Next]_vars
  PROVE  LimitInv'
<1>1. ASSUME UNCHANGED vars PROVE LimitInv'
  BY <1>1, RunnerLimitsKept DEF vars, LimitInv, HeapLimits
<1>. QED  BY <1>1, CommandLimitInv, ExecuteTaskLimitInv DEF Next

(* The failure limit is kept in every interleaving, also when a resume     *)
(* overtakes the returning goroutine and two goroutines publish their      *)
(* copies of one task in turn.                                             *)
THEOREM FailureLimit == Spec => []LimitRespected
<1>1. Init => LimitInv
  BY DEF Init, LimitInv, HeapLimits
<1>2. TypeOK /\ TypeOK' /\ LimitInv /\ [Next]_vars => LimitInv'
  BY NextLimitInv
<1>. QED  BY <1>1, <1>2, LimitInvImplies, TypeCorrect, PTL DEF Spec

-----------------------------------------------------------------------------
(* Every active task is watched *)

(* A goroutine that leaves publishes a deactivated state first. *)
LEMMA NextActiveHasRunner ==
  ASSUME TypeOK, TypeOK', LimitInv, ActiveHasRunner, ~LoggerFaults, [Next]_vars
  PROVE  ActiveHasRunner'
<1>0. killed => killed'
  BY DEF Next, vars, Command, RunAccepted, RunRejected, ResumeFromMemory,
         ResumeFromMemoryRejected, ResumeFromFile, ResumeFromFileRejected,
         ResumeFromFileFails, Stop, StopTasksByDisplay, Refresh, Trim, Kill, ExecuteTask,
         LoggerCreationFails, CopyDynamicState, StartCommand, StartFails,
         CommandEnds, StopReceived, ContextDone, Publish, DelayElapses,
         StopDuringDelay, ContextDoneDuringDelay, FinalPublish, LoggerDies
<1>. SUFFICES ASSUME ~killed, NEW p \in tasks', ~heap'[p].dyn.deactivated
              PROVE  \E l \in DOMAIN runner' : runner'[l].task = p
  BY <1>0 DEF ActiveHasRunner, Active
<1>1. ASSUME p \in tasks, heap'[p].dyn = heap[p].dyn,
             \A k \in DOMAIN runner : k \in DOMAIN runner' /\ runner'[k].task = runner[k].task
      PROVE  \E l \in DOMAIN runner' : runner'[l].task = p
  BY <1>1 DEF ActiveHasRunner, Active
<1>2. ASSUME NEW q \in Pointers \ DOMAIN heap, NEW l \in FreshLaunches, NEW t,
             heap' = With(heap, q, t), tasks' = tasks \union {q}, StartGoroutine(l, q)
      PROVE  \E k \in DOMAIN runner' : runner'[k].task = p
  <2>1. /\ l \in DOMAIN runner' /\ runner'[l].task = q
        /\ \A k \in DOMAIN runner : k \in DOMAIN runner' /\ runner'[k].task = runner[k].task
    BY <1>2, StartRunner
  <2>2. CASE p = q
    BY <2>1, <2>2
  <2>3. CASE p # q
    <3>1. p \in tasks /\ heap'[p] = heap[p]
      BY <1>2, <2>3 DEF With, TypeOK
    <3>. QED  BY <1>1, <2>1, <3>1
  <2>. QED  BY <2>2, <2>3
<1>3. ASSUME NEW q \in tasks, ResumeFromMemory(q)
      PROVE  \E l \in DOMAIN runner' : runner'[l].task = p
  <2>1. PICK l \in FreshLaunches :
          /\ heap' = [heap EXCEPT ![q] = Initialised(@.id, @.req, @.dyn, l)]
          /\ StartGoroutine(l, q)
    BY <1>3 DEF ResumeFromMemory
  <2>2. q \in Pointers /\ p \in tasks
    BY <1>3 DEF ResumeFromMemory, TypeOK
  <2>3. /\ l \in DOMAIN runner' /\ runner'[l].task = q
        /\ \A k \in DOMAIN runner : k \in DOMAIN runner' /\ runner'[k].task = runner[k].task
    BY <2>1, <2>2, StartRunner
  <2>4. p # q => heap'[p] = heap[p]
    BY <2>1, <2>2 DEF TypeOK
  <2>. QED  BY <1>1, <2>2, <2>3, <2>4
<1>4. ASSUME NEW q \in tasks, ResumeFromMemoryRejected(q)
      PROVE  \E l \in DOMAIN runner' : runner'[l].task = p
  <2>1. p \in tasks /\ p # q /\ p \in DOMAIN heap /\ p \in DOMAIN heap'
    BY <1>4 DEF ResumeFromMemoryRejected, TypeOK
  <2>2. heap'[p] = heap[p]
    BY <1>4, <2>1 DEF ResumeFromMemoryRejected, Collect, TypeOK
  <2>3. runner' = runner
    BY <1>4 DEF ResumeFromMemoryRejected
  <2>. QED  BY <1>1, <2>1, <2>2, <2>3
<1>5. ASSUME Refresh PROVE \E l \in DOMAIN runner' : runner'[l].task = p
  <2>1. PICK woken \in SUBSET Refreshable :
          runner' = [l \in DOMAIN runner |->
                       IF l \in woken
                       THEN [runner[l] EXCEPT !.pc = "loop", !.chan = NoLaunch]
                       ELSE runner[l]]
    BY <1>5 DEF Refresh
  <2>2. \A k \in DOMAIN runner : runner[k] \in Runner
    BY DEF TypeOK
  <2>3. \A k \in DOMAIN runner : k \in DOMAIN runner' /\ runner'[k].task = runner[k].task
    BY <2>1, <2>2 DEF Runner
  <2>4. tasks' = tasks /\ heap' = heap
    BY <1>5 DEF Refresh
  <2>. QED  BY <1>1, <2>3, <2>4
<1>6. ASSUME Trim PROVE \E l \in DOMAIN runner' : runner'[l].task = p
  <2>1. p \in tasks /\ p \in DOMAIN heap' /\ runner' = runner
    BY <1>6 DEF Trim, TypeOK
  <2>2. heap'[p] = heap[p]
    BY <1>6, <2>1 DEF Trim, Collect
  <2>. QED  BY <1>1, <2>1, <2>2
<1>7. CASE UNCHANGED <<tasks, heap, runner>>
  BY <1>1, <1>7
<1>8. ASSUME Command PROVE \E l \in DOMAIN runner' : runner'[l].task = p
  <2>1. CASE \E r \in Requests : RunAccepted(r)
    BY <1>2, <2>1 DEF RunAccepted
  <2>2. CASE \E a \in archive : ResumeFromFile(a)
    BY <1>2, <2>2 DEF ResumeFromFile
  <2>. QED  BY <1>3, <1>4, <1>5, <1>6, <1>7, <1>8, <2>1, <2>2
            DEF Command, RunRejected, ResumeFromFileRejected, ResumeFromFileFails, Stop,
                StopTasksByDisplay, Kill
<1>9. ASSUME NEW l \in DOMAIN runner, ExecuteTask(l)
      PROVE  \E k \in DOMAIN runner' : runner'[k].task = p
  <2>1. p \in tasks /\ p \in DOMAIN heap /\ runner[l] \in Runner /\ heap[p] \in Task
    BY <1>9 DEF TypeOK, ExecuteTask, LoggerCreationFails, CopyDynamicState,
                StartCommand, StartFails, CommandEnds, StopReceived, ContextDone,
                Publish, DelayElapses, StopDuringDelay, ContextDoneDuringDelay,
                FinalPublish, LoggerDies
  <2>2. ASSUME NEW pc, NEW s, NEW c, Goto(l, pc, s, c)
        PROVE  \A k \in DOMAIN runner : k \in DOMAIN runner' /\ runner'[k].task = runner[k].task
    BY <2>1, <2>2 DEF Goto, TypeOK, Runner
  <2>3. CASE heap' = heap /\ \E pc, s, c : Goto(l, pc, s, c)
    BY <1>1, <2>1, <2>2, <2>3
  <2>4. CASE Publish(l)
    <3>1. \A k \in DOMAIN runner : k \in DOMAIN runner' /\ runner'[k].task = runner[k].task
      BY <2>2, <2>4 DEF Publish
    <3>2. runner[l].task # p => heap'[p] = heap[p]
      BY <2>1, <2>4 DEF Publish
    <3>. QED  BY <1>1, <2>1, <3>1, <3>2
  <2>5. CASE FinalPublish(l)
    <3>1. runner[l].shadow.deactivated
      BY <2>5 DEF FinalPublish, LimitInv, RunnerLimits
    <3>2. p \in DOMAIN heap'
      BY DEF TypeOK
    <3>3. heap'[p] = [heap EXCEPT ![runner[l].task].dyn = runner[l].shadow][p]
      BY <2>5, <3>2 DEF FinalPublish, Collect
    <3>4. runner[l].task # p /\ heap'[p] = heap[p]
      BY <2>1, <3>1, <3>3 DEF Task
    <3>5. PICK k \in DOMAIN runner : runner[k].task = p
      BY <2>1, <3>4 DEF ActiveHasRunner, Active
    <3>. QED  BY <2>5, <3>4, <3>5 DEF FinalPublish, Without
  <2>6. ~LoggerCreationFails(l)
    BY DEF LoggerCreationFails, LoggerMayFail
  <2>7. CASE CopyDynamicState(l)
    BY <2>3, <2>7 DEF CopyDynamicState
  <2>8. CASE CommandEnds(l)
    BY <2>3, <2>8 DEF CommandEnds
  <2>. QED  BY <1>9, <2>3, <2>4, <2>5, <2>6, <2>7, <2>8
            DEF ExecuteTask, StartCommand, StartFails, StopReceived, ContextDone,
                DelayElapses, StopDuringDelay, ContextDoneDuringDelay, LoggerDies
<1>. QED  BY <1>7, <1>8, <1>9 DEF Next, vars

(* As long as loggers can be created and the backend is not killed, every  *)
(* active task in memory has a goroutine working on it, even when several  *)
(* goroutines take turns on one task after eager resumes, and whatever     *)
(* happens to the file.                                                    *)
THEOREM ActiveTasksAreWatched ==
  ASSUME ~LoggerFaults
  PROVE  Spec => []ActiveHasRunner
<1>1. Init => ActiveHasRunner /\ LimitInv
  BY DEF Init, ActiveHasRunner, LimitInv, HeapLimits
<1>2. TypeOK /\ TypeOK' /\ LimitInv /\ [Next]_vars => LimitInv'
  BY NextLimitInv
<1>3. TypeOK /\ TypeOK' /\ LimitInv /\ ActiveHasRunner /\ [Next]_vars => ActiveHasRunner'
  BY NextActiveHasRunner
<1>. QED  BY <1>1, <1>2, <1>3, TypeCorrect, PTL DEF Spec

-----------------------------------------------------------------------------
(* What the file holds *)

(* Only deactivated tasks are trimmed (scheduler.go:34). *)
SavedDeactivated == \A a \in archive : a.dyn.deactivated

LEMMA NextSavedDeactivated ==
  ASSUME TypeOK, SavedDeactivated, [Next]_vars
  PROVE  SavedDeactivated'
<1>1. CASE archive' \subseteq archive
  BY <1>1 DEF SavedDeactivated
<1>2. CASE Trim
  <2>1. archive' \subseteq archive \union {Record(p) : p \in TasksToDeactivate}
    BY <1>2, FileGrows DEF Trim
  <2>2. \A p \in TasksToDeactivate : Record(p).dyn = heap[p].dyn
    BY RecordType DEF TypeOK, TasksToDeactivate
  <2>. QED  BY <2>1, <2>2 DEF SavedDeactivated, TasksToDeactivate
<1>3. ASSUME NEW a \in archive,
             ResumeFromFile(a) \/ ResumeFromFileRejected(a) \/ ResumeFromFileFails(a)
      PROVE  SavedDeactivated'
  BY <1>1, <1>3, FileShrinks DEF ResumeFromFile, ResumeFromFileRejected, ResumeFromFileFails
<1>. QED  BY <1>1, <1>2, <1>3
          DEF Next, vars, Command, RunAccepted, RunRejected, ResumeFromMemory,
              ResumeFromMemoryRejected, Stop, StopTasksByDisplay, Refresh, Kill, ExecuteTask,
              LoggerCreationFails, CopyDynamicState, StartCommand, StartFails,
              CommandEnds, StopReceived, ContextDone, Publish, DelayElapses,
              StopDuringDelay, ContextDoneDuringDelay, FinalPublish, LoggerDies

=============================================================================
