------------------------------- MODULE Frontend -------------------------------
(***************************************************************************)
(* The commands of the command line, from their arguments to the exit      *)
(* status, and the handlers that answer them in the backend.  Each         *)
(* frontend is one invocation after another, with a connection of its own. *)
(* Of the frontends that are not followed like this only the handlers      *)
(* remain, which are all that the others can notice.                       *)
(*                                                                         *)
(* A peek, alone or after a run or resume, is two goroutines that share a  *)
(* stop flag: one prints the log of the task, the other asks whether the   *)
(* task is still active.                                                   *)
(*                                                                         *)
(* Tasks are reduced to what the handlers read: Scheduler has their        *)
(* goroutines.  How a connection is made, and a backend started for it, is *)
(* in BackendLifecycle.                                                    *)
(***************************************************************************)
EXTENDS Requests, FiniteSets, Sequences

CONSTANTS
  Frontends,
  CommandLines,  \* what a frontend may be started with
  OtherCommands, \* what is handled for other frontends
  MaxTasks,      \* bound: task ids handed out
  MaxLives,      \* bound: times the log of each task is created
  MaxLines       \* bound: lines in the log of each task

ASSUME BoundAssumption ==
  /\ MaxTasks \in Nat
  /\ MaxLives \in [0 .. MaxTasks - 1 -> Nat]
  /\ MaxLines \in [0 .. MaxTasks - 1 -> Nat]

(* A peek names what may be the id of a task: math.MaxInt would select any *)
(* task (frontend/commands.go:340).                                        *)
ASSUME PeekAssumption ==
  \A line \in CommandLines : line.cmd = "peek" => line.id # NoId

VARIABLES
  up,        \* is the backend running?
  task,      \* the tasks by id, also those that were rejected or forgotten
  log,       \* the log files: how often created, lines written since then
  messages,  \* the backend message of the last command of each frontend
  front,     \* the frontend processes
  conn,      \* their connections, and the requests on them
  peek,      \* the goroutines and the stop flag of CmdPeek
  history    \* what was true of the task a command names; no code reads it

vars == <<up, task, log, messages, front, conn, peek, history>>

-----------------------------------------------------------------------------
(* Data *)

RunResponseStatus == {"success", "alreadyRunning", "nameRunning", "invalidDisplay",
                      "notFound", "notDeactivated"}

StopResponseStatus == {"success", "notFound", "alreadyStopped"}

Statuses == RunResponseStatus \union StopResponseStatus

Task == [body : {RunRequestBody(l) : l \in
                   {l \in CommandLines \union OtherCommands : l.cmd = "run"}},
         phase : {"starting", "running", "waiting", "stopped"},
         place : {"memory", "file", "rejected", "forgotten"}]

TypeOK ==
  /\ up \in BOOLEAN
  /\ DOMAIN task = 0 .. Cardinality(DOMAIN task) - 1
  /\ task \in [DOMAIN task -> Task]
  /\ DOMAIN log = DOMAIN task
  /\ \A i \in DOMAIN task : log[i] \in [life : 0 .. MaxLives[i], lines : 0 .. MaxLines[i]]
  /\ messages \in [Frontends -> {"none", "listed", "trimmed"}]
  /\ \A f \in Frontends :
       /\ front[f].pc \in {"exited", "connect", "send", "wait", "peek"}
       /\ front[f].exit \in {0, 1}
       /\ conn[f].stage \in {"closed", "open", "sent", "unlogged", "unanswered",
                             "answered", "lost"}
       /\ conn[f].status \in Statuses \union {"none", "active", "inactive",
                                              "none found", "one found", "many found"}
       /\ peek[f].file \in {"off", "opening", "contents", "poll", "done"}
       /\ peek[f].query \in {"off", "check", "asked", "done"}
       /\ peek[f].shown \in Seq(Nat \X Nat)

Closed == [stage |-> "closed", status |-> "none", id |-> NoId]

NoPeek == [file |-> "off", query |-> "off", flag |-> FALSE, life |-> 0,
           opened |-> 0, shown |-> <<>>]

Idle == [pc |-> "exited", line |-> [cmd |-> "none"], status |-> "none", exit |-> 0]

NoHistory == [start |-> "unknown", moved |-> FALSE, accepted |-> FALSE]

Init ==
  /\ up = TRUE
  /\ task = [i \in {} |-> i]
  /\ log = [i \in {} |-> i]
  /\ messages = [f \in Frontends |-> "none"]
  /\ front = [f \in Frontends |-> Idle]
  /\ conn = [f \in Frontends |-> Closed]
  /\ peek = [f \in Frontends |-> NoPeek]
  /\ history = [f \in Frontends |-> NoHistory]

NextId == Cardinality(DOMAIN task)

InMemory(i) == i \in DOMAIN task /\ task[i].place = "memory"

Known(i) == i \in DOMAIN task /\ task[i].place \in {"memory", "file"}

Active(i) == InMemory(i) /\ task[i].phase # "stopped"

Standing(i) ==
  IF ~Known(i) THEN "unknown" ELSE IF Active(i) THEN "active" ELSE "deactivated"

With(g, x, v) == [y \in DOMAIN g \union {x} |-> IF y = x THEN v ELSE g[y]]

(* The task an invocation is about: the one its command line names, or the *)
(* one its request started.                                                *)
Target(f) ==
  IF front[f].line.cmd = "run" THEN conn[f].id
  ELSE IF front[f].line.cmd \in {"peek", "stop", "resume"} THEN front[f].line.id
  ELSE NoId

(* Bookkeeping of a step after which task i stands otherwise, for the      *)
(* frontends it concerns.                                                  *)
Moved(i, concerned) ==
  [f \in Frontends |->
     [history[f] EXCEPT !.moved = \/ @
                                  \/ /\ f \in concerned
                                     /\ front[f].pc # "exited"
                                     /\ Target(f) = i]]

-----------------------------------------------------------------------------
(* The frontend up to its request *)

(* The process is gone, with its connection; its exit status remains.      *)
Exit(f, status, exit) ==
  /\ front' = [front EXCEPT ![f] = [Idle EXCEPT !.status = status, !.exit = exit]]
  /\ conn' = [conn EXCEPT ![f] = Closed]
  /\ messages' = [messages EXCEPT ![f] = "none"]
  /\ peek' = [peek EXCEPT ![f] = NoPeek]
  /\ history' = [history EXCEPT ![f] = NoHistory]

Start(f) ==
  /\ front[f].pc = "exited"
  /\ \E line \in CommandLines :
       IF UsageError(line)
       THEN Exit(f, "usage", 1)
       ELSE /\ front' = [front EXCEPT ![f] = [Idle EXCEPT !.pc = "connect", !.line = line]]
            /\ history' = [history EXCEPT ![f].start =
                             IF line.cmd \in {"peek", "stop", "resume"}
                             THEN Standing(line.id) ELSE "unknown"]
            /\ UNCHANGED <<conn, messages, peek>>
  /\ UNCHANGED <<up, task, log>>

Connect(f) ==
  /\ front[f].pc = "connect"
  /\ up
  /\ IF front[f].line.cmd = "check"
     THEN Exit(f, "success", 0)
     ELSE /\ front' = [front EXCEPT ![f].pc = "send"]
          /\ conn' = [conn EXCEPT ![f].stage = "open"]
          /\ UNCHANGED <<messages, peek, history>>
  /\ UNCHANGED <<up, task, log>>

(* Mutant: every command returns nil when it cannot connect. *)
ZeroForAll(cmd) == 0

(* A resume that cannot connect returns nil all the same. *)
ExitUnconnected(cmd) == IF cmd = "resume" THEN 0 ELSE 1

ConnectFails(f) ==
  /\ front[f].pc = "connect"
  /\ ~up
  /\ Exit(f, "unreachable", ExitUnconnected(front[f].line.cmd))
  /\ UNCHANGED <<up, task, log>>

(* A run request is validated, then sent. *)
Send(f) ==
  /\ front[f].pc = "send"
  /\ IF front[f].line.cmd = "run" /\ ~ValidateRunRequestBody(RunRequestBody(front[f].line))
     THEN Exit(f, "invalid", 1)
     ELSE IF conn[f].stage = "lost"
     THEN Exit(f, "lost", 1)
     ELSE /\ front' = [front EXCEPT ![f].pc = "wait"]
          /\ conn' = [conn EXCEPT ![f].stage = "sent"]
          /\ UNCHANGED <<messages, peek, history>>
  /\ UNCHANGED <<up, task, log>>

-----------------------------------------------------------------------------
(* The handlers, each under the scheduler's lock *)

Handling(f, cmds) ==
  /\ conn[f].stage = "sent"
  /\ front[f].pc = "wait"
  /\ front[f].line.cmd \in cmds

(* CheckForTaskConflict goes through the list and returns at the first     *)
(* conflict; a display other than headless may turn out to be invalid.     *)
RunStatuses(body, i) ==
  LET others == {j \in DOMAIN task \ {i} : Active(j)}
      conflicts ==
        {s \in {"alreadyRunning", "nameRunning"} :
           \E j \in others :
             IF task[j].body = body THEN s = "alreadyRunning"
             ELSE /\ s = "nameRunning"
                  /\ task[j].body.name = body.name
                  /\ task[j].body.display = body.display}
  IN  IF conflicts # {} THEN conflicts
      ELSE {"success"} \union
           (IF body.display.type = "headless" THEN {} ELSE {"invalidDisplay"})

Decided(f, status, i) ==
  conn' = [conn EXCEPT ![f] = [stage |-> "unlogged", status |-> status, id |-> i]]

Accept(f, i) ==
  history' = [Moved(i, Frontends \ {f}) EXCEPT ![f].accepted = TRUE]

(* Mutant: the id is incremented before it is used. *)
TryRunTaskLate(body, status) ==
  /\ NextId < MaxTasks
  /\ status \in RunStatuses(body, NextId)
  /\ task' = With(task, NextId + 1,
                  [body |-> body, phase |-> "starting",
                   place |-> IF status = "success" THEN "memory" ELSE "rejected"])
  /\ log' = With(log, NextId, [life |-> 0, lines |-> 0])

(* The id is used up in any case. *)
TryRunTask(body, status) ==
  /\ NextId < MaxTasks
  /\ status \in RunStatuses(body, NextId)
  /\ task' = With(task, NextId,
                  [body |-> body, phase |-> "starting",
                   place |-> IF status = "success" THEN "memory" ELSE "rejected"])
  /\ log' = With(log, NextId, [life |-> 0, lines |-> 0])

CmdRun(f) ==
  /\ Handling(f, {"run"})
  /\ \E status \in RunResponseStatus :
       /\ TryRunTask(RunRequestBody(front[f].line), status)
       /\ Decided(f, status, NextId)
       /\ IF status = "success" THEN Accept(f, NextId) ELSE UNCHANGED history
  /\ UNCHANGED <<up, messages, front, peek>>

(* A deactivated task is taken out of the list or the file before the      *)
(* checks, and is gone if they reject it.                                  *)
TryResumeTask(i, status) ==
  IF ~Known(i) THEN status = "notFound" /\ UNCHANGED task
  ELSE IF Active(i) THEN status = "notDeactivated" /\ UNCHANGED task
  ELSE /\ log[i].life < MaxLives[i]
       /\ status \in RunStatuses(task[i].body, i)
       /\ task' = IF status = "success"
                  THEN [task EXCEPT ![i].phase = "starting", ![i].place = "memory"]
                  ELSE [task EXCEPT ![i].place = "forgotten"]

CmdResume(f) ==
  LET i == front[f].line.id
  IN  /\ Handling(f, {"resume"})
      /\ \E status \in RunResponseStatus :
           /\ TryResumeTask(i, status)
           /\ Decided(f, status, i)
           /\ IF status = "success" THEN Accept(f, i)
              ELSE history' = Moved(i, Frontends \ {f})
      /\ UNCHANGED <<up, log, messages, front, peek>>

(* The same for a connection that is not followed.  A stop there is seen   *)
(* only when the task ends, TaskProceeds.                                  *)
HandleOther ==
  /\ up
  /\ \E line \in OtherCommands, status \in RunResponseStatus :
       \/ /\ line.cmd = "run"
          /\ TryRunTask(RunRequestBody(line), status)
          /\ history' = Moved(NextId, Frontends)
       \/ /\ line.cmd = "resume"
          /\ TryResumeTask(line.id, status)
          /\ task' # task
          /\ history' = Moved(line.id, Frontends)
          /\ UNCHANGED log
  /\ UNCHANGED <<up, messages, front, conn, peek>>

(* An id is valid if it is below the next one; it may never have been the  *)
(* id of a task.                                                           *)
IsValidId(i) == i < NextId

(* Mutant: the task is not looked up. *)
AnyValidId(i) ==
  IF IsValidId(i) THEN "success" ELSE "notFound"

StopStatus(i) ==
  IF ~IsValidId(i) THEN "notFound"
  ELSE IF Active(i) THEN "success" ELSE "alreadyStopped"

CmdStop(f) ==
  LET i == front[f].line.id
  IN  /\ Handling(f, {"stop"})
      /\ Decided(f, StopStatus(i), i)
      /\ history' = [history EXCEPT ![f].accepted = StopStatus(i) = "success"]
      /\ UNCHANGED <<up, task, log, messages, front, peek>>

(* The handlers that change no task answer without a message. *)
Answered(f, status) ==
  conn' = [conn EXCEPT ![f].stage = "answered", ![f].status = status]

(* Only tasks that wait between two executions listen. *)
CmdRefresh(f) ==
  LET filter == RefreshFilter(front[f].line)
  IN  /\ Handling(f, {"refresh"})
      /\ task' = [i \in DOMAIN task |->
                    IF /\ InMemory(i)
                       /\ task[i].phase = "waiting"
                       /\ Selects(filter, i, task[i].body, Active(i))
                    THEN [task[i] EXCEPT !.phase = "running"]
                    ELSE task[i]]
      /\ Answered(f, "success")
      /\ UNCHANGED <<up, log, messages, front, peek, history>>

(* Mutant: the trimmed tasks are left out. *)
ListInMemory(filter) ==
  {i \in DOMAIN task : InMemory(i) /\ Selects(filter, i, task[i].body, Active(i))}

(* The list in memory and, if deactivated tasks are wanted, the file, both *)
(* under one lock.                                                         *)
Listed(filter) ==
  {i \in DOMAIN task :
     /\ InMemory(i) \/ (filter.deactivated /\ task[i].place = "file")
     /\ Selects(filter, i, task[i].body, Active(i))}

Found(ids) == CASE Cardinality(ids) = 0 -> "none found"
                [] Cardinality(ids) = 1 -> "one found"
                [] OTHER -> "many found"

CmdList(f) ==
  /\ Handling(f, {"list", "peek"})
  /\ LET line == front[f].line
         ids == Listed(IF line.cmd = "peek" THEN PeekFilter(line.id)
                       ELSE ListFilter(line))
     IN  Answered(f, Found(IF line.cmd = "list" /\ line.unique
                           THEN UniqueNames(ids, [i \in ids |-> task[i].body.name])
                           ELSE ids))
  /\ UNCHANGED <<up, task, log, messages, front, peek, history>>

CmdLog(f) ==
  /\ Handling(f, {"log"})
  /\ Answered(f, "success")
  /\ UNCHANGED <<up, task, log, messages, front, peek, history>>

CmdQueryTaskActive(f) ==
  /\ front[f].pc = "peek"
  /\ conn[f].stage = "sent"
  /\ Answered(f, IF Active(Target(f)) THEN "active"
                 ELSE IF IsValidId(Target(f)) THEN "inactive" ELSE "notFound")
  /\ UNCHANGED <<up, task, log, messages, front, peek, history>>

(* After the lock is released the outcome is added to the messages.        *)
AddMessage(f) ==
  /\ conn[f].stage = "unlogged"
  /\ messages' = [messages EXCEPT ![f] = "listed"]
  /\ conn' = [conn EXCEPT ![f].stage = "unanswered"]
  /\ UNCHANGED <<up, task, log, front, peek, history>>

(* Mutant: the answer is sent first. *)
AnswerFirst(f) ==
  /\ conn[f].stage \in {"unlogged", "unanswered"}
  /\ conn' = [conn EXCEPT ![f].stage = "answered"]
  /\ UNCHANGED <<up, task, log, messages, front, peek, history>>

Answer(f) ==
  /\ conn[f].stage = "unanswered"
  /\ conn' = [conn EXCEPT ![f].stage = "answered"]
  /\ UNCHANGED <<up, task, log, messages, front, peek, history>>

(* A backend that is killed closes its connections, wherever they are.     *)
LoseConnection(f) ==
  /\ ~up
  /\ conn[f].stage \notin {"closed", "lost"}
  /\ front[f].pc \in {"send", "wait", "peek"}
  /\ conn' = [conn EXCEPT ![f].stage = "lost"]
  /\ UNCHANGED <<up, task, log, messages, front, peek, history>>

-----------------------------------------------------------------------------
(* The frontend from the answer on *)

(* Does a run, a resume or a peek go on to show the log? *)
GoesOn(f) ==
  \/ front[f].line.cmd \in {"run", "resume"} /\ conn[f].status = "success"
       /\ front[f].line.peek
  \/ front[f].line.cmd = "peek" /\ conn[f].status = "one found"

(* Mutant: a task that is already stopped is not an error. *)
FailsUnlessStopped(cmd, status) ==
  CASE cmd \in {"run", "resume"} -> status # "success"
    [] cmd = "stop" -> status \notin {"success", "alreadyStopped"}
    [] cmd = "peek" -> status # "one found"
    [] OTHER -> FALSE

Fails(cmd, status) ==
  CASE cmd \in {"run", "resume", "stop"} -> status # "success"
    [] cmd = "peek" -> status # "one found"
    [] OTHER -> FALSE

Receive(f) ==
  /\ front[f].pc = "wait"
  /\ \/ /\ conn[f].stage = "lost"
        /\ Exit(f, "lost", 1)
     \/ /\ conn[f].stage = "answered"
        /\ IF GoesOn(f)
           THEN /\ front' = [front EXCEPT ![f].pc = "peek",
                                          ![f].status = conn[f].status]
                /\ conn' = [conn EXCEPT ![f].stage = "open"]
                /\ peek' = [peek EXCEPT ![f].file = "opening", ![f].query = "check"]
                /\ UNCHANGED <<messages, history>>
           ELSE Exit(f, conn[f].status,
                     IF Fails(front[f].line.cmd, conn[f].status) THEN 1 ELSE 0)
  /\ UNCHANGED <<up, task, log>>

-----------------------------------------------------------------------------
(* CmdPeek: the goroutine that prints the log, WatchFile *)

Peeks(f, file) == front[f].pc = "peek" /\ peek[f].file = file

Unread(f) == Len(peek[f].shown) < log[Target(f)].lines

(* One more line: the one at the reader's offset, of whatever life of the  *)
(* task the file holds by now.                                             *)
PrintLine(f) ==
  peek' = [peek EXCEPT ![f].shown =
             Append(@, <<log[Target(f)].life, Len(@) + 1>>)]

OpenFile(f) ==
  /\ Peeks(f, "opening")
  /\ up
  /\ log[Target(f)].life > 0
  /\ peek' = [peek EXCEPT ![f].file = "contents", ![f].life = log[Target(f)].life,
                          ![f].opened = log[Target(f)].lines]
  /\ UNCHANGED <<up, task, log, messages, front, conn, history>>

(* The file does not appear in time, or was removed by the shutdown.       *)
OpenFails(f) ==
  /\ Peeks(f, "opening")
  /\ ~up \/ log[Target(f)].life = 0
  /\ peek' = [peek EXCEPT ![f].file = "done", ![f].flag = TRUE]
  /\ UNCHANGED <<up, task, log, messages, front, conn, history>>

(* Mutant: the flag is looked at before the contents are printed. *)
PrintUnlessStopped(f) ==
  /\ Peeks(f, "contents")
  /\ IF peek[f].flag
     THEN peek' = [peek EXCEPT ![f].file = "done"]
     ELSE IF Unread(f) THEN PrintLine(f)
     ELSE peek' = [peek EXCEPT ![f].file = "poll"]
  /\ UNCHANGED <<up, task, log, messages, front, conn, history>>

(* The contents are printed to the end, whatever the flag says.            *)
PrintContents(f) ==
  /\ Peeks(f, "contents")
  /\ IF Unread(f) THEN PrintLine(f)
     ELSE peek' = [peek EXCEPT ![f].file = "poll"]
  /\ UNCHANGED <<up, task, log, messages, front, conn, history>>

Poll(f) ==
  /\ Peeks(f, "poll")
  /\ IF peek[f].flag
     THEN peek' = [peek EXCEPT ![f].file = "done"]
     ELSE Unread(f) /\ PrintLine(f)
  /\ UNCHANGED <<up, task, log, messages, front, conn, history>>

-----------------------------------------------------------------------------
(* CmdPeek: the goroutine that asks for the task, and the end *)

Asks(f, query) == front[f].pc = "peek" /\ peek[f].query = query

Query(f) ==
  /\ Asks(f, "check")
  /\ IF peek[f].flag \/ conn[f].stage = "lost"
     THEN /\ peek' = [peek EXCEPT ![f].query = "done", ![f].flag = TRUE]
          /\ UNCHANGED conn
     ELSE /\ peek' = [peek EXCEPT ![f].query = "asked"]
          /\ conn' = [conn EXCEPT ![f].stage = "sent"]
  /\ UNCHANGED <<up, task, log, messages, front, history>>

(* Mutant: an inactive task is not a reason to end. *)
NeverStops(status) == FALSE

(* Mutant: whether the task is active is asked once. *)
EndsAfterAnswer(status) == TRUE

EndsPeek(status) == status # "active"

Queried(f) ==
  /\ Asks(f, "asked")
  /\ conn[f].stage \in {"answered", "lost"}
  /\ IF conn[f].stage = "lost" \/ EndsPeek(conn[f].status)
     THEN peek' = [peek EXCEPT ![f].query = "done", ![f].flag = TRUE]
     ELSE peek' = [peek EXCEPT ![f].query = "check"]
  /\ conn' = [conn EXCEPT ![f].stage = IF @ = "lost" THEN @ ELSE "open"]
  /\ UNCHANGED <<up, task, log, messages, front, history>>

(* Errors of the goroutines are printed; the exit status is 0.             *)
PeekReturns(f) ==
  /\ Peeks(f, "done")
  /\ Asks(f, "done")
  /\ Exit(f, IF peek[f].life = 0 THEN "not opened" ELSE front[f].status, 0)
  /\ UNCHANGED <<up, task, log>>

-----------------------------------------------------------------------------
(* The backend's own steps *)

(* The logger of a task creates the log, which truncates an older one.     *)
TaskStarts(i) ==
  /\ Active(i)
  /\ task[i].phase = "starting"
  /\ up
  /\ log[i].life < MaxLives[i]
  /\ task' = [task EXCEPT ![i].phase = "running"]
  /\ log' = [log EXCEPT ![i] = [life |-> @.life + 1, lines |-> 0]]
  /\ UNCHANGED <<up, messages, front, conn, peek, history>>

TaskLogs(i) ==
  /\ Active(i)
  /\ task[i].phase # "starting"
  /\ log[i].lines < MaxLines[i]
  /\ log' = [log EXCEPT ![i].lines = @ + 1]
  /\ UNCHANGED <<up, task, messages, front, conn, peek, history>>

(* An execution ends, or the delay after it; either may deactivate.        *)
TaskProceeds(i) ==
  /\ Active(i)
  /\ task[i].phase \in {"running", "waiting"}
  /\ \/ /\ task' = [task EXCEPT ![i].phase = IF @ = "running" THEN "waiting"
                                              ELSE "running"]
        /\ UNCHANGED history
     \/ /\ task' = [task EXCEPT ![i].phase = "stopped"]
        /\ history' = Moved(i, Frontends)
  /\ UNCHANGED <<up, log, messages, front, conn, peek>>

(* The trim goroutine: deactivated tasks, and messages that are too old.   *)
Trim ==
  \/ /\ \E i \in DOMAIN task :
          /\ InMemory(i)
          /\ ~Active(i)
          /\ task' = [task EXCEPT ![i].place = "file"]
     /\ UNCHANGED messages
  \/ /\ \E f \in Frontends : /\ messages[f] = "listed"
                             /\ messages' = [messages EXCEPT ![f] = "trimmed"]
     /\ UNCHANGED task

TrimTick == up /\ Trim /\ UNCHANGED <<up, log, front, conn, peek, history>>

Kill ==
  /\ up
  /\ up' = FALSE
  /\ UNCHANGED <<task, log, messages, front, conn, peek, history>>

-----------------------------------------------------------------------------
(* Specification *)

Handle(f) ==
  \/ CmdRun(f)
  \/ CmdResume(f)
  \/ CmdStop(f)
  \/ CmdRefresh(f)
  \/ CmdList(f)
  \/ CmdLog(f)
  \/ CmdQueryTaskActive(f)
  \/ AddMessage(f)
  \/ Answer(f)

WatchFile(f) == OpenFile(f) \/ OpenFails(f) \/ PrintContents(f) \/ Poll(f)

QueryLoop(f) == Query(f) \/ Queried(f)

Invoke(f) == Connect(f) \/ ConnectFails(f) \/ Send(f) \/ Receive(f) \/ PeekReturns(f)

Next ==
  \/ \E f \in Frontends :
       \/ Start(f)
       \/ Invoke(f)
       \/ Handle(f)
       \/ LoseConnection(f)
       \/ WatchFile(f)
       \/ QueryLoop(f)
  \/ \E i \in DOMAIN task : TaskStarts(i) \/ TaskLogs(i) \/ TaskProceeds(i)
  \/ HandleOther
  \/ TrimTick
  \/ Kill

Spec == Init /\ [][Next]_vars

(* Goroutines that can run do; a user need not start anything, a task need *)
(* not log or end.                                                         *)
FairSpec ==
  /\ Spec
  /\ \A f \in Frontends :
       /\ WF_vars(Invoke(f))
       /\ WF_vars(Handle(f))
       /\ WF_vars(LoseConnection(f))
       /\ WF_vars(WatchFile(f))
       /\ WF_vars(QueryLoop(f))

-----------------------------------------------------------------------------
(* Properties *)

Exits(f, cmds) ==
  /\ front[f].line.cmd \in cmds
  /\ front'[f].pc = "exited"

(* A task that was in memory or in the file when peek was called is found, *)
(* once, however it is trimmed and resumed meanwhile, unless a rejected    *)
(* resume forgot it (frontend/commands.go:372, backend/commands.go:110).   *)
FindsKnown(f) ==
  Exits(f, {"peek"}) =>
    /\ front'[f].status # "many found"
    /\ front'[f].status = "none found" /\ history[f].start # "unknown"
         => ~Known(front[f].line.id)

PeekFindsKnown == [][\A f \in Frontends : FindsKnown(f)]_vars

(* A peek that has ended printed the log from the start, without a gap,    *)
(* and at least what was there when it opened it, even if the task was     *)
(* inactive from the start, unless a resume truncated the log meanwhile    *)
(* (watch_file.go:23, per_task_logger.go:80).                              *)
PeekShowsContents ==
  \A f \in Frontends :
    LET p == peek[f]
    IN  /\ p.file = "done"
        /\ p.life > 0
        /\ log[Target(f)].life = p.life
        => /\ Len(p.shown) >= p.opened
           /\ \A n \in DOMAIN p.shown : p.shown[n] = <<p.life, n>>

(* A peek that could open the log stays as long as the task is active and  *)
(* the backend lives: neither goroutine ends it (frontend/commands.go:442).*)
StaysIfActive(f) ==
  /\ Exits(f, {"peek"})
  /\ front'[f].status = "one found"
  /\ history[f].start = "active"
  /\ ~history[f].moved
  => ~up

PeekStays == [][\A f \in Frontends : StaysIfActive(f)]_vars

(* A run, resume or stop exits with 0 if and only if the backend did it,   *)
(* except that the connection may be lost before the answer and a resume   *)
(* that reached no backend exits with 0 as well (cli.go:282).              *)
TellsOutcome(f) ==
  Exits(f, {"run", "resume", "stop"}) =>
    IF history[f].accepted
    THEN front'[f].exit = 0 \/ front'[f].status = "lost"
    ELSE \/ front'[f].exit = 1
         \/ front[f].line.cmd = "resume" /\ front'[f].status = "unreachable"

ExitStatusTells == [][\A f \in Frontends : TellsOutcome(f)]_vars

(* If the task stood the same from the call of stop or resume to its exit, *)
(* the answer says how it stood (backend/commands.go:324, scheduler.go:116 *)
(* and 191); a stop of a forgotten task or of the id of a rejected run is  *)
(* answered as already stopped.                                            *)
Truthful(f) ==
  LET start == history[f].start
      status == front'[f].status
  IN  /\ Exits(f, {"stop", "resume"})
      /\ status \in Statuses
      /\ ~history[f].moved
      => IF front[f].line.cmd = "stop"
         THEN /\ status = "success" <=> start = "active"
              /\ status = "notFound" => start = "unknown"
         ELSE /\ status = "notDeactivated" <=> start = "active"
              /\ status = "notFound" <=> start = "unknown"

AnswersTruthful == [][\A f \in Frontends : Truthful(f)]_vars

(* What a frontend is told is in the messages that spieven log shows, or   *)
(* was and is too old: the message comes before the answer, although both  *)
(* come after the lock is released (backend/commands.go:189).              *)
ToldIsLogged ==
  \A f \in Frontends :
    /\ front[f].line.cmd \in {"run", "resume", "stop"}
    /\ conn[f].stage = "answered"
    => messages[f] # "none"

(* A peek of a task that is not active, or of a backend that is gone,      *)
(* returns, unless the task becomes active again first.                    *)
PeekEnds ==
  \A f \in Frontends :
    (front[f].pc = "peek" /\ (~up \/ ~Active(Target(f))))
      ~> (front[f].pc # "peek" \/ (up /\ Active(Target(f))))

(* cli.go:228: if TASK_ID is not specified, all tasks are refreshed: none  *)
(* of them goes on waiting between two executions.                         *)
RefreshReachesAll ==
  [][\A f \in Frontends :
       /\ front[f].line.cmd = "refresh"
       /\ front[f].line.id = NoId
       /\ front[f].line.names = {}
       /\ front[f].line.tags = {}
       /\ conn[f].stage = "sent"
       /\ conn'[f].stage = "answered"
       => \A i \in DOMAIN task : Active(i) => task'[i].phase # "waiting"]_vars

=============================================================================
