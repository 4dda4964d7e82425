---------------------------- MODULE FrontendProofs ----------------------------
(***************************************************************************)
(* Theorems about Frontend, for every set of frontends and of command      *)
(* lines and all bounds: what a command tells its user.                    *)
(***************************************************************************)
EXTENDS Frontend, FiniteSetTheorems, TLAPS

-----------------------------------------------------------------------------
(* The invariant *)

NoLine == [cmd |-> "none"]

Naming == {"peek", "stop", "resume"}

Deciding == {"run", "resume", "stop"}

Outcomes == Statuses \union {"none", "active", "inactive",
                             "none found", "one found", "many found"}

Endings == Outcomes \union {"usage", "unreachable", "invalid", "lost", "not opened"}

Fronts == [pc : {"exited", "connect", "send", "wait", "peek"},
           line : CommandLines \union {NoLine},
           status : Endings,
           exit : {0, 1}]

Named == {line.id : line \in {l \in CommandLines : l.cmd \in Naming}}

Conns == [stage : {"closed", "open", "sent", "unlogged", "unanswered", "answered", "lost"},
          status : Outcomes, id : Nat \union Named \union {NoId}]

Peekers == [file : {"off", "opening", "contents", "poll", "done"},
            query : {"off", "check", "asked", "done"},
            flag : BOOLEAN, life : Nat, opened : Nat, shown : Seq(Nat \X Nat)]

Histories == [start : {"unknown", "active", "deactivated"},
              moved : BOOLEAN, accepted : BOOLEAN]

FrontsTyped ==
  /\ up \in BOOLEAN
  /\ messages \in [Frontends -> {"none", "listed", "trimmed"}]
  /\ front \in [Frontends -> Fronts]
  /\ conn \in [Frontends -> Conns]
  /\ peek \in [Frontends -> Peekers]
  /\ history \in [Frontends -> Histories]

TasksTyped ==
  /\ NextId \in 0 .. MaxTasks
  /\ DOMAIN task = 0 .. NextId - 1
  /\ task \in [DOMAIN task -> Task]
  /\ DOMAIN log = DOMAIN task
  /\ \A i \in DOMAIN task : log[i] \in [life : 0 .. MaxLives[i], lines : 0 .. MaxLines[i]]

(* How far a frontend is, its end of the connection and its goroutines.    *)
InStep(f) ==
  /\ front[f].pc = "exited" => front[f].line = NoLine /\ ~history[f].accepted
  /\ front[f].pc # "exited" => front[f].line \in CommandLines
  /\ front[f].pc \in {"exited", "connect"} => conn[f].stage = "closed"
  /\ front[f].pc = "send" => conn[f].stage \in {"open", "lost"}
  /\ front[f].pc = "wait" =>
       conn[f].stage \in {"sent", "unlogged", "unanswered", "answered", "lost"}
  /\ front[f].pc = "peek" => conn[f].stage \in {"open", "sent", "answered", "lost"}
  /\ conn[f].stage \in {"unlogged", "unanswered"} => front[f].line.cmd \in Deciding
  /\ conn[f].stage = "lost" => ~up
  /\ front[f].pc = "peek" => peek[f].file # "off" /\ peek[f].query # "off"
  /\ front[f].pc # "peek" => peek[f] = NoPeek

(* The outcome is decided once, and only then.                             *)
Decisive(f) ==
  front[f].line.cmd \in Deciding =>
    /\ front[f].pc \in {"connect", "send"} => ~history[f].accepted
    /\ front[f].pc = "wait" /\ conn[f].stage = "sent" => ~history[f].accepted
    /\ front[f].pc = "wait" /\ conn[f].stage \in {"unlogged", "unanswered", "answered"} =>
         (history[f].accepted <=> conn[f].status = "success")
    /\ front[f].pc = "peek" => history[f].accepted /\ front[f].status = "success"
    /\ conn[f].stage \in {"unanswered", "answered"} \/ front[f].pc = "peek" =>
         messages[f] # "none"

(* The task that a peek shows exists.                                      *)
HasTarget(f) ==
  /\ front[f].line.cmd \in {"run", "resume"} /\ front[f].pc = "wait"
       /\ conn[f].stage \in {"unlogged", "unanswered", "answered"}
       /\ conn[f].status = "success" => Target(f) \in DOMAIN task
  /\ front[f].pc = "peek" =>
       /\ front[f].line.cmd \in {"run", "resume", "peek"}
       /\ Target(f) \in DOMAIN task

(* How the task stood at the start of a command, and whether it still does.*)
Stood(f) ==
  LET start == history[f].start
      id == front[f].line.id
      decided == conn[f].stage \in {"unlogged", "unanswered", "answered"}
  IN  front[f].line.cmd \in Naming =>
        /\ start # "unknown" => id \in DOMAIN task
        /\ /\ ~history[f].moved
           /\ \/ front[f].line.cmd = "peek"
              \/ front[f].pc \in {"connect", "send"}
              \/ front[f].pc = "wait" /\ conn[f].stage = "sent"
           => Standing(id) = start
        /\ ~history[f].moved /\ front[f].pc = "wait" /\ decided
           => /\ front[f].line.cmd = "stop" =>
                   /\ conn[f].status = "success" <=> start = "active"
                   /\ conn[f].status = "notFound" => start = "unknown"
              /\ front[f].line.cmd = "resume" =>
                   /\ conn[f].status = "notDeactivated" <=> start = "active"
                   /\ conn[f].status = "notFound" <=> start = "unknown"
        /\ ~history[f].moved /\ front[f].pc = "peek" /\ front[f].line.cmd = "resume"
           => start = "deactivated"

(* What a peek was told of its task before it shows the log.               *)
FoundTask(f) ==
  front[f].line.cmd = "peek" =>
    /\ front[f].pc = "wait" /\ conn[f].stage = "answered"
       => /\ conn[f].status \in {"none found", "one found"}
          /\ conn[f].status = "one found" => front[f].line.id \in DOMAIN task
          /\ conn[f].status = "none found" /\ history[f].start # "unknown"
             => ~Known(front[f].line.id)
    /\ front[f].pc = "peek" => front[f].status = "one found"

(* A peek of a task that stays active is not told to stop.                 *)
Stays(f) ==
  /\ front[f].line.cmd = "peek" /\ front[f].pc = "peek"
  /\ history[f].start = "active" /\ ~history[f].moved /\ up
  => /\ conn[f].stage = "answered" => conn[f].status = "active"
     /\ peek[f].flag => peek[f].file = "done" /\ peek[f].life = 0
     /\ peek[f].query = "done" => peek[f].flag

(* What was printed is what the log holds, unless it was truncated.        *)
Shows(f) ==
  LET p == peek[f]
      file == log[Target(f)]
  IN  front[f].pc = "peek" =>
        /\ p.file = "opening" => p.life = 0 /\ p.shown = <<>>
        /\ p.life > 0 => file.life >= p.life
        /\ p.life > 0 /\ file.life = p.life =>
             /\ p.opened <= file.lines
             /\ \A n \in DOMAIN p.shown : p.shown[n] = <<p.life, n>>
             /\ p.file \in {"poll", "done"} => Len(p.shown) >= p.opened

Told(f) ==
  /\ InStep(f)
  /\ Decisive(f)
  /\ HasTarget(f)
  /\ Stood(f)
  /\ FoundTask(f)
  /\ Stays(f)
  /\ Shows(f)

FrontInv ==
  /\ FrontsTyped
  /\ TasksTyped
  /\ \A f \in Frontends : Told(f)

LEMMA TaskTypes ==
  ASSUME TasksTyped, NEW i \in DOMAIN task
  PROVE  /\ i \in 0 .. MaxTasks - 1 /\ MaxLives[i] \in Nat /\ MaxLines[i] \in Nat
         /\ task[i] \in Task
         /\ log[i].life \in 0 .. MaxLives[i] /\ log[i].lines \in 0 .. MaxLines[i]
<1>1. i \in 0 .. MaxTasks - 1
  BY BoundAssumption DEF TasksTyped
<1>. QED  BY <1>1, BoundAssumption DEF TasksTyped

LEMMA InitFrontInv == Init => FrontInv
<1>. SUFFICES ASSUME Init PROVE FrontInv
  OBVIOUS
<1>1. Idle \in Fronts /\ Closed \in Conns /\ NoPeek \in Peekers /\ NoHistory \in Histories
  BY DEF Idle, Fronts, NoLine, Closed, Conns, NoPeek, Peekers, NoHistory, Histories, Outcomes,
         Endings, Statuses, RunResponseStatus, StopResponseStatus
<1>2. FrontsTyped
  BY <1>1 DEF Init, FrontsTyped
<1>3. TasksTyped
  <2>1. DOMAIN task = {} /\ DOMAIN log = {} /\ task = [i \in DOMAIN task |-> task[i]]
    BY DEF Init
  <2>2. NextId = 0
    BY <2>1, FS_EmptySet DEF NextId
  <2>3. 0 .. NextId - 1 = {} /\ NextId \in 0 .. MaxTasks
    BY <2>2, BoundAssumption
  <2>. QED  BY <2>1, <2>3 DEF TasksTyped
<1>4. ASSUME NEW f \in Frontends PROVE Told(f)
  <2>1. /\ front[f] = Idle /\ conn[f] = Closed /\ peek[f] = NoPeek
        /\ front[f].pc = "exited" /\ front[f].line = NoLine /\ front[f].line.cmd = "none"
        /\ conn[f].stage = "closed" /\ ~history[f].accepted
    BY DEF Init, Idle, NoLine, Closed, NoPeek, NoHistory
  <2>. QED
    BY <2>1 DEF Told, InStep, Decisive, HasTarget, Stood, FoundTask, Stays, Shows, Deciding,
                Naming
<1>. QED  BY <1>2, <1>3, <1>4 DEF FrontInv

-----------------------------------------------------------------------------
(* Steps that a frontend does not take itself *)

(* What others may do to the state of a frontend: remove its message, and  *)
(* note that its task stands otherwise.                                    *)
LeftAlone(f) ==
  /\ front'[f] = front[f] /\ conn'[f] = conn[f] /\ peek'[f] = peek[f]
  /\ messages[f] # "none" => messages'[f] # "none"
  /\ history'[f].start = history[f].start /\ history'[f].accepted = history[f].accepted
  /\ history[f].moved => history'[f].moved

(* What may happen to the tasks and their logs meanwhile.                  *)
TasksGoOn(f) ==
  /\ up' => up
  /\ DOMAIN task \subseteq DOMAIN task'
  /\ \A i \in DOMAIN task : Known(i)' => Known(i)
  /\ front[f].line.cmd \in Naming /\ front[f].pc # "exited" /\ ~history'[f].moved
       => Standing(front[f].line.id)' = Standing(front[f].line.id)
  /\ \A i \in DOMAIN task : \/ log'[i].life > log[i].life
                            \/ log'[i].life = log[i].life /\ log'[i].lines >= log[i].lines

LEMMA StillTold ==
  ASSUME FrontsTyped, FrontsTyped', TasksTyped, TasksTyped', NEW f \in Frontends, Told(f),
         LeftAlone(f), TasksGoOn(f)
  PROVE  Told(f)'
<1>1. /\ history[f].moved \in BOOLEAN /\ history'[f].moved \in BOOLEAN
      /\ history[f].accepted \in BOOLEAN /\ peek[f] \in Peekers /\ peek[f].life \in Nat
      /\ peek[f].opened \in Nat
  BY DEF FrontsTyped, Histories, Peekers
<1>2. Target(f)' = Target(f)
  BY DEF LeftAlone, Target
<1>3. InStep(f)'
  BY DEF Told, InStep, LeftAlone, TasksGoOn
<1>4. Decisive(f)'
  BY DEF Told, Decisive, LeftAlone
<1>5. HasTarget(f)'
  BY <1>2 DEF Told, HasTarget, LeftAlone, TasksGoOn
<1>6. Stood(f)'
  <2>1. front[f].line.cmd \in Naming => front[f].pc # "exited"
    BY DEF Told, InStep, NoLine, Naming
  <2>. QED  BY <1>1, <2>1 DEF Told, Stood, LeftAlone, TasksGoOn
<1>7. FoundTask(f)'
  <2>1. front[f].line.cmd = "peek" /\ history[f].start # "unknown"
          => front[f].line.id \in DOMAIN task
    BY DEF Told, Stood, Naming
  <2>. QED  BY <2>1 DEF Told, FoundTask, LeftAlone, TasksGoOn
<1>8. Stays(f)'
  BY <1>1 DEF Told, Stays, LeftAlone, TasksGoOn
<1>9. Shows(f)'
  <2>. SUFFICES ASSUME front[f].pc = "peek" PROVE Shows(f)'
    BY DEF Shows, LeftAlone
  <2>. DEFINE t == Target(f)
  <2>1. t \in DOMAIN task
    BY DEF Told, HasTarget
  <2>2. /\ log[t].life \in Nat /\ log[t].lines \in Nat
        /\ log'[t].life \in Nat /\ log'[t].lines \in Nat
    <3>1. t \in DOMAIN task'
      BY <2>1 DEF TasksGoOn
    <3>2. MaxLives[t] \in Nat /\ MaxLines[t] \in Nat
      BY <2>1, TaskTypes
    <3>. QED  BY <2>1, <3>1, <3>2 DEF TasksTyped
  <2>3. \/ log'[t].life > log[t].life
        \/ log'[t].life = log[t].life /\ log'[t].lines >= log[t].lines
    BY <2>1 DEF TasksGoOn
  <2>. HIDE DEF t
  <2>4. /\ peek[f].file = "opening" => peek[f].life = 0 /\ peek[f].shown = <<>>
        /\ peek[f].life > 0 => log[t].life >= peek[f].life
        /\ peek[f].life > 0 /\ log[t].life = peek[f].life =>
             /\ peek[f].opened <= log[t].lines
             /\ \A n \in DOMAIN peek[f].shown : peek[f].shown[n] = <<peek[f].life, n>>
             /\ peek[f].file \in {"poll", "done"} => Len(peek[f].shown) >= peek[f].opened
    BY DEF t, Told, Shows
  <2>5. /\ peek[f].life > 0 => log'[t].life >= peek[f].life
        /\ peek[f].life > 0 /\ log'[t].life = peek[f].life =>
             log[t].life = peek[f].life /\ peek[f].opened <= log'[t].lines
    BY <1>1, <2>2, <2>3, <2>4
  <2>6. peek'[f] = peek[f] /\ Target(f)' = t
    BY <1>2 DEF t, LeftAlone
  <2>. QED  BY <2>4, <2>5, <2>6 DEF Shows
<1>. QED  BY <1>3, <1>4, <1>5, <1>6, <1>7, <1>8, <1>9 DEF Told

(* A step of a frontend on its own state. *)
LEMMA OwnStep ==
  ASSUME FrontInv, FrontsTyped', NEW f \in Frontends, Told(f)', UNCHANGED <<up, task, log>>,
         \A g \in Frontends \ {f} :
           /\ front'[g] = front[g] /\ conn'[g] = conn[g] /\ peek'[g] = peek[g]
           /\ messages'[g] = messages[g] /\ history'[g] = history[g]
  PROVE  FrontInv'
<1>1. TasksTyped'
  BY DEF FrontInv, TasksTyped, NextId
<1>2. ASSUME NEW g \in Frontends, g # f PROVE Told(g)'
  <2>1. LeftAlone(g)
    BY <1>2 DEF LeftAlone
  <2>2. TasksGoOn(g)
    <3>1. \A i \in DOMAIN task : Known(i)' => Known(i)
      BY DEF Known
    <3>2. Standing(front[g].line.id)' = Standing(front[g].line.id)
      BY <2>1 DEF LeftAlone, Known, Standing, Active, InMemory
    <3>3. \A i \in DOMAIN task : log'[i].lines >= log[i].lines
      BY TaskTypes DEF FrontInv
    <3>. QED  BY <3>1, <3>2, <3>3 DEF TasksGoOn
  <2>. QED  BY <1>1, <2>1, <2>2, StillTold DEF FrontInv
<1>. QED  BY <1>1, <1>2 DEF FrontInv

LEMMA MovedFacts ==
  ASSUME FrontsTyped, NEW i, NEW S
  PROVE  /\ Moved(i, S) \in [Frontends -> Histories]
         /\ \A f \in Frontends :
              /\ Moved(i, S)[f].start = history[f].start
              /\ Moved(i, S)[f].accepted = history[f].accepted
              /\ history[f].moved => Moved(i, S)[f].moved
              /\ f \in S /\ front[f].pc # "exited" /\ Target(f) = i => Moved(i, S)[f].moved
<1>. SUFFICES ASSUME NEW f \in Frontends
     PROVE  /\ Moved(i, S)[f] \in Histories
            /\ Moved(i, S)[f].start = history[f].start
            /\ Moved(i, S)[f].accepted = history[f].accepted
            /\ history[f].moved => Moved(i, S)[f].moved
            /\ f \in S /\ front[f].pc # "exited" /\ Target(f) = i => Moved(i, S)[f].moved
  BY DEF Moved
<1>1. PICK m \in BOOLEAN :
        m <=> history[f].moved \/ (f \in S /\ front[f].pc # "exited" /\ Target(f) = i)
  OBVIOUS
<1>2. history[f] \in Histories /\ history[f].moved \in BOOLEAN
  BY DEF FrontsTyped, Histories
<1>3. Moved(i, S)[f] = [history[f] EXCEPT !.moved = m]
  <2>1. (history[f].moved \/ (f \in S /\ front[f].pc # "exited" /\ Target(f) = i)) = m
    BY <1>1, <1>2
  <2>. QED  BY <2>1 DEF Moved
<1>4. /\ [history[f] EXCEPT !.moved = m] \in Histories
      /\ [history[f] EXCEPT !.moved = m].start = history[f].start
      /\ [history[f] EXCEPT !.moved = m].accepted = history[f].accepted
      /\ [history[f] EXCEPT !.moved = m].moved = m
  BY <1>2 DEF Histories
<1>. QED  BY <1>1, <1>3, <1>4

(* A step of the tasks, which may change how task i stands.                *)
LEMMA TaskStep ==
  ASSUME FrontInv, NEW i, UNCHANGED <<up, messages, front, conn, peek>>,
         TasksTyped',
         history' = history \/ history' = Moved(i, Frontends),
         DOMAIN task \subseteq DOMAIN task',
         \A j \in DOMAIN task : Known(j)' => Known(j),
         \A j : Standing(j)' = Standing(j) \/ (j = i /\ history' = Moved(i, Frontends)),
         \A j \in DOMAIN task : \/ log'[j].life > log[j].life
                                \/ log'[j].life = log[j].life /\ log'[j].lines >= log[j].lines
  PROVE  FrontInv'
<1>1. history' \in [Frontends -> Histories]
      /\ \A f \in Frontends :
           /\ history'[f].start = history[f].start
           /\ history'[f].accepted = history[f].accepted
           /\ history[f].moved => history'[f].moved
           /\ history' = Moved(i, Frontends) /\ front[f].pc # "exited" /\ Target(f) = i
                => history'[f].moved
  <2>1. CASE history' = history
    <3>1. history' = Moved(i, Frontends) =>
            \A f \in Frontends : front[f].pc # "exited" /\ Target(f) = i => history'[f].moved
      BY MovedFacts DEF FrontInv
    <3>. QED  BY <2>1, <3>1 DEF FrontInv, FrontsTyped
  <2>2. CASE history' = Moved(i, Frontends)
    BY <2>2, MovedFacts DEF FrontInv
  <2>. QED  BY <2>1, <2>2
<1>2. FrontsTyped'
  BY <1>1 DEF FrontInv, FrontsTyped
<1>3. ASSUME NEW f \in Frontends PROVE Told(f)'
  <2>1. LeftAlone(f)
    BY <1>1 DEF LeftAlone
  <2>2. front[f].line.cmd \in Naming => Target(f) = front[f].line.id
    BY DEF Target, Naming
  <2>3. TasksGoOn(f)
    BY <1>1, <2>2 DEF TasksGoOn
  <2>. QED  BY <1>2, <2>1, <2>3, StillTold DEF FrontInv
<1>. QED  BY <1>2, <1>3 DEF FrontInv

(* How a task stands depends on its place and on whether it stopped. *)
LEMMA SameStanding ==
  ASSUME DOMAIN task' = DOMAIN task, NEW j,
         j \in DOMAIN task =>
           /\ task'[j].place = task[j].place
           /\ task'[j].phase = "stopped" <=> task[j].phase = "stopped"
  PROVE  /\ Standing(j)' = Standing(j)
         /\ Known(j)' => Known(j)
<1>1. (Known(j)' <=> Known(j)) /\ (Active(j)' <=> Active(j))
  BY DEF Known, Active, InMemory
<1>. QED  BY <1>1 DEF Standing

LEMMA TaskPhase ==
  ASSUME NEW t \in Task, NEW phase \in {"starting", "running", "waiting", "stopped"}
  PROVE  LET u == [t EXCEPT !.phase = phase]
         IN  u \in Task /\ u.phase = phase /\ u.place = t.place /\ u.body = t.body
BY DEF Task

LEMMA TaskPlace ==
  ASSUME NEW t \in Task, NEW place \in {"memory", "file", "rejected", "forgotten"}
  PROVE  LET u == [t EXCEPT !.place = place]
         IN  u \in Task /\ u.phase = t.phase /\ u.place = place /\ u.body = t.body
BY DEF Task

LEMMA TaskStartsKeeps ==
  ASSUME FrontInv, NEW i \in DOMAIN task, TaskStarts(i)
  PROVE  FrontInv'
<1>. DEFINE t == [task[i] EXCEPT !.phase = "running"]
            file == [life |-> log[i].life + 1, lines |-> 0]
<1>1. TasksTyped /\ task[i] \in Task /\ log[i].life \in Nat /\ task[i].phase = "starting"
  BY TaskTypes DEF FrontInv, TaskStarts
<1>2. t \in Task /\ t.phase = "running" /\ t.place = task[i].place
  BY <1>1, TaskPhase
<1>3. file \in [life : 0 .. MaxLives[i], lines : 0 .. MaxLines[i]] /\ file.life > log[i].life
  <2>1. MaxLives[i] \in Nat /\ MaxLines[i] \in Nat
    BY <1>1, TaskTypes
  <2>. QED  BY <1>1, <2>1 DEF TaskStarts
<1>4. /\ task' = [task EXCEPT ![i] = t] /\ log' = [log EXCEPT ![i] = file]
      /\ UNCHANGED <<up, messages, front, conn, peek, history>>
  BY DEF TaskStarts
<1>. HIDE DEF t, file
<1>5. DOMAIN task' = DOMAIN task /\ DOMAIN log' = DOMAIN log
  BY <1>4
<1>6. TasksTyped'
  BY <1>1, <1>2, <1>3, <1>4, <1>5 DEF TasksTyped, NextId
<1>7. \A j : Standing(j)' = Standing(j) /\ (Known(j)' => Known(j))
  BY <1>1, <1>2, <1>4, <1>5, SameStanding
<1>8. \A j \in DOMAIN task : \/ log'[j].life > log[j].life
                             \/ log'[j].life = log[j].life /\ log'[j].lines >= log[j].lines
  <2>. SUFFICES ASSUME NEW j \in DOMAIN task
       PROVE  \/ log'[j].life > log[j].life
              \/ log'[j].life = log[j].life /\ log'[j].lines >= log[j].lines
    OBVIOUS
  <2>1. CASE j = i
    BY <1>1, <1>3, <1>4, <2>1 DEF TasksTyped
  <2>2. CASE j # i
    BY <1>1, <1>4, <2>2, TaskTypes DEF TasksTyped
  <2>. QED  BY <2>1, <2>2
<1>. QED  BY <1>4, <1>5, <1>6, <1>7, <1>8, TaskStep

LEMMA TaskLogsKeeps ==
  ASSUME FrontInv, NEW i \in DOMAIN task, TaskLogs(i)
  PROVE  FrontInv'
<1>. DEFINE file == [log[i] EXCEPT !.lines = log[i].lines + 1]
<1>1. TasksTyped /\ log[i].life \in 0 .. MaxLives[i] /\ log[i].lines \in Nat
      /\ log[i] \in [life : 0 .. MaxLives[i], lines : 0 .. MaxLines[i]]
  BY TaskTypes DEF FrontInv, TasksTyped
<1>2. /\ file \in [life : 0 .. MaxLives[i], lines : 0 .. MaxLines[i]]
      /\ file.life = log[i].life /\ file.lines >= log[i].lines
  <2>1. MaxLines[i] \in Nat
    BY <1>1, TaskTypes
  <2>2. log[i].lines + 1 \in 0 .. MaxLines[i]
    BY <1>1, <2>1 DEF TaskLogs
  <2>. QED  BY <1>1, <2>2
<1>3. /\ log' = [log EXCEPT ![i] = file]
      /\ UNCHANGED <<up, task, messages, front, conn, peek, history>>
  BY DEF TaskLogs
<1>. HIDE DEF file
<1>4. DOMAIN task' = DOMAIN task /\ DOMAIN log' = DOMAIN log
  BY <1>3
<1>5. TasksTyped'
  BY <1>1, <1>2, <1>3, <1>4 DEF TasksTyped, NextId
<1>6. \A j : Standing(j)' = Standing(j) /\ (Known(j)' => Known(j))
  BY <1>3, <1>4, SameStanding
<1>7. \A j \in DOMAIN task : \/ log'[j].life > log[j].life
                             \/ log'[j].life = log[j].life /\ log'[j].lines >= log[j].lines
  <2>. SUFFICES ASSUME NEW j \in DOMAIN task
       PROVE  log'[j].life = log[j].life /\ log'[j].lines >= log[j].lines
    OBVIOUS
  <2>1. CASE j = i
    BY <1>1, <1>2, <1>3, <2>1 DEF TasksTyped
  <2>2. CASE j # i
    BY <1>1, <1>3, <2>2, TaskTypes DEF TasksTyped
  <2>. QED  BY <2>1, <2>2
<1>. QED  BY <1>3, <1>4, <1>5, <1>6, <1>7, TaskStep

LEMMA TaskProceedsKeeps ==
  ASSUME FrontInv, NEW i \in DOMAIN task, TaskProceeds(i)
  PROVE  FrontInv'
<1>1. PICK phase \in {"running", "waiting", "stopped"} :
        /\ task' = [task EXCEPT ![i] = [task[i] EXCEPT !.phase = phase]]
        /\ phase # "stopped" => history' = history
        /\ phase = "stopped" => history' = Moved(i, Frontends)
  <2>1. CASE /\ task' = [task EXCEPT ![i].phase = "stopped"]
             /\ history' = Moved(i, Frontends)
    BY <2>1
  <2>2. CASE /\ task' = [task EXCEPT ![i].phase = IF task[i].phase = "running" THEN "waiting"
                                                  ELSE "running"]
             /\ UNCHANGED history
    BY <2>2
  <2>. QED  BY <2>1, <2>2 DEF TaskProceeds
<1>. DEFINE t == [task[i] EXCEPT !.phase = phase]
<1>2. TasksTyped /\ task[i] \in Task /\ task[i].phase # "stopped"
  BY TaskTypes DEF FrontInv, TaskProceeds
<1>3. t \in Task /\ t.phase = phase /\ t.place = task[i].place
  <2>1. phase \in {"starting", "running", "waiting", "stopped"}
    BY <1>1
  <2>. QED  BY <1>2, <2>1, TaskPhase
<1>4. /\ task' = [task EXCEPT ![i] = t]
      /\ UNCHANGED <<up, log, messages, front, conn, peek>>
  BY <1>1 DEF TaskProceeds
<1>. HIDE DEF t
<1>5. DOMAIN task' = DOMAIN task
  BY <1>4
<1>6. TasksTyped'
  BY <1>2, <1>3, <1>4, <1>5 DEF TasksTyped, NextId
<1>7. \A j : Standing(j)' = Standing(j) \/ (j = i /\ history' = Moved(i, Frontends))
  <2>. SUFFICES ASSUME NEW j, ~(j = i /\ history' = Moved(i, Frontends))
       PROVE  Standing(j)' = Standing(j)
    OBVIOUS
  <2>1. j \in DOMAIN task => /\ task'[j].place = task[j].place
                             /\ task'[j].phase = "stopped" <=> task[j].phase = "stopped"
    BY <1>1, <1>2, <1>3, <1>4
  <2>. QED  BY <1>5, <2>1, SameStanding
<1>8. \A j \in DOMAIN task : Known(j)' => Known(j)
  BY <1>2, <1>3, <1>4, <1>5 DEF Known
<1>9. \A j \in DOMAIN task : log'[j].life = log[j].life /\ log'[j].lines >= log[j].lines
  BY <1>2, <1>4, TaskTypes
<1>. QED  BY <1>1, <1>4, <1>5, <1>6, <1>7, <1>8, <1>9, TaskStep

(* Nothing but the messages and the backend itself changes. *)
LEMMA BackgroundStep ==
  ASSUME FrontInv, UNCHANGED <<task, log, front, conn, peek, history>>,
         up' \in BOOLEAN, up' => up, messages' \in [Frontends -> {"none", "listed", "trimmed"}],
         \A f \in Frontends : messages[f] # "none" => messages'[f] # "none"
  PROVE  FrontInv'
<1>1. FrontsTyped' /\ TasksTyped'
  BY DEF FrontInv, FrontsTyped, TasksTyped, NextId
<1>2. ASSUME NEW f \in Frontends PROVE Told(f)'
  <2>1. LeftAlone(f)
    BY DEF LeftAlone
  <2>2. \A j : Standing(j)' = Standing(j) /\ (Known(j)' => Known(j))
    BY SameStanding
  <2>3. \A i \in DOMAIN task : log'[i].lines >= log[i].lines
    BY TaskTypes DEF FrontInv
  <2>4. TasksGoOn(f)
    BY <2>2, <2>3 DEF TasksGoOn
  <2>. QED  BY <1>1, <2>1, <2>4, StillTold DEF FrontInv
<1>. QED  BY <1>1, <1>2 DEF FrontInv

LEMMA TrimTickKeeps ==
  ASSUME FrontInv, TrimTick
  PROVE  FrontInv'
<1>1. ASSUME NEW i \in DOMAIN task, InMemory(i), ~Active(i),
             task' = [task EXCEPT ![i].place = "file"], UNCHANGED messages
      PROVE  FrontInv'
  <2>. DEFINE t == [task[i] EXCEPT !.place = "file"]
  <2>1. TasksTyped /\ task[i] \in Task /\ task[i].phase = "stopped" /\ task[i].place = "memory"
    BY <1>1, TaskTypes DEF FrontInv, Active, InMemory
  <2>2. t \in Task /\ t.phase = "stopped" /\ t.place = "file"
    BY <2>1, TaskPlace
  <2>3. /\ task' = [task EXCEPT ![i] = t]
        /\ UNCHANGED <<up, log, messages, front, conn, peek, history>>
    BY <1>1 DEF TrimTick
  <2>. HIDE DEF t
  <2>4. DOMAIN task' = DOMAIN task
    BY <2>3
  <2>5. TasksTyped'
    BY <2>1, <2>2, <2>3, <2>4 DEF TasksTyped, NextId
  <2>6. \A j : (Known(j)' <=> Known(j)) /\ (Active(j)' <=> Active(j))
    BY <2>1, <2>2, <2>3, <2>4 DEF Known, Active, InMemory
  <2>7. \A j : Standing(j)' = Standing(j)
    BY <2>6 DEF Standing
  <2>8. \A j \in DOMAIN task : log'[j].life = log[j].life /\ log'[j].lines >= log[j].lines
    BY <2>1, <2>3, TaskTypes
  <2>. QED  BY <2>3, <2>4, <2>5, <2>6, <2>7, <2>8, TaskStep
<1>2. ASSUME NEW f \in Frontends, messages[f] = "listed",
             messages' = [messages EXCEPT ![f] = "trimmed"], UNCHANGED task
      PROVE  FrontInv'
  <2>1. UNCHANGED <<task, log, front, conn, peek, history>> /\ up' \in BOOLEAN /\ (up' => up)
    BY <1>2 DEF TrimTick, FrontInv, FrontsTyped
  <2>2. /\ messages' \in [Frontends -> {"none", "listed", "trimmed"}]
        /\ \A g \in Frontends : messages[g] # "none" => messages'[g] # "none"
    BY <1>2 DEF FrontInv, FrontsTyped
  <2>. QED  BY <2>1, <2>2, BackgroundStep
<1>. QED  BY <1>1, <1>2 DEF TrimTick, Trim

LEMMA KillKeeps ==
  ASSUME FrontInv, Kill
  PROVE  FrontInv'
BY BackgroundStep DEF Kill, FrontInv, FrontsTyped

-----------------------------------------------------------------------------
(* Running and resuming tasks *)

LEMMA RunStatusesType ==
  ASSUME NEW body, NEW i
  PROVE  RunStatuses(body, i) \subseteq {"alreadyRunning", "nameRunning", "success",
                                         "invalidDisplay"}
BY DEF RunStatuses

LEMMA TryRunTaskFacts ==
  ASSUME TasksTyped, NEW l \in CommandLines \union OtherCommands, l.cmd = "run", NEW status,
         TryRunTask(RunRequestBody(l), status)
  PROVE  /\ TasksTyped'
         /\ NextId \in Nat /\ NextId \notin DOMAIN task
         /\ DOMAIN task' = DOMAIN task \union {NextId}
         /\ \A j \in DOMAIN task : task'[j] = task[j] /\ log'[j] = log[j]
         /\ task'[NextId].place = IF status = "success" THEN "memory" ELSE "rejected"
         /\ status \in {"alreadyRunning", "nameRunning", "success", "invalidDisplay"}
<1>. DEFINE n == NextId
            t == [body |-> RunRequestBody(l), phase |-> "starting",
                  place |-> IF status = "success" THEN "memory" ELSE "rejected"]
            file == [life |-> 0, lines |-> 0]
<1>1. /\ n \in Nat /\ n < MaxTasks /\ MaxTasks \in Nat /\ DOMAIN task = 0 .. n - 1
      /\ DOMAIN log = 0 .. n - 1
      /\ task' = With(task, n, t) /\ log' = With(log, n, file)
      /\ status \in RunStatuses(RunRequestBody(l), n)
  BY BoundAssumption DEF TryRunTask, TasksTyped
<1>2. t \in Task /\ t.place = IF status = "success" THEN "memory" ELSE "rejected"
  BY DEF Task
<1>3. MaxLives[n] \in Nat /\ MaxLines[n] \in Nat
  <2>1. n \in 0 .. MaxTasks - 1
    BY <1>1
  <2>. QED  BY <2>1, BoundAssumption
<1>4. file \in [life : 0 .. MaxLives[n], lines : 0 .. MaxLines[n]]
  BY <1>3
<1>. HIDE DEF t, file
<1>5. n \notin DOMAIN task /\ (DOMAIN task) \union {n} = 0 .. n
  BY <1>1
<1>6. DOMAIN task' = 0 .. n /\ DOMAIN log' = 0 .. n
  BY <1>1, <1>5 DEF With
<1>7. /\ task'[n] = t /\ log'[n] = file
      /\ \A j \in DOMAIN task : task'[j] = task[j] /\ log'[j] = log[j]
  BY <1>1, <1>5 DEF With
<1>8. NextId' = n + 1
  <2>1. Cardinality(0 .. n) = n + 1
    BY <1>1, FS_Interval
  <2>. QED  BY <1>6, <2>1 DEF NextId
<1>9. TasksTyped'
  <2>1. NextId' \in 0 .. MaxTasks /\ DOMAIN task' = 0 .. NextId' - 1
    BY <1>1, <1>6, <1>8
  <2>2. task' \in [DOMAIN task' -> Task]
    <3>1. task' = [y \in DOMAIN task \union {n} |-> IF y = n THEN t ELSE task[y]]
      BY <1>1 DEF With
    <3>2. \A y \in DOMAIN task : task[y] \in Task
      BY DEF TasksTyped
    <3>. QED  BY <1>2, <3>1, <3>2
  <2>3. \A i \in DOMAIN task' : log'[i] \in [life : 0 .. MaxLives[i], lines : 0 .. MaxLines[i]]
    BY <1>4, <1>5, <1>6, <1>7 DEF TasksTyped
  <2>. QED  BY <1>6, <2>1, <2>2, <2>3 DEF TasksTyped
<1>. QED  BY <1>1, <1>2, <1>5, <1>6, <1>7, <1>9, RunStatusesType

(* A task that was started, or rejected, is one more. *)
LEMMA TryRunTaskStanding ==
  ASSUME TasksTyped, NEW l \in CommandLines \union OtherCommands, l.cmd = "run", NEW status,
         TryRunTask(RunRequestBody(l), status)
  PROVE  /\ \A j : j # NextId \/ status # "success" => Standing(j)' = Standing(j)
         /\ \A j \in DOMAIN task : Known(j)' => Known(j)
         /\ \A j \in DOMAIN task : log'[j].life = log[j].life /\ log'[j].lines >= log[j].lines
<1>. DEFINE n == NextId
<1>1. /\ n \notin DOMAIN task /\ DOMAIN task' = DOMAIN task \union {n}
      /\ \A j \in DOMAIN task : task'[j] = task[j] /\ log'[j] = log[j]
      /\ task'[n].place = IF status = "success" THEN "memory" ELSE "rejected"
  BY TryRunTaskFacts
<1>. HIDE DEF n
<1>2. ASSUME NEW j, j # n \/ status # "success" PROVE Standing(j)' = Standing(j)
  <2>1. (Known(j)' <=> Known(j)) /\ (Active(j)' <=> Active(j))
    BY <1>1, <1>2 DEF Known, Active, InMemory
  <2>. QED  BY <2>1 DEF Standing
<1>3. \A j \in DOMAIN task : Known(j)' => Known(j)
  BY <1>1 DEF Known
<1>4. \A j \in DOMAIN task : log'[j].life = log[j].life /\ log'[j].lines >= log[j].lines
  BY <1>1, TaskTypes
<1>. QED  BY <1>2, <1>3, <1>4 DEF n

LEMMA TryResumeTaskFacts ==
  ASSUME TasksTyped, NEW i, NEW status, TryResumeTask(i, status), UNCHANGED log
  PROVE  /\ TasksTyped' /\ DOMAIN task' = DOMAIN task
         /\ \A j : j # i => Standing(j)' = Standing(j)
         /\ \A j \in DOMAIN task : Known(j)' => Known(j)
         /\ \A j \in DOMAIN task : log'[j].life = log[j].life /\ log'[j].lines >= log[j].lines
         /\ status = "notFound" <=> Standing(i) = "unknown"
         /\ status = "notDeactivated" <=> Standing(i) = "active"
         /\ status = "success" => i \in DOMAIN task
         /\ status \in RunResponseStatus
<1>1. \A j \in DOMAIN task : log'[j].life = log[j].life /\ log'[j].lines >= log[j].lines
  BY TaskTypes
<1>2. CASE ~Known(i) /\ status = "notFound" /\ UNCHANGED task
  <2>1. Standing(i) = "unknown" /\ \A j : Standing(j)' = Standing(j) /\ (Known(j)' => Known(j))
    BY <1>2, SameStanding DEF Standing
  <2>. QED  BY <1>1, <1>2, <2>1 DEF TasksTyped, NextId, RunResponseStatus
<1>3. CASE Known(i) /\ Active(i) /\ status = "notDeactivated" /\ UNCHANGED task
  <2>1. Standing(i) = "active" /\ \A j : Standing(j)' = Standing(j) /\ (Known(j)' => Known(j))
    BY <1>3, SameStanding DEF Standing
  <2>. QED  BY <1>1, <1>3, <2>1 DEF TasksTyped, NextId, RunResponseStatus
<1>4. CASE /\ Known(i) /\ ~Active(i)
           /\ status \in RunStatuses(task[i].body, i)
           /\ task' = IF status = "success"
                      THEN [task EXCEPT ![i].phase = "starting", ![i].place = "memory"]
                      ELSE [task EXCEPT ![i].place = "forgotten"]
  <2>1. Standing(i) = "deactivated" /\ i \in DOMAIN task /\ task[i] \in Task
    BY <1>4, TaskTypes DEF Standing, Known
  <2>2. PICK t \in Task : task' = [task EXCEPT ![i] = t]
    <3>1. CASE status # "success"
      BY <1>4, <2>1, <3>1, TaskPlace
    <3>2. CASE status = "success"
      <4>. DEFINE u == [task[i] EXCEPT !.phase = "starting"]
      <4>1. u \in Task
        BY <2>1, TaskPhase
      <4>2. task' = [task EXCEPT ![i] = [u EXCEPT !.place = "memory"]]
        BY <1>4, <2>1, <3>2
      <4>. QED  BY <4>1, <4>2, TaskPlace
    <3>. QED  BY <3>1, <3>2
  <2>3. DOMAIN task' = DOMAIN task
    BY <2>2
  <2>4. TasksTyped'
    BY <2>1, <2>2, <2>3 DEF TasksTyped, NextId
  <2>5. \A j : j # i => Standing(j)' = Standing(j) /\ (Known(j)' => Known(j))
    BY <2>2, <2>3, SameStanding
  <2>6. status \in {"alreadyRunning", "nameRunning", "success", "invalidDisplay"}
    BY <1>4, RunStatusesType
  <2>. QED  BY <1>1, <1>4, <2>1, <2>3, <2>4, <2>5, <2>6 DEF RunResponseStatus
<1>. QED  BY <1>2, <1>3, <1>4 DEF TryResumeTask

LEMMA HandleOtherKeeps ==
  ASSUME FrontInv, HandleOther
  PROVE  FrontInv'
<1>1. UNCHANGED <<up, messages, front, conn, peek>> /\ TasksTyped
  BY DEF HandleOther, FrontInv
<1>2. ASSUME NEW l \in OtherCommands, NEW status, l.cmd = "run",
             TryRunTask(RunRequestBody(l), status), history' = Moved(NextId, Frontends)
      PROVE  FrontInv'
  <2>. DEFINE n == NextId
  <2>1. TasksTyped' /\ DOMAIN task \subseteq DOMAIN task'
    BY <1>1, <1>2, TryRunTaskFacts
  <2>2. /\ \A j : j # n => Standing(j)' = Standing(j)
        /\ \A j \in DOMAIN task : Known(j)' => Known(j)
        /\ \A j \in DOMAIN task : log'[j].life = log[j].life /\ log'[j].lines >= log[j].lines
    BY <1>1, <1>2, TryRunTaskStanding
  <2>. HIDE DEF n
  <2>3. history' = Moved(n, Frontends)
    BY <1>2 DEF n
  <2>. QED  BY <1>1, <2>1, <2>2, <2>3, TaskStep
<1>3. ASSUME NEW l \in OtherCommands, NEW status, TryResumeTask(l.id, status),
             history' = Moved(l.id, Frontends), UNCHANGED log
      PROVE  FrontInv'
  <2>1. /\ TasksTyped' /\ DOMAIN task \subseteq DOMAIN task'
        /\ \A j : j # l.id => Standing(j)' = Standing(j)
        /\ \A j \in DOMAIN task : Known(j)' => Known(j)
        /\ \A j \in DOMAIN task : log'[j].life = log[j].life /\ log'[j].lines >= log[j].lines
    BY <1>1, <1>3, TryResumeTaskFacts
  <2>. QED  BY <1>1, <1>3, <2>1, TaskStep
<1>. QED  BY <1>2, <1>3 DEF HandleOther

-----------------------------------------------------------------------------
(* The steps of a frontend up to its request *)

LEMMA ExitFacts ==
  ASSUME FrontsTyped, NEW f \in Frontends, NEW status \in Endings, NEW exit \in {0, 1},
         Exit(f, status, exit), UNCHANGED up
  PROVE  /\ FrontsTyped'
         /\ front'[f].pc = "exited" /\ front'[f].status = status /\ front'[f].exit = exit
         /\ front'[f].line = NoLine
         /\ conn'[f] = Closed /\ peek'[f] = NoPeek /\ history'[f] = NoHistory
         /\ \A g \in Frontends \ {f} :
              /\ front'[g] = front[g] /\ conn'[g] = conn[g] /\ peek'[g] = peek[g]
              /\ messages'[g] = messages[g] /\ history'[g] = history[g]
<1>. DEFINE x == [Idle EXCEPT !.status = status, !.exit = exit]
<1>1. /\ x \in Fronts /\ x.pc = "exited" /\ x.line = NoLine /\ x.status = status
      /\ x.exit = exit
  BY DEF Idle, Fronts, NoLine
<1>2. Closed \in Conns /\ NoPeek \in Peekers /\ NoHistory \in Histories
  BY DEF Closed, Conns, NoPeek, Peekers, NoHistory, Histories, Outcomes
<1>3. /\ front' = [front EXCEPT ![f] = x] /\ conn' = [conn EXCEPT ![f] = Closed]
      /\ messages' = [messages EXCEPT ![f] = "none"]
      /\ peek' = [peek EXCEPT ![f] = NoPeek] /\ history' = [history EXCEPT ![f] = NoHistory]
  BY DEF Exit
<1>. HIDE DEF x
<1>4. FrontsTyped'
  BY <1>1, <1>2, <1>3 DEF FrontsTyped
<1>. QED  BY <1>1, <1>3, <1>4 DEF FrontsTyped

LEMMA ExitKeeps ==
  ASSUME FrontInv, NEW f \in Frontends, NEW status \in Endings, NEW exit \in {0, 1},
         Exit(f, status, exit), UNCHANGED <<up, task, log>>
  PROVE  FrontInv'
<1>1. /\ FrontsTyped'
      /\ front'[f].pc = "exited" /\ front'[f].line = NoLine
      /\ conn'[f] = Closed /\ peek'[f] = NoPeek /\ history'[f] = NoHistory
      /\ \A g \in Frontends \ {f} :
           /\ front'[g] = front[g] /\ conn'[g] = conn[g] /\ peek'[g] = peek[g]
           /\ messages'[g] = messages[g] /\ history'[g] = history[g]
  BY ExitFacts DEF FrontInv
<1>2. Told(f)'
  <2>1. /\ front'[f].pc = "exited" /\ front'[f].line = NoLine /\ front'[f].line.cmd = "none"
        /\ conn'[f].stage = "closed" /\ peek'[f] = NoPeek /\ ~history'[f].accepted
    BY <1>1 DEF NoLine, Closed, NoHistory
  <2>. QED
    BY <2>1 DEF Told, InStep, Decisive, HasTarget, Stood, FoundTask, Stays, Shows, Deciding,
                Naming
<1>. QED  BY <1>1, <1>2, OwnStep

LEMMA StandingType ==
  ASSUME NEW i
  PROVE  /\ Standing(i) \in {"unknown", "active", "deactivated"}
         /\ Standing(i) # "unknown" => i \in DOMAIN task
BY DEF Standing, Known

LEMMA TasksSame ==
  ASSUME UNCHANGED task
  PROVE  /\ DOMAIN task' = DOMAIN task
         /\ \A j : /\ Standing(j)' = Standing(j)
                   /\ Known(j)' <=> Known(j)
                   /\ Active(j)' <=> Active(j)
<1>1. \A j : (Known(j)' <=> Known(j)) /\ (Active(j)' <=> Active(j))
  BY DEF Known, Active, InMemory
<1>. QED  BY <1>1 DEF Standing

LEMMA StartKeeps ==
  ASSUME FrontInv, NEW f \in Frontends, Start(f)
  PROVE  FrontInv'
<1>. DEFINE stood(line) == IF line.cmd \in Naming THEN Standing(line.id) ELSE "unknown"
<1>1. PICK line \in CommandLines :
        IF UsageError(line)
        THEN Exit(f, "usage", 1)
        ELSE /\ front' = [front EXCEPT ![f] = [Idle EXCEPT !.pc = "connect", !.line = line]]
             /\ history' = [history EXCEPT ![f].start = stood(line)]
             /\ UNCHANGED <<conn, messages, peek>>
  BY DEF Start, Naming
<1>2. UNCHANGED <<up, task, log>> /\ FrontsTyped /\ front[f].pc = "exited" /\ Told(f)
  BY DEF Start, FrontInv
<1>3. CASE UsageError(line)
  BY <1>1, <1>2, <1>3, ExitKeeps DEF Endings
<1>4. CASE ~UsageError(line)
  <2>. DEFINE x == [Idle EXCEPT !.pc = "connect", !.line = line]
              start == stood(line)
              h == [history[f] EXCEPT !.start = start]
  <2>1. start \in {"unknown", "active", "deactivated"}
    BY StandingType
  <2>2. /\ x \in Fronts /\ x.pc = "connect" /\ x.line = line
    BY DEF Idle, Fronts, Endings, Outcomes
  <2>3. history[f] \in Histories
    BY <1>2 DEF FrontsTyped
  <2>4. /\ front' = [front EXCEPT ![f] = x] /\ history' = [history EXCEPT ![f] = h]
        /\ UNCHANGED <<conn, messages, peek>>
    BY <1>1, <1>4
  <2>. HIDE DEF start, x
  <2>5. h \in Histories /\ h.start = start /\ h.accepted = history[f].accepted
    BY <2>1, <2>3 DEF Histories
  <2>. HIDE DEF h
  <2>6. /\ FrontsTyped'
        /\ front'[f] = x /\ conn'[f] = conn[f] /\ peek'[f] = peek[f] /\ history'[f] = h
        /\ \A g \in Frontends \ {f} :
             /\ front'[g] = front[g] /\ conn'[g] = conn[g] /\ peek'[g] = peek[g]
             /\ messages'[g] = messages[g] /\ history'[g] = history[g]
    BY <1>2, <2>2, <2>4, <2>5 DEF FrontsTyped
  <2>7. Told(f)'
    <3>1. /\ front'[f].pc = "connect" /\ front'[f].line = line /\ line \in CommandLines
          /\ conn'[f].stage = "closed" /\ peek'[f] = NoPeek /\ ~history'[f].accepted
          /\ history'[f].start = start
      BY <1>2, <2>2, <2>5, <2>6 DEF Told, InStep
    <3>2. Standing(line.id)' = Standing(line.id) /\ DOMAIN task' = DOMAIN task
      BY <1>2, TasksSame
    <3>3. Stood(f)'
      <4>1. line.cmd \in Naming => start = Standing(line.id)
        BY DEF start
      <4>2. start # "unknown" => line.cmd \in Naming /\ line.id \in DOMAIN task
        BY StandingType DEF start
      <4>. QED  BY <3>1, <3>2, <4>1, <4>2 DEF Stood
    <3>. QED
      BY <3>1, <3>3 DEF Told, InStep, Decisive, HasTarget, FoundTask, Stays, Shows
  <2>. QED  BY <1>2, <2>6, <2>7, OwnStep
<1>. QED  BY <1>3, <1>4

LEMMA ConnectKeeps ==
  ASSUME FrontInv, NEW f \in Frontends, Connect(f)
  PROVE  FrontInv'
<1>1. /\ UNCHANGED <<up, task, log>> /\ FrontsTyped /\ front[f].pc = "connect" /\ Told(f)
      /\ front[f] \in Fronts /\ conn[f] \in Conns
  BY DEF Connect, FrontInv, FrontsTyped
<1>2. CASE Exit(f, "success", 0)
  BY <1>1, <1>2, ExitKeeps DEF Endings, Outcomes, Statuses, RunResponseStatus
<1>3. CASE /\ front' = [front EXCEPT ![f].pc = "send"]
           /\ conn' = [conn EXCEPT ![f].stage = "open"]
           /\ UNCHANGED <<messages, peek, history>>
  <2>. DEFINE x == [front[f] EXCEPT !.pc = "send"]
              y == [conn[f] EXCEPT !.stage = "open"]
  <2>1. x \in Fronts /\ x.pc = "send" /\ x.line = front[f].line /\ x.status = front[f].status
    BY <1>1 DEF Fronts
  <2>2. y \in Conns /\ y.stage = "open" /\ y.status = conn[f].status /\ y.id = conn[f].id
    BY <1>1 DEF Conns
  <2>3. front' = [front EXCEPT ![f] = x] /\ conn' = [conn EXCEPT ![f] = y]
    BY <1>3
  <2>. HIDE DEF x, y
  <2>4. /\ FrontsTyped' /\ front'[f] = x /\ conn'[f] = y
        /\ \A g \in Frontends \ {f} : front'[g] = front[g] /\ conn'[g] = conn[g]
    BY <1>1, <1>3, <2>1, <2>2, <2>3 DEF FrontsTyped
  <2>5. InStep(f)' /\ Decisive(f)'
    BY <1>1, <1>3, <2>1, <2>2, <2>4 DEF Told, InStep, Decisive
  <2>6. Stood(f)'
    BY <1>1, <1>3, <2>1, <2>2, <2>4, TasksSame DEF Told, Stood
  <2>7. HasTarget(f)' /\ FoundTask(f)' /\ Stays(f)' /\ Shows(f)'
    BY <2>1, <2>2, <2>4 DEF HasTarget, FoundTask, Stays, Shows
  <2>. QED  BY <1>1, <1>3, <2>4, <2>5, <2>6, <2>7, OwnStep DEF Told
<1>. QED  BY <1>2, <1>3 DEF Connect

LEMMA ConnectFailsKeeps ==
  ASSUME FrontInv, NEW f \in Frontends, ConnectFails(f)
  PROVE  FrontInv'
<1>1. ExitUnconnected(front[f].line.cmd) \in {0, 1}
  BY DEF ExitUnconnected
<1>. QED  BY <1>1, ExitKeeps DEF ConnectFails, Endings

LEMMA SendKeeps ==
  ASSUME FrontInv, NEW f \in Frontends, Send(f)
  PROVE  FrontInv'
<1>1. /\ UNCHANGED <<up, task, log>> /\ FrontsTyped /\ front[f].pc = "send" /\ Told(f)
      /\ front[f] \in Fronts /\ conn[f] \in Conns
  BY DEF Send, FrontInv, FrontsTyped
<1>2. CASE Exit(f, "invalid", 1) \/ Exit(f, "lost", 1)
  BY <1>1, <1>2, ExitKeeps DEF Endings
<1>3. CASE /\ conn[f].stage # "lost"
           /\ front' = [front EXCEPT ![f].pc = "wait"]
           /\ conn' = [conn EXCEPT ![f].stage = "sent"]
           /\ UNCHANGED <<messages, peek, history>>
  <2>. DEFINE x == [front[f] EXCEPT !.pc = "wait"]
              y == [conn[f] EXCEPT !.stage = "sent"]
  <2>1. x \in Fronts /\ x.pc = "wait" /\ x.line = front[f].line /\ x.status = front[f].status
    BY <1>1 DEF Fronts
  <2>2. y \in Conns /\ y.stage = "sent" /\ y.status = conn[f].status /\ y.id = conn[f].id
    BY <1>1 DEF Conns
  <2>3. front' = [front EXCEPT ![f] = x] /\ conn' = [conn EXCEPT ![f] = y]
    BY <1>3
  <2>. HIDE DEF x, y
  <2>4. /\ FrontsTyped' /\ front'[f] = x /\ conn'[f] = y
        /\ \A g \in Frontends \ {f} : front'[g] = front[g] /\ conn'[g] = conn[g]
    BY <1>1, <1>3, <2>1, <2>2, <2>3 DEF FrontsTyped
  <2>5. InStep(f)' /\ Decisive(f)'
    BY <1>1, <1>3, <2>1, <2>2, <2>4 DEF Told, InStep, Decisive
  <2>6. Stood(f)'
    BY <1>1, <1>3, <2>1, <2>2, <2>4, TasksSame DEF Told, Stood
  <2>7. HasTarget(f)' /\ FoundTask(f)' /\ Stays(f)' /\ Shows(f)'
    BY <2>1, <2>2, <2>4 DEF HasTarget, FoundTask, Stays, Shows
  <2>. QED  BY <1>1, <1>3, <2>4, <2>5, <2>6, <2>7, OwnStep DEF Told
<1>. QED  BY <1>2, <1>3 DEF Send

-----------------------------------------------------------------------------
(* The handlers *)

(* A step of the handler of f, which others may notice at their tasks. *)
LEMMA HandlerStep ==
  ASSUME FrontInv, FrontsTyped', TasksTyped', NEW f \in Frontends, Told(f)',
         \A g \in Frontends \ {f} : LeftAlone(g) /\ TasksGoOn(g)
  PROVE  FrontInv'
BY StillTold DEF FrontInv

LEMMA AcceptFacts ==
  ASSUME FrontsTyped, NEW f \in Frontends, NEW i, Accept(f, i)
  PROVE  /\ history' \in [Frontends -> Histories]
         /\ history'[f].accepted
         /\ \A g \in Frontends \ {f} :
              /\ history'[g].accepted = history[g].accepted
              /\ front[g].pc # "exited" /\ Target(g) = i => history'[g].moved
         /\ \A g \in Frontends : /\ history'[g].start = history[g].start
                                 /\ history[g].moved => history'[g].moved
<1>. DEFINE m == Moved(i, Frontends \ {f})
            h == [m[f] EXCEPT !.accepted = TRUE]
<1>1. /\ m \in [Frontends -> Histories]
      /\ \A g \in Frontends :
           /\ m[g].start = history[g].start
           /\ m[g].accepted = history[g].accepted
           /\ history[g].moved => m[g].moved
           /\ g \in Frontends \ {f} /\ front[g].pc # "exited" /\ Target(g) = i => m[g].moved
  BY MovedFacts
<1>2. history' = [m EXCEPT ![f] = h]
  BY DEF Accept
<1>. HIDE DEF m
<1>3. h \in Histories /\ h.accepted /\ h.start = m[f].start /\ h.moved = m[f].moved
  BY <1>1 DEF Histories
<1>. HIDE DEF h
<1>. QED  BY <1>1, <1>2, <1>3

LEMMA CmdRunKeeps ==
  ASSUME FrontInv, NEW f \in Frontends, CmdRun(f)
  PROVE  FrontInv'
<1>. DEFINE n == NextId
            line == front[f].line
<1>1. /\ FrontsTyped /\ TasksTyped /\ Told(f) /\ UNCHANGED <<up, messages, front, peek>>
      /\ front[f].pc = "wait" /\ conn[f].stage = "sent" /\ line.cmd = "run"
      /\ line \in CommandLines \union OtherCommands
  BY DEF CmdRun, Handling, FrontInv, Told, InStep
<1>2. PICK status \in RunResponseStatus :
        /\ TryRunTask(RunRequestBody(line), status)
        /\ Decided(f, status, n)
        /\ status = "success" => Accept(f, n)
        /\ status # "success" => UNCHANGED history
  BY DEF CmdRun
<1>3. /\ TasksTyped' /\ n \in Nat
      /\ DOMAIN task \subseteq DOMAIN task' /\ n \in DOMAIN task'
  BY <1>1, <1>2, TryRunTaskFacts
<1>4. /\ \A j : j # n \/ status # "success" => Standing(j)' = Standing(j)
      /\ \A j \in DOMAIN task : Known(j)' => Known(j)
      /\ \A j \in DOMAIN task : log'[j].life = log[j].life /\ log'[j].lines >= log[j].lines
  BY <1>1, <1>2, TryRunTaskStanding
<1>5. /\ history' \in [Frontends -> Histories]
      /\ history'[f].accepted <=> status = "success"
      /\ \A g \in Frontends \ {f} :
           /\ history'[g].accepted = history[g].accepted
           /\ status = "success" /\ front[g].pc # "exited" /\ Target(g) = n
                => history'[g].moved
      /\ \A g \in Frontends : /\ history'[g].start = history[g].start
                              /\ history[g].moved => history'[g].moved
  <2>1. CASE status = "success"
    BY <1>1, <1>2, <2>1, AcceptFacts
  <2>2. CASE status # "success"
    BY <1>1, <1>2, <2>2 DEF FrontsTyped, Told, Decisive, Deciding
  <2>. QED  BY <2>1, <2>2
<1>. DEFINE y == [stage |-> "unlogged", status |-> status, id |-> n]
<1>6. conn' = [conn EXCEPT ![f] = y]
  BY <1>2 DEF Decided
<1>. HIDE DEF n
<1>7. y \in Conns /\ y.stage = "unlogged" /\ y.status = status /\ y.id = n
  BY <1>3 DEF Conns, Outcomes, Statuses
<1>. HIDE DEF y
<1>8. /\ FrontsTyped' /\ conn'[f] = y
      /\ \A g \in Frontends \ {f} : conn'[g] = conn[g]
  BY <1>1, <1>5, <1>6, <1>7 DEF FrontsTyped
<1>9. Told(f)'
  <2>1. InStep(f)' /\ Decisive(f)'
    BY <1>1, <1>5, <1>7, <1>8 DEF Told, InStep, Decisive, Deciding
  <2>2. HasTarget(f)'
    BY <1>1, <1>3, <1>7, <1>8 DEF HasTarget, Target
  <2>3. Stood(f)' /\ FoundTask(f)' /\ Stays(f)' /\ Shows(f)'
    BY <1>1 DEF Stood, FoundTask, Stays, Shows, Naming
  <2>. QED  BY <2>1, <2>2, <2>3 DEF Told
<1>10. ASSUME NEW g \in Frontends, g # f PROVE LeftAlone(g) /\ TasksGoOn(g)
  <2>1. LeftAlone(g)
    BY <1>1, <1>5, <1>8, <1>10 DEF LeftAlone
  <2>2. front[g].line.cmd \in Naming => Target(g) = front[g].line.id
    BY DEF Target, Naming
  <2>3. TasksGoOn(g)
    BY <1>1, <1>3, <1>4, <1>5, <1>10, <2>2 DEF TasksGoOn
  <2>. QED  BY <2>1, <2>3
<1>. QED  BY <1>3, <1>8, <1>9, <1>10, HandlerStep

LEMMA CmdResumeKeeps ==
  ASSUME FrontInv, NEW f \in Frontends, CmdResume(f)
  PROVE  FrontInv'
<1>. DEFINE i == front[f].line.id
            line == front[f].line
<1>1. /\ FrontsTyped /\ TasksTyped /\ Told(f) /\ UNCHANGED <<up, log, messages, front, peek>>
      /\ front[f].pc = "wait" /\ conn[f].stage = "sent" /\ line.cmd = "resume"
      /\ line \in CommandLines
  BY DEF CmdResume, Handling, FrontInv, Told, InStep
<1>2. PICK status \in RunResponseStatus :
        /\ TryResumeTask(i, status)
        /\ Decided(f, status, i)
        /\ status = "success" => Accept(f, i)
        /\ status # "success" => history' = Moved(i, Frontends \ {f})
  BY DEF CmdResume
<1>3. /\ TasksTyped' /\ DOMAIN task' = DOMAIN task
      /\ \A j : j # i => Standing(j)' = Standing(j)
      /\ \A j \in DOMAIN task : Known(j)' => Known(j)
      /\ \A j \in DOMAIN task : log'[j].life = log[j].life /\ log'[j].lines >= log[j].lines
      /\ status = "notFound" <=> Standing(i) = "unknown"
      /\ status = "notDeactivated" <=> Standing(i) = "active"
      /\ status = "success" => i \in DOMAIN task
  BY <1>1, <1>2, TryResumeTaskFacts
<1>4. /\ history' \in [Frontends -> Histories]
      /\ history'[f].accepted <=> status = "success"
      /\ \A g \in Frontends \ {f} :
           /\ history'[g].accepted = history[g].accepted
           /\ front[g].pc # "exited" /\ Target(g) = i => history'[g].moved
      /\ \A g \in Frontends : /\ history'[g].start = history[g].start
                              /\ history[g].moved => history'[g].moved
  <2>1. CASE status = "success"
    BY <1>1, <1>2, <2>1, AcceptFacts
  <2>2. CASE status # "success"
    <3>1. ~history[f].accepted
      BY <1>1 DEF Told, Decisive, Deciding
    <3>. QED  BY <1>1, <1>2, <2>2, <3>1, MovedFacts
  <2>. QED  BY <2>1, <2>2
<1>. DEFINE y == [stage |-> "unlogged", status |-> status, id |-> i]
<1>5. conn' = [conn EXCEPT ![f] = y]
  BY <1>2 DEF Decided
<1>6. y \in Conns /\ y.stage = "unlogged" /\ y.status = status
  <2>1. i \in Named
    BY <1>1 DEF Named, Naming
  <2>. QED  BY <2>1 DEF Conns, Outcomes, Statuses
<1>. HIDE DEF y
<1>7. /\ FrontsTyped' /\ conn'[f] = y
      /\ \A g \in Frontends \ {f} : conn'[g] = conn[g]
  BY <1>1, <1>4, <1>5, <1>6 DEF FrontsTyped
<1>8. Told(f)'
  <2>1. InStep(f)' /\ Decisive(f)'
    BY <1>1, <1>4, <1>6, <1>7 DEF Told, InStep, Decisive, Deciding
  <2>2. HasTarget(f)'
    BY <1>1, <1>3, <1>6, <1>7 DEF HasTarget, Target
  <2>3. Stood(f)'
    <3>1. ~history[f].moved => Standing(i) = history[f].start
      BY <1>1 DEF Told, Stood, Naming
    <3>2. history[f].start # "unknown" => i \in DOMAIN task
      BY <1>1 DEF Told, Stood, Naming
    <3>3. front' = front /\ front[f].pc = "wait"
      BY <1>1
    <3>. QED  BY <1>1, <1>3, <1>4, <1>6, <1>7, <3>1, <3>2, <3>3 DEF Stood, Naming
  <2>4. FoundTask(f)' /\ Stays(f)' /\ Shows(f)'
    BY <1>1 DEF FoundTask, Stays, Shows
  <2>. QED  BY <2>1, <2>2, <2>3, <2>4 DEF Told
<1>9. ASSUME NEW g \in Frontends, g # f PROVE LeftAlone(g) /\ TasksGoOn(g)
  <2>1. LeftAlone(g)
    BY <1>1, <1>4, <1>7, <1>9 DEF LeftAlone
  <2>2. front[g].line.cmd \in Naming => Target(g) = front[g].line.id
    BY DEF Target, Naming
  <2>3. TasksGoOn(g)
    BY <1>1, <1>3, <1>4, <1>9, <2>2 DEF TasksGoOn
  <2>. QED  BY <2>1, <2>3
<1>. QED  BY <1>3, <1>7, <1>8, <1>9, HandlerStep

LEMMA CmdStopKeeps ==
  ASSUME FrontInv, NEW f \in Frontends, CmdStop(f)
  PROVE  FrontInv'
<1>. DEFINE i == front[f].line.id
            line == front[f].line
            status == StopStatus(i)
<1>1. /\ FrontsTyped /\ TasksTyped /\ Told(f)
      /\ UNCHANGED <<up, task, log, messages, front, peek>>
      /\ front[f].pc = "wait" /\ conn[f].stage = "sent" /\ line.cmd = "stop"
      /\ line \in CommandLines /\ history[f] \in Histories
  BY DEF CmdStop, Handling, FrontInv, FrontsTyped, Told, InStep
<1>2. /\ status \in StopResponseStatus
      /\ status = "success" <=> Standing(i) = "active"
      /\ status = "notFound" => Standing(i) = "unknown"
  <2>1. i \in DOMAIN task => IsValidId(i)
    BY <1>1 DEF TasksTyped, IsValidId
  <2>2. Known(i) => i \in DOMAIN task
    BY DEF Known
  <2>3. Active(i) => Known(i)
    BY DEF Active, Known, InMemory
  <2>. QED  BY <2>1, <2>2, <2>3 DEF StopStatus, Standing, StopResponseStatus
<1>3. PICK a \in BOOLEAN : a <=> status = "success"
  OBVIOUS
<1>. DEFINE y == [stage |-> "unlogged", status |-> status, id |-> i]
            h == [history[f] EXCEPT !.accepted = a]
<1>4. conn' = [conn EXCEPT ![f] = y] /\ history' = [history EXCEPT ![f] = h]
  <2>1. a = (status = "success")
    BY <1>3
  <2>. QED  BY <2>1 DEF CmdStop, Decided
<1>5. y \in Conns /\ y.stage = "unlogged" /\ y.status = status
  <2>1. i \in Named
    BY <1>1 DEF Named, Naming
  <2>. QED  BY <1>2, <2>1 DEF Conns, Outcomes, Statuses
<1>6. /\ h \in Histories /\ h.start = history[f].start /\ h.moved = history[f].moved
      /\ h.accepted = a
  BY <1>1 DEF Histories
<1>. HIDE DEF status, y, h
<1>7. /\ FrontsTyped' /\ conn'[f] = y /\ history'[f] = h
      /\ \A g \in Frontends \ {f} : conn'[g] = conn[g] /\ history'[g] = history[g]
  BY <1>1, <1>4, <1>5, <1>6 DEF FrontsTyped
<1>8. InStep(f)' /\ Decisive(f)'
  BY <1>1, <1>3, <1>5, <1>6, <1>7 DEF Told, InStep, Decisive, Deciding
<1>9. Stood(f)'
  <2>1. /\ history[f].start # "unknown" => i \in DOMAIN task
        /\ ~history[f].moved => Standing(i) = history[f].start
    BY <1>1 DEF Told, Stood, Naming
  <2>2. front' = front /\ front[f].pc = "wait" /\ front[f].line.cmd = "stop" /\ task' = task
    BY <1>1
  <2>. QED  BY <1>2, <1>5, <1>6, <1>7, <2>1, <2>2, TasksSame DEF Stood, Naming
<1>10. HasTarget(f)' /\ FoundTask(f)' /\ Stays(f)' /\ Shows(f)'
  BY <1>1 DEF HasTarget, FoundTask, Stays, Shows
<1>. QED  BY <1>1, <1>7, <1>8, <1>9, <1>10, OwnStep DEF Told

LEMMA AnsweredFacts ==
  ASSUME FrontsTyped, NEW f \in Frontends, NEW status \in Outcomes, Answered(f, status)
  PROVE  /\ conn' \in [Frontends -> Conns]
         /\ conn'[f].stage = "answered" /\ conn'[f].status = status
         /\ conn'[f].id = conn[f].id
         /\ \A g \in Frontends \ {f} : conn'[g] = conn[g]
<1>. DEFINE x == [conn[f] EXCEPT !.stage = "answered"]
            y == [x EXCEPT !.status = status]
<1>1. conn \in [Frontends -> Conns] /\ conn[f] \in Conns
  BY DEF FrontsTyped
<1>2. x \in Conns /\ x.stage = "answered" /\ x.id = conn[f].id
  BY <1>1 DEF Conns
<1>3. conn' = [conn EXCEPT ![f] = y]
  BY <1>1 DEF Answered
<1>. HIDE DEF x
<1>4. y \in Conns /\ y.stage = "answered" /\ y.id = conn[f].id /\ y.status = status
  BY <1>2 DEF Conns
<1>. HIDE DEF y
<1>. QED  BY <1>1, <1>3, <1>4

LEMMA CmdRefreshKeeps ==
  ASSUME FrontInv, NEW f \in Frontends, CmdRefresh(f)
  PROVE  FrontInv'
<1>1. /\ FrontsTyped /\ TasksTyped /\ Told(f)
      /\ UNCHANGED <<up, log, messages, front, peek, history>>
      /\ front[f].pc = "wait" /\ conn[f].stage = "sent" /\ front[f].line.cmd = "refresh"
  BY DEF CmdRefresh, Handling, FrontInv
<1>2. "success" \in Outcomes /\ Answered(f, "success")
  BY DEF CmdRefresh, Outcomes, Statuses, RunResponseStatus
<1>3. /\ conn' \in [Frontends -> Conns]
      /\ conn'[f].stage = "answered"
      /\ \A g \in Frontends \ {f} : conn'[g] = conn[g]
  BY <1>1, <1>2, AnsweredFacts
<1>4. FrontsTyped'
  BY <1>1, <1>3 DEF FrontsTyped
<1>5. DOMAIN task' = DOMAIN task /\ task' = [i \in DOMAIN task |-> task'[i]]
  BY DEF CmdRefresh
<1>6. ASSUME NEW i \in DOMAIN task
      PROVE  /\ task'[i] \in Task /\ task'[i].place = task[i].place
             /\ task'[i].phase = "stopped" <=> task[i].phase = "stopped"
  <2>. DEFINE t == [task[i] EXCEPT !.phase = "running"]
  <2>1. task[i] \in Task
    BY <1>1, TaskTypes
  <2>2. t \in Task /\ t.phase = "running" /\ t.place = task[i].place
    BY <2>1, TaskPhase
  <2>3. task'[i] = task[i] \/ (task'[i] = t /\ task[i].phase = "waiting")
    BY DEF CmdRefresh
  <2>. HIDE DEF t
  <2>. QED  BY <2>1, <2>2, <2>3
<1>7. TasksTyped'
  BY <1>1, <1>5, <1>6 DEF TasksTyped, NextId
<1>8. \A j : Standing(j)' = Standing(j) /\ (Known(j)' => Known(j))
  BY <1>5, <1>6, SameStanding
<1>9. Told(f)'
  <2>1. InStep(f)' /\ Decisive(f)'
    BY <1>1, <1>3 DEF Told, InStep, Decisive, Deciding
  <2>. QED
    BY <1>1, <2>1 DEF Told, HasTarget, Stood, FoundTask, Stays, Shows, Naming
<1>10. ASSUME NEW g \in Frontends, g # f PROVE LeftAlone(g) /\ TasksGoOn(g)
  <2>1. \A j \in DOMAIN task : log'[j].life = log[j].life /\ log'[j].lines >= log[j].lines
    BY <1>1, TaskTypes
  <2>. QED  BY <1>1, <1>3, <1>5, <1>8, <1>10, <2>1 DEF LeftAlone, TasksGoOn
<1>. QED  BY <1>4, <1>7, <1>9, <1>10, HandlerStep

(* A peek selects the task it names and no other. *)
LEMMA PeekSelects ==
  ASSUME NEW id, id # NoId
  PROVE  Listed(PeekFilter(id)) = {i \in DOMAIN task : Known(i) /\ i = id}
<1>. DEFINE filter == PeekFilter(id)
<1>1. /\ filter.id = id /\ filter.names = {} /\ filter.tags = {} /\ filter.display.type = "none"
      /\ filter.active /\ filter.deactivated
  BY DEF PeekFilter, NoDisplay, Display
<1>. HIDE DEF filter
<1>2. \A i, body, active : Selects(filter, i, body, active) <=> i = id
  BY <1>1 DEF Selects, Derived
<1>3. \A i \in DOMAIN task :
        Known(i) <=> InMemory(i) \/ (filter.deactivated /\ task[i].place = "file")
  BY <1>1 DEF Known, InMemory
<1>4. Listed(filter) = {i \in DOMAIN task : Known(i) /\ i = id}
  BY <1>2, <1>3 DEF Listed
<1>. QED  BY <1>4 DEF filter

LEMMA CmdListKeeps ==
  ASSUME FrontInv, NEW f \in Frontends, CmdList(f)
  PROVE  FrontInv'
<1>. DEFINE line == front[f].line
            ids == Listed(IF line.cmd = "peek" THEN PeekFilter(line.id) ELSE ListFilter(line))
            found == IF line.cmd = "list" /\ line.unique
                     THEN UniqueNames(ids, [i \in ids |-> task[i].body.name]) ELSE ids
            status == Found(found)
<1>1. /\ FrontsTyped /\ TasksTyped /\ Told(f)
      /\ UNCHANGED <<up, task, log, messages, front, peek, history>>
      /\ front[f].pc = "wait" /\ conn[f].stage = "sent" /\ line.cmd \in {"list", "peek"}
      /\ line \in CommandLines
  BY DEF CmdList, Handling, FrontInv, Told, InStep
<1>2. status \in {"none found", "one found", "many found"}
  BY DEF Found
<1>3. Answered(f, status)
  BY DEF CmdList
<1>4. line.cmd = "peek" =>
        /\ status \in {"none found", "one found"}
        /\ status = "one found" => line.id \in DOMAIN task
        /\ status = "none found" => ~Known(line.id)
  <2>. SUFFICES ASSUME line.cmd = "peek"
       PROVE  /\ status \in {"none found", "one found"}
              /\ status = "one found" => line.id \in DOMAIN task
              /\ status = "none found" => ~Known(line.id)
    OBVIOUS
  <2>1. line.id # NoId
    BY <1>1, PeekAssumption
  <2>2. found = {i \in DOMAIN task : Known(i) /\ i = line.id}
    BY <2>1, PeekSelects
  <2>3. CASE Known(line.id)
    <3>1. found = {line.id} /\ line.id \in DOMAIN task
      BY <2>2, <2>3 DEF Known
    <3>2. Cardinality(found) = 1
      BY <3>1, FS_Singleton
    <3>. QED  BY <2>3, <3>1, <3>2 DEF Found
  <2>4. CASE ~Known(line.id)
    <3>1. Cardinality(found) = 0
      BY <2>2, <2>4, FS_EmptySet
    <3>. QED  BY <2>4, <3>1 DEF Found
  <2>. QED  BY <2>3, <2>4
<1>. HIDE DEF status, found, ids
<1>5. status \in Outcomes
  BY <1>2 DEF Outcomes
<1>6. /\ conn' \in [Frontends -> Conns]
      /\ conn'[f].stage = "answered" /\ conn'[f].status = status
      /\ \A g \in Frontends \ {f} : conn'[g] = conn[g]
  BY <1>1, <1>3, <1>5, AnsweredFacts
<1>7. FrontsTyped'
  BY <1>1, <1>6 DEF FrontsTyped
<1>8. InStep(f)' /\ Decisive(f)'
  BY <1>1, <1>6 DEF Told, InStep, Decisive, Deciding
<1>9. Stood(f)' /\ FoundTask(f)'
  <2>1. Stood(f)'
    BY <1>1, <1>6, TasksSame DEF Told, Stood
  <2>2. FoundTask(f)'
    BY <1>1, <1>4, <1>6, TasksSame DEF FoundTask
  <2>. QED  BY <2>1, <2>2
<1>10. HasTarget(f)' /\ Stays(f)' /\ Shows(f)'
  BY <1>1 DEF HasTarget, Stays, Shows
<1>. QED  BY <1>1, <1>6, <1>7, <1>8, <1>9, <1>10, OwnStep DEF Told

LEMMA StageFacts ==
  ASSUME FrontsTyped, NEW f \in Frontends,
         NEW stage \in {"closed", "open", "sent", "unlogged", "unanswered", "answered", "lost"},
         conn' = [conn EXCEPT ![f].stage = stage]
  PROVE  /\ conn' \in [Frontends -> Conns]
         /\ conn'[f].stage = stage /\ conn'[f].status = conn[f].status
         /\ conn'[f].id = conn[f].id
         /\ \A g \in Frontends \ {f} : conn'[g] = conn[g]
<1>. DEFINE y == [conn[f] EXCEPT !.stage = stage]
<1>1. conn \in [Frontends -> Conns] /\ conn[f] \in Conns
  BY DEF FrontsTyped
<1>2. y \in Conns /\ y.stage = stage /\ y.status = conn[f].status /\ y.id = conn[f].id
  BY <1>1 DEF Conns
<1>3. conn' = [conn EXCEPT ![f] = y]
  OBVIOUS
<1>. HIDE DEF y
<1>. QED  BY <1>1, <1>2, <1>3

LEMMA CmdLogKeeps ==
  ASSUME FrontInv, NEW f \in Frontends, CmdLog(f)
  PROVE  FrontInv'
<1>1. /\ FrontsTyped /\ Told(f) /\ UNCHANGED <<up, task, log, messages, front, peek, history>>
      /\ front[f].pc = "wait" /\ conn[f].stage = "sent" /\ front[f].line.cmd = "log"
  BY DEF CmdLog, Handling, FrontInv
<1>2. "success" \in Outcomes /\ Answered(f, "success")
  BY DEF CmdLog, Outcomes, Statuses, RunResponseStatus
<1>3. /\ conn' \in [Frontends -> Conns]
      /\ conn'[f].stage = "answered"
      /\ \A g \in Frontends \ {f} : conn'[g] = conn[g]
  BY <1>1, <1>2, AnsweredFacts
<1>4. FrontsTyped'
  BY <1>1, <1>3 DEF FrontsTyped
<1>5. Told(f)'
  BY <1>1, <1>3 DEF Told, InStep, Decisive, HasTarget, Stood, FoundTask, Stays, Shows, Deciding,
                    Naming
<1>. QED  BY <1>1, <1>3, <1>4, <1>5, OwnStep

LEMMA AddMessageKeeps ==
  ASSUME FrontInv, NEW f \in Frontends, AddMessage(f)
  PROVE  FrontInv'
<1>1. /\ FrontsTyped /\ Told(f) /\ UNCHANGED <<up, task, log, front, peek, history>>
      /\ conn[f].stage = "unlogged"
      /\ messages' = [messages EXCEPT ![f] = "listed"]
      /\ conn' = [conn EXCEPT ![f].stage = "unanswered"]
  BY DEF AddMessage, FrontInv
<1>2. front[f].pc = "wait" /\ front[f].line.cmd \in Deciding /\ peek[f] = NoPeek
  BY <1>1 DEF Told, InStep, FrontsTyped, Fronts
<1>3. /\ conn' \in [Frontends -> Conns]
      /\ conn'[f].stage = "unanswered" /\ conn'[f].status = conn[f].status
      /\ conn'[f].id = conn[f].id
      /\ \A g \in Frontends \ {f} : conn'[g] = conn[g]
  BY <1>1, StageFacts
<1>4. FrontsTyped' /\ messages'[f] # "none"
  BY <1>1, <1>3 DEF FrontsTyped
<1>5. Target(f)' = Target(f)
  BY <1>1, <1>3 DEF Target
<1>6. InStep(f)' /\ Decisive(f)' /\ HasTarget(f)'
  BY <1>1, <1>2, <1>3, <1>4, <1>5 DEF Told, InStep, Decisive, HasTarget
<1>7. Stood(f)'
  BY <1>1, <1>2, <1>3, TasksSame DEF Told, Stood
<1>8. FoundTask(f)' /\ Stays(f)' /\ Shows(f)'
  BY <1>1, <1>2, <1>3 DEF FoundTask, Stays, Shows
<1>9. \A g \in Frontends \ {f} : messages'[g] = messages[g]
  BY <1>1 DEF FrontsTyped
<1>. QED  BY <1>1, <1>3, <1>4, <1>6, <1>7, <1>8, <1>9, OwnStep DEF Told

LEMMA AnswerKeeps ==
  ASSUME FrontInv, NEW f \in Frontends, Answer(f)
  PROVE  FrontInv'
<1>1. /\ FrontsTyped /\ Told(f) /\ UNCHANGED <<up, task, log, messages, front, peek, history>>
      /\ conn[f].stage = "unanswered"
      /\ conn' = [conn EXCEPT ![f].stage = "answered"]
  BY DEF Answer, FrontInv
<1>2. front[f].pc = "wait" /\ front[f].line.cmd \in Deciding /\ peek[f] = NoPeek
  BY <1>1 DEF Told, InStep, FrontsTyped, Fronts
<1>3. /\ conn' \in [Frontends -> Conns]
      /\ conn'[f].stage = "answered" /\ conn'[f].status = conn[f].status
      /\ conn'[f].id = conn[f].id
      /\ \A g \in Frontends \ {f} : conn'[g] = conn[g]
  BY <1>1, StageFacts
<1>4. FrontsTyped'
  BY <1>1, <1>3 DEF FrontsTyped
<1>5. Target(f)' = Target(f)
  BY <1>1, <1>3 DEF Target
<1>6. InStep(f)' /\ Decisive(f)' /\ HasTarget(f)'
  BY <1>1, <1>2, <1>3, <1>5 DEF Told, InStep, Decisive, HasTarget
<1>7. Stood(f)'
  BY <1>1, <1>2, <1>3, TasksSame DEF Told, Stood
<1>8. FoundTask(f)' /\ Stays(f)' /\ Shows(f)'
  BY <1>1, <1>2 DEF FoundTask, Stays, Shows, Deciding
<1>. QED  BY <1>1, <1>3, <1>4, <1>6, <1>7, <1>8, OwnStep DEF Told

LEMMA LoseConnectionKeeps ==
  ASSUME FrontInv, NEW f \in Frontends, LoseConnection(f)
  PROVE  FrontInv'
<1>1. /\ FrontsTyped /\ Told(f) /\ UNCHANGED <<up, task, log, messages, front, peek, history>>
      /\ ~up /\ front[f].pc \in {"send", "wait", "peek"}
      /\ conn' = [conn EXCEPT ![f].stage = "lost"]
  BY DEF LoseConnection, FrontInv
<1>2. /\ conn' \in [Frontends -> Conns]
      /\ conn'[f].stage = "lost" /\ conn'[f].status = conn[f].status
      /\ conn'[f].id = conn[f].id
      /\ \A g \in Frontends \ {f} : conn'[g] = conn[g]
  BY <1>1, StageFacts
<1>3. FrontsTyped'
  BY <1>1, <1>2 DEF FrontsTyped
<1>4. Target(f)' = Target(f)
  BY <1>1, <1>2 DEF Target
<1>5. InStep(f)' /\ Decisive(f)' /\ HasTarget(f)'
  BY <1>1, <1>2, <1>4 DEF Told, InStep, Decisive, HasTarget
<1>6. Stood(f)'
  BY <1>1, <1>2, TasksSame DEF Told, Stood
<1>7. FoundTask(f)' /\ Stays(f)' /\ Shows(f)'
  BY <1>1, <1>2, <1>4 DEF Told, FoundTask, Stays, Shows
<1>. QED  BY <1>1, <1>2, <1>3, <1>5, <1>6, <1>7, OwnStep DEF Told

LEMMA CmdQueryTaskActiveKeeps ==
  ASSUME FrontInv, NEW f \in Frontends, CmdQueryTaskActive(f)
  PROVE  FrontInv'
<1>1. PICK status \in {"active", "inactive", "notFound"} :
        /\ Answered(f, status)
        /\ Active(Target(f)) => status = "active"
  BY DEF CmdQueryTaskActive
<1>2. /\ FrontsTyped /\ Told(f) /\ UNCHANGED <<up, task, log, messages, front, peek, history>>
      /\ front[f].pc = "peek" /\ conn[f].stage = "sent"
  BY DEF CmdQueryTaskActive, FrontInv
<1>3. status \in Outcomes
  BY DEF Outcomes, Statuses, RunResponseStatus
<1>4. /\ conn' \in [Frontends -> Conns]
      /\ conn'[f].stage = "answered" /\ conn'[f].status = status
      /\ conn'[f].id = conn[f].id
      /\ \A g \in Frontends \ {f} : conn'[g] = conn[g]
  BY <1>1, <1>2, <1>3, AnsweredFacts
<1>5. FrontsTyped'
  BY <1>2, <1>4 DEF FrontsTyped
<1>6. Target(f)' = Target(f)
  BY <1>2, <1>4 DEF Target
<1>7. InStep(f)' /\ Decisive(f)' /\ HasTarget(f)'
  BY <1>2, <1>4, <1>6 DEF Told, InStep, Decisive, HasTarget
<1>8. Stood(f)'
  BY <1>2, <1>4, TasksSame DEF Told, Stood
<1>9. FoundTask(f)' /\ Shows(f)'
  BY <1>2, <1>4, <1>6 DEF Told, FoundTask, Shows
<1>10. Stays(f)'
  <2>1. front[f].line.cmd = "peek" /\ history[f].start = "active" /\ ~history[f].moved
          => Active(Target(f))
    <3>1. front[f].line.cmd = "peek" => Target(f) = front[f].line.id
      BY DEF Target
    <3>. QED  BY <1>2, <3>1 DEF Told, Stood, Naming, Standing
  <2>. QED  BY <1>1, <1>2, <1>4, <2>1 DEF Told, Stays
<1>. QED  BY <1>2, <1>4, <1>5, <1>7, <1>8, <1>9, <1>10, OwnStep DEF Told

-----------------------------------------------------------------------------
(* The frontend from the answer on *)

LEMMA PeekerFile ==
  ASSUME NEW p \in Peekers, NEW file \in {"off", "opening", "contents", "poll", "done"}
  PROVE  LET q == [p EXCEPT !.file = file]
         IN  /\ q \in Peekers /\ q.file = file /\ q.query = p.query /\ q.flag = p.flag
             /\ q.life = p.life /\ q.opened = p.opened /\ q.shown = p.shown
BY DEF Peekers

LEMMA PeekerQuery ==
  ASSUME NEW p \in Peekers, NEW query \in {"off", "check", "asked", "done"}
  PROVE  LET q == [p EXCEPT !.query = query]
         IN  /\ q \in Peekers /\ q.file = p.file /\ q.query = query /\ q.flag = p.flag
             /\ q.life = p.life /\ q.opened = p.opened /\ q.shown = p.shown
BY DEF Peekers

LEMMA PeekerFlag ==
  ASSUME NEW p \in Peekers
  PROVE  LET q == [p EXCEPT !.flag = TRUE]
         IN  /\ q \in Peekers /\ q.file = p.file /\ q.query = p.query /\ q.flag
             /\ q.life = p.life /\ q.opened = p.opened /\ q.shown = p.shown
BY DEF Peekers

LEMMA ReceiveKeeps ==
  ASSUME FrontInv, NEW f \in Frontends, Receive(f)
  PROVE  FrontInv'
<1>1. /\ UNCHANGED <<up, task, log>> /\ FrontsTyped /\ TasksTyped /\ front[f].pc = "wait"
      /\ Told(f) /\ front[f] \in Fronts /\ conn[f] \in Conns
  BY DEF Receive, FrontInv, FrontsTyped
<1>2. CASE Exit(f, "lost", 1)
  BY <1>1, <1>2, ExitKeeps DEF Endings
<1>3. CASE Exit(f, conn[f].status, IF Fails(front[f].line.cmd, conn[f].status) THEN 1 ELSE 0)
  <2>1. conn[f].status \in Endings
    BY <1>1 DEF Conns, Endings
  <2>2. (IF Fails(front[f].line.cmd, conn[f].status) THEN 1 ELSE 0) \in {0, 1}
    OBVIOUS
  <2>. QED  BY <1>1, <1>3, <2>1, <2>2, ExitKeeps
<1>4. CASE /\ conn[f].stage = "answered" /\ GoesOn(f)
           /\ front' = [front EXCEPT ![f].pc = "peek", ![f].status = conn[f].status]
           /\ conn' = [conn EXCEPT ![f].stage = "open"]
           /\ peek' = [peek EXCEPT ![f].file = "opening", ![f].query = "check"]
           /\ UNCHANGED <<messages, history>>
  <2>. DEFINE status == conn[f].status
              w == [front[f] EXCEPT !.pc = "peek"]
              x == [w EXCEPT !.status = status]
              q == [NoPeek EXCEPT !.file = "opening", !.query = "check"]
  <2>1. peek[f] = NoPeek
    BY <1>1 DEF Told, InStep
  <2>2. status \in Endings
    BY <1>1 DEF Conns, Endings
  <2>3. w \in Fronts /\ w.pc = "peek" /\ w.line = front[f].line
    BY <1>1 DEF Fronts
  <2>4. /\ q \in Peekers /\ q.file = "opening" /\ q.query = "check" /\ ~q.flag /\ q.life = 0
        /\ q.shown = <<>>
    <3>. DEFINE o == [NoPeek EXCEPT !.file = "opening"]
    <3>1. NoPeek \in Peekers /\ ~NoPeek.flag /\ NoPeek.life = 0 /\ NoPeek.shown = <<>>
      BY <1>1, <2>1 DEF NoPeek, FrontsTyped
    <3>2. o \in Peekers /\ o.file = "opening" /\ ~o.flag /\ o.life = 0 /\ o.shown = <<>>
      BY <3>1, PeekerFile
    <3>3. q = [o EXCEPT !.query = "check"]
      OBVIOUS
    <3>. HIDE DEF o, q
    <3>. QED  BY <3>2, <3>3, PeekerQuery
  <2>5. front' = [front EXCEPT ![f] = x] /\ peek' = [peek EXCEPT ![f] = q]
    BY <1>4, <2>1, <1>1 DEF FrontsTyped
  <2>. HIDE DEF w, q
  <2>6. x \in Fronts /\ x.pc = "peek" /\ x.line = front[f].line /\ x.status = status
    BY <2>2, <2>3 DEF Fronts
  <2>. HIDE DEF x
  <2>7. /\ conn' \in [Frontends -> Conns]
        /\ conn'[f].stage = "open" /\ conn'[f].status = status /\ conn'[f].id = conn[f].id
        /\ \A g \in Frontends \ {f} : conn'[g] = conn[g]
    BY <1>1, <1>4, StageFacts
  <2>8. /\ FrontsTyped' /\ front'[f] = x /\ peek'[f] = q
        /\ \A g \in Frontends \ {f} : front'[g] = front[g] /\ peek'[g] = peek[g]
    <3>1. /\ front' \in [Frontends -> Fronts] /\ front'[f] = x
          /\ \A g \in Frontends \ {f} : front'[g] = front[g]
      BY <1>1, <2>5, <2>6 DEF FrontsTyped
    <3>2. /\ peek' \in [Frontends -> Peekers] /\ peek'[f] = q
          /\ \A g \in Frontends \ {f} : peek'[g] = peek[g]
      BY <1>1, <2>4, <2>5 DEF FrontsTyped
    <3>3. up' = up /\ messages' = messages /\ history' = history
      BY <1>1, <1>4
    <3>. QED  BY <1>1, <2>7, <3>1, <3>2, <3>3 DEF FrontsTyped
  <2>9. Target(f)' = Target(f)
    BY <2>6, <2>7, <2>8 DEF Target
  <2>10. \/ x.line.cmd \in {"run", "resume"} /\ status = "success"
         \/ x.line.cmd = "peek" /\ status = "one found"
    BY <1>4, <2>6 DEF GoesOn
  <2>11. InStep(f)'
    BY <1>1, <2>4, <2>6, <2>7, <2>8 DEF Told, InStep
  <2>12. Decisive(f)'
    BY <1>1, <1>4, <2>6, <2>7, <2>8, <2>10 DEF Told, Decisive, Deciding
  <2>13. HasTarget(f)'
    <3>1. Target(f) \in DOMAIN task
      <4>1. x.line.cmd = "peek" => Target(f) = x.line.id
        BY <2>6 DEF Target
      <4>. QED  BY <1>1, <1>4, <2>6, <2>10, <4>1 DEF Told, HasTarget, FoundTask
    <3>. QED  BY <1>1, <2>6, <2>8, <2>9, <2>10, <3>1 DEF HasTarget
  <2>14. Stood(f)'
    <3>1. /\ x.line.cmd \in Naming /\ history[f].start # "unknown"
             => x.line.id \in DOMAIN task
          /\ x.line.cmd = "peek" /\ ~history[f].moved => Standing(x.line.id) = history[f].start
          /\ x.line.cmd = "resume" /\ ~history[f].moved => history[f].start = "deactivated"
      <4>1. history[f].start \in {"unknown", "active", "deactivated"}
        BY <1>1 DEF FrontsTyped, Histories
      <4>. QED  BY <1>1, <1>4, <2>6, <2>10, <4>1 DEF Told, Stood, Naming
    <3>2. x.line.cmd # "stop"
      BY <2>10
    <3>. QED  BY <1>1, <1>4, <2>6, <2>7, <2>8, <3>1, <3>2, TasksSame DEF Stood, Naming
  <2>15. FoundTask(f)' /\ Stays(f)'
    BY <2>4, <2>6, <2>7, <2>8, <2>10 DEF FoundTask, Stays
  <2>16. Shows(f)'
    BY <2>4, <2>8 DEF Shows
  <2>. QED
    BY <1>1, <1>4, <2>7, <2>8, <2>11, <2>12, <2>13, <2>14, <2>15, <2>16, OwnStep DEF Told
<1>. QED  BY <1>2, <1>3, <1>4 DEF Receive

(* A step of the goroutines of a peek, after which it still shows what it  *)
(* should and stays as long as it should.                                  *)
LEMMA PeekStep ==
  ASSUME FrontInv, NEW f \in Frontends, front[f].pc = "peek", NEW p \in Peekers,
         peek' = [peek EXCEPT ![f] = p],
         UNCHANGED <<up, task, log, messages, front, history>>,
         conn' \in [Frontends -> Conns],
         conn'[f].stage \in {"open", "sent", "answered", "lost"},
         conn'[f].stage = "lost" => conn[f].stage = "lost",
         conn'[f].id = conn[f].id,
         \A g \in Frontends \ {f} : conn'[g] = conn[g],
         p.file # "off", p.query # "off", Stays(f)', Shows(f)'
  PROVE  FrontInv'
<1>1. FrontsTyped /\ TasksTyped /\ Told(f)
  BY DEF FrontInv
<1>2. /\ peek' \in [Frontends -> Peekers] /\ peek'[f] = p
      /\ \A g \in Frontends \ {f} : peek'[g] = peek[g]
  BY <1>1 DEF FrontsTyped
<1>3. FrontsTyped'
  BY <1>1, <1>2 DEF FrontsTyped
<1>4. Target(f)' = Target(f)
  BY DEF Target
<1>5. InStep(f)' /\ Decisive(f)' /\ HasTarget(f)'
  BY <1>1, <1>2, <1>4 DEF Told, InStep, Decisive, HasTarget
<1>6. Stood(f)'
  BY <1>1, TasksSame DEF Told, Stood
<1>7. FoundTask(f)'
  BY <1>1 DEF Told, FoundTask
<1>. QED  BY <1>2, <1>3, <1>5, <1>6, <1>7, OwnStep DEF Told

LEMMA PeekFacts ==
  ASSUME FrontInv, NEW f \in Frontends, front[f].pc = "peek"
  PROVE  /\ peek[f] \in Peekers /\ peek[f].file # "off" /\ peek[f].query # "off"
         /\ peek[f].life \in Nat /\ peek[f].opened \in Nat
         /\ Len(peek[f].shown) \in Nat /\ peek[f].shown \in Seq(Nat \X Nat)
         /\ conn \in [Frontends -> Conns]
         /\ conn[f].stage \in {"open", "sent", "answered", "lost"}
         /\ conn[f].stage = "lost" => ~up
         /\ Target(f) \in DOMAIN task
         /\ log[Target(f)].life \in Nat /\ log[Target(f)].lines \in Nat
         /\ Stays(f) /\ Shows(f)
<1>1. FrontsTyped /\ TasksTyped /\ Told(f) /\ peek[f] \in Peekers
  BY DEF FrontInv, FrontsTyped
<1>2. Target(f) \in DOMAIN task
  BY <1>1 DEF Told, HasTarget
<1>3. log[Target(f)].life \in Nat /\ log[Target(f)].lines \in Nat
  BY <1>1, <1>2, TaskTypes
<1>4. /\ peek[f].life \in Nat /\ peek[f].opened \in Nat
      /\ peek[f].shown \in Seq(Nat \X Nat)
  BY <1>1 DEF Peekers
<1>5. conn \in [Frontends -> Conns]
  BY <1>1 DEF FrontsTyped
<1>. QED  BY <1>1, <1>2, <1>3, <1>4, <1>5 DEF Told, InStep

(* A step of the goroutine that prints the log. *)
LEMMA FileStep ==
  ASSUME FrontInv, NEW f \in Frontends, front[f].pc = "peek", NEW p \in Peekers,
         peek' = [peek EXCEPT ![f] = p],
         UNCHANGED <<up, task, log, messages, front, conn, history>>,
         p.file # "off", p.query = peek[f].query,
         p.flag => peek[f].flag \/ (p.file = "done" /\ p.life = 0),
         peek[f].flag => p.flag,
         peek[f].file # "done" \/ (p.file = "done" /\ p.life = peek[f].life),
         Shows(f)'
  PROVE  FrontInv'
<1>1. peek'[f] = p
  BY DEF FrontInv, FrontsTyped
<1>2. Stays(f)'
  BY <1>1, PeekFacts DEF Stays
<1>. QED  BY <1>2, PeekFacts, PeekStep

LEMMA OpenFileKeeps ==
  ASSUME FrontInv, NEW f \in Frontends, OpenFile(f)
  PROVE  FrontInv'
<1>. DEFINE t == Target(f)
            x == [peek[f] EXCEPT !.file = "contents"]
            y == [x EXCEPT !.life = log[t].life]
            z == [y EXCEPT !.opened = log[t].lines]
<1>1. /\ front[f].pc = "peek" /\ peek[f].file = "opening"
      /\ UNCHANGED <<up, task, log, messages, front, conn, history>>
  BY DEF OpenFile, Peeks
<1>2. peek' = [peek EXCEPT ![f] = z]
  BY DEF OpenFile, FrontInv, FrontsTyped
<1>3. Target(f)' = t
  BY <1>1 DEF Target
<1>4. /\ log[t].life \in Nat /\ log[t].lines \in Nat
      /\ peek[f] \in Peekers /\ peek[f].shown = <<>>
  BY <1>1, PeekFacts DEF Shows
<1>. HIDE DEF t
<1>5. /\ x \in Peekers /\ x.file = "contents" /\ x.query = peek[f].query
      /\ x.flag = peek[f].flag /\ x.shown = <<>>
  BY <1>4, PeekerFile
<1>. HIDE DEF x
<1>6. /\ y \in Peekers /\ y.file = "contents" /\ y.query = peek[f].query
      /\ y.flag = peek[f].flag /\ y.life = log[t].life /\ y.shown = <<>>
  BY <1>4, <1>5 DEF Peekers
<1>. HIDE DEF y
<1>7. /\ z \in Peekers /\ z.file = "contents" /\ z.query = peek[f].query
      /\ z.flag = peek[f].flag /\ z.life = log[t].life /\ z.opened = log[t].lines
      /\ z.shown = <<>>
  BY <1>4, <1>6 DEF Peekers
<1>. HIDE DEF z
<1>8. Shows(f)'
  <2>1. peek'[f] = z
    BY <1>2 DEF FrontInv, FrontsTyped
  <2>2. log' = log
    BY <1>1
  <2>. QED  BY <1>3, <1>4, <1>7, <2>1, <2>2 DEF Shows
<1>. QED  BY <1>1, <1>2, <1>7, <1>8, FileStep

LEMMA OpenFailsKeeps ==
  ASSUME FrontInv, NEW f \in Frontends, OpenFails(f)
  PROVE  FrontInv'
<1>. DEFINE x == [peek[f] EXCEPT !.file = "done"]
            y == [x EXCEPT !.flag = TRUE]
<1>1. /\ front[f].pc = "peek" /\ peek[f].file = "opening"
      /\ UNCHANGED <<up, task, log, messages, front, conn, history>>
  BY DEF OpenFails, Peeks
<1>2. peek' = [peek EXCEPT ![f] = y]
  BY DEF OpenFails, FrontInv, FrontsTyped
<1>3. peek[f] \in Peekers /\ peek[f].life = 0
  BY <1>1, PeekFacts DEF Shows
<1>4. x \in Peekers /\ x.file = "done" /\ x.query = peek[f].query /\ x.life = 0
  BY <1>3, PeekerFile
<1>. HIDE DEF x
<1>5. y \in Peekers /\ y.file = "done" /\ y.query = peek[f].query /\ y.life = 0 /\ y.flag
  BY <1>4, PeekerFlag
<1>. HIDE DEF y
<1>6. Shows(f)'
  <2>1. peek'[f] = y
    BY <1>2 DEF FrontInv, FrontsTyped
  <2>. QED  BY <1>5, <2>1 DEF Shows
<1>. QED  BY <1>1, <1>2, <1>5, <1>6, FileStep

LEMMA PrintLineKeeps ==
  ASSUME FrontInv, NEW f \in Frontends, front[f].pc = "peek", peek[f].file \in {"contents", "poll"},
         PrintLine(f), UNCHANGED <<up, task, log, messages, front, conn, history>>
  PROVE  FrontInv'
<1>. DEFINE t == Target(f)
            shown == Append(peek[f].shown, <<log[t].life, Len(peek[f].shown) + 1>>)
            x == [peek[f] EXCEPT !.shown = shown]
<1>1. peek' = [peek EXCEPT ![f] = x]
  BY DEF PrintLine, FrontInv, FrontsTyped
<1>2. Target(f)' = t
  BY DEF Target
<1>3. /\ log[t].life \in Nat /\ peek[f].shown \in Seq(Nat \X Nat)
      /\ Len(peek[f].shown) \in Nat /\ peek[f].opened \in Nat
  BY PeekFacts
<1>. HIDE DEF t
<1>4. /\ shown \in Seq(Nat \X Nat)
      /\ Len(shown) = Len(peek[f].shown) + 1
      /\ \A n \in DOMAIN shown :
           shown[n] = IF n \in DOMAIN peek[f].shown THEN peek[f].shown[n]
                      ELSE <<log[t].life, n>>
  <2>. DEFINE s == peek[f].shown
  <2>1. s \in Seq(Nat \X Nat) /\ Len(s) \in Nat /\ DOMAIN s = 1 .. Len(s)
    BY <1>3
  <2>2. <<log[t].life, Len(s) + 1>> \in Nat \X Nat
    BY <1>3, <2>1
  <2>. DEFINE line == <<log[t].life, Len(s) + 1>>
  <2>. HIDE DEF s, line
  <2>3. /\ Append(s, line) \in Seq(Nat \X Nat) /\ Len(Append(s, line)) = Len(s) + 1
        /\ DOMAIN Append(s, line) = 1 .. Len(s) + 1
        /\ \A n \in 1 .. Len(s) : Append(s, line)[n] = s[n]
        /\ Append(s, line)[Len(s) + 1] = line
    BY <2>1, <2>2 DEF line
  <2>4. ASSUME NEW n \in 1 .. Len(s) + 1, n \notin 1 .. Len(s) PROVE n = Len(s) + 1
    BY <2>1, <2>4
  <2>5. shown = Append(s, line)
    BY DEF s, line
  <2>. HIDE DEF shown
  <2>6. ASSUME NEW n \in DOMAIN shown
        PROVE  shown[n] = IF n \in DOMAIN s THEN s[n] ELSE <<log[t].life, n>>
    <3>1. CASE n \in 1 .. Len(s)
      BY <2>1, <2>3, <2>5, <3>1
    <3>2. CASE n \notin 1 .. Len(s)
      <4>1. n = Len(s) + 1
        BY <2>3, <2>4, <2>5, <3>2
      <4>. QED  BY <2>1, <2>3, <2>5, <3>2, <4>1 DEF line
    <3>. QED  BY <3>1, <3>2
  <2>. QED  BY <2>3, <2>5, <2>6 DEF s
<1>. HIDE DEF shown
<1>5. /\ x \in Peekers /\ x.file = peek[f].file /\ x.query = peek[f].query
      /\ x.flag = peek[f].flag /\ x.life = peek[f].life /\ x.opened = peek[f].opened
      /\ x.shown = shown
  BY <1>4, PeekFacts DEF Peekers
<1>. HIDE DEF x
<1>6. Shows(f)'
  <2>1. peek'[f] = x
    BY <1>1 DEF FrontInv, FrontsTyped
  <2>2. Shows(f)
    BY PeekFacts
  <2>3. log' = log
    OBVIOUS
  <2>4. /\ peek[f].life > 0 => log[t].life >= peek[f].life
        /\ peek[f].life > 0 /\ log[t].life = peek[f].life =>
             /\ peek[f].opened <= log[t].lines
             /\ \A n \in DOMAIN peek[f].shown : peek[f].shown[n] = <<peek[f].life, n>>
             /\ peek[f].file \in {"poll", "done"} => Len(peek[f].shown) >= peek[f].opened
    BY <2>2 DEF Shows, t
  <2>5. peek[f].life > 0 /\ log[t].life = peek[f].life =>
             /\ \A n \in DOMAIN shown : shown[n] = <<peek[f].life, n>>
             /\ peek[f].file \in {"poll", "done"} => Len(shown) >= peek[f].opened
    <3>. SUFFICES ASSUME peek[f].life > 0, log[t].life = peek[f].life
         PROVE  /\ \A n \in DOMAIN shown : shown[n] = <<peek[f].life, n>>
                /\ peek[f].file \in {"poll", "done"} => Len(shown) >= peek[f].opened
      OBVIOUS
    <3>1. ASSUME NEW n \in DOMAIN shown PROVE shown[n] = <<peek[f].life, n>>
      <4>1. CASE n \in DOMAIN peek[f].shown
        BY <1>4, <2>4, <4>1
      <4>2. CASE n \notin DOMAIN peek[f].shown
        BY <1>4, <4>2
      <4>. QED  BY <4>1, <4>2
    <3>2. peek[f].file \in {"poll", "done"} => Len(shown) >= peek[f].opened
      <4>1. Len(shown) = Len(peek[f].shown) + 1
        BY <1>4
      <4>2. peek[f].file \in {"poll", "done"} => Len(peek[f].shown) >= peek[f].opened
        BY <2>4
      <4>3. Len(peek[f].shown) \in Nat /\ peek[f].opened \in Nat
        BY <1>3
      <4>. QED  BY <4>1, <4>2, <4>3
    <3>. QED  BY <3>1, <3>2
  <2>. QED  BY <1>2, <1>5, <2>1, <2>3, <2>4, <2>5 DEF Shows
<1>. QED  BY <1>1, <1>5, <1>6, PeekFacts, FileStep

LEMMA PrintContentsKeeps ==
  ASSUME FrontInv, NEW f \in Frontends, PrintContents(f)
  PROVE  FrontInv'
<1>. DEFINE x == [peek[f] EXCEPT !.file = "poll"]
<1>1. /\ front[f].pc = "peek" /\ peek[f].file = "contents"
      /\ UNCHANGED <<up, task, log, messages, front, conn, history>>
  BY DEF PrintContents, Peeks
<1>2. peek[f] \in Peekers
  BY DEF FrontInv, FrontsTyped
<1>3. CASE PrintLine(f)
  BY <1>1, <1>3, PrintLineKeeps
<1>4. CASE ~Unread(f) /\ peek' = [peek EXCEPT ![f] = x]
  <2>1. /\ x \in Peekers /\ x.file = "poll" /\ x.query = peek[f].query
        /\ x.flag = peek[f].flag /\ x.life = peek[f].life /\ x.opened = peek[f].opened
        /\ x.shown = peek[f].shown
    BY <1>2, PeekerFile
  <2>. HIDE DEF x
  <2>2. Shows(f)'
    <3>1. peek'[f] = x
      BY <1>4 DEF FrontInv, FrontsTyped
    <3>2. Target(f)' = Target(f) /\ log' = log
      BY <1>1 DEF Target
    <3>3. Shows(f) /\ Len(peek[f].shown) >= log[Target(f)].lines
      BY <1>1, <1>4, PeekFacts DEF Unread
    <3>4. peek[f].opened <= log[Target(f)].lines => Len(peek[f].shown) >= peek[f].opened
      BY <1>1, <3>3, PeekFacts
    <3>. QED  BY <1>1, <2>1, <3>1, <3>2, <3>3, <3>4 DEF Shows
  <2>. QED  BY <1>1, <1>4, <2>1, <2>2, FileStep
<1>. QED  BY <1>3, <1>4 DEF PrintContents

LEMMA PollKeeps ==
  ASSUME FrontInv, NEW f \in Frontends, Poll(f)
  PROVE  FrontInv'
<1>. DEFINE x == [peek[f] EXCEPT !.file = "done"]
<1>1. /\ front[f].pc = "peek" /\ peek[f].file = "poll"
      /\ UNCHANGED <<up, task, log, messages, front, conn, history>>
  BY DEF Poll, Peeks
<1>2. peek[f] \in Peekers
  BY DEF FrontInv, FrontsTyped
<1>3. CASE PrintLine(f)
  BY <1>1, <1>3, PrintLineKeeps
<1>4. CASE peek[f].flag /\ peek' = [peek EXCEPT ![f] = x]
  <2>1. /\ x \in Peekers /\ x.file = "done" /\ x.query = peek[f].query
        /\ x.flag = peek[f].flag /\ x.life = peek[f].life /\ x.opened = peek[f].opened
        /\ x.shown = peek[f].shown
    BY <1>2, PeekerFile
  <2>. HIDE DEF x
  <2>2. Shows(f)'
    <3>1. peek'[f] = x
      BY <1>4 DEF FrontInv, FrontsTyped
    <3>2. Target(f)' = Target(f) /\ log' = log
      BY <1>1 DEF Target
    <3>3. Shows(f)
      BY <1>1, PeekFacts
    <3>. QED  BY <1>1, <2>1, <3>1, <3>2, <3>3 DEF Shows
  <2>. QED  BY <1>1, <1>4, <2>1, <2>2, FileStep
<1>. QED  BY <1>3, <1>4 DEF Poll

(* A step of the goroutine that asks for the task. *)
LEMMA QueryStep ==
  ASSUME FrontInv, NEW f \in Frontends, front[f].pc = "peek", NEW p \in Peekers,
         peek' = [peek EXCEPT ![f] = p],
         NEW stage \in {"open", "sent", "lost"},
         stage = "lost" => conn[f].stage = "lost",
         conn' = [conn EXCEPT ![f].stage = stage],
         UNCHANGED <<up, task, log, messages, front, history>>,
         p.file = peek[f].file, p.life = peek[f].life, p.opened = peek[f].opened,
         p.shown = peek[f].shown, p.query # "off",
         p.query = "done" => p.flag,
         p.flag => \/ peek[f].flag
                   \/ conn[f].stage = "lost"
                   \/ conn[f].stage = "answered" /\ conn[f].status # "active"
  PROVE  FrontInv'
<1>1. /\ conn' \in [Frontends -> Conns]
      /\ conn'[f].stage = stage /\ conn'[f].id = conn[f].id
      /\ \A g \in Frontends \ {f} : conn'[g] = conn[g]
  BY StageFacts DEF FrontInv
<1>2. peek'[f] = p
  BY DEF FrontInv, FrontsTyped
<1>3. Stays(f)'
  BY <1>1, <1>2, PeekFacts DEF Stays
<1>4. Shows(f)'
  <2>1. Target(f)' = Target(f) /\ log' = log
    BY <1>1 DEF Target
  <2>2. Shows(f)
    BY PeekFacts
  <2>. QED  BY <1>2, <2>1, <2>2 DEF Shows
<1>5. p.file # "off"
  BY PeekFacts
<1>6. /\ conn'[f].stage \in {"open", "sent", "answered", "lost"}
      /\ conn'[f].stage = "lost" => conn[f].stage = "lost"
  BY <1>1
<1>. QED  BY <1>1, <1>3, <1>4, <1>5, <1>6, PeekStep

LEMMA QueryKeeps ==
  ASSUME FrontInv, NEW f \in Frontends, Query(f)
  PROVE  FrontInv'
<1>1. /\ front[f].pc = "peek" /\ UNCHANGED <<up, task, log, messages, front, history>>
      /\ peek[f] \in Peekers
  BY PeekFacts DEF Query, Asks
<1>2. CASE /\ peek[f].flag \/ conn[f].stage = "lost"
           /\ peek' = [peek EXCEPT ![f].query = "done", ![f].flag = TRUE]
           /\ UNCHANGED conn
  <2>. DEFINE x == [peek[f] EXCEPT !.query = "done"]
              y == [x EXCEPT !.flag = TRUE]
  <2>1. peek' = [peek EXCEPT ![f] = y]
    BY <1>2 DEF FrontInv, FrontsTyped
  <2>2. /\ x \in Peekers /\ x.query = "done" /\ x.file = peek[f].file
        /\ x.life = peek[f].life /\ x.opened = peek[f].opened /\ x.shown = peek[f].shown
    BY <1>1, PeekerQuery
  <2>. HIDE DEF x
  <2>3. /\ y \in Peekers /\ y.query = "done" /\ y.flag /\ y.file = peek[f].file
        /\ y.life = peek[f].life /\ y.opened = peek[f].opened /\ y.shown = peek[f].shown
    BY <2>2, PeekerFlag
  <2>. HIDE DEF y
  <2>4. Stays(f)' /\ Shows(f)'
    <3>1. peek'[f] = y
      BY <2>1 DEF FrontInv, FrontsTyped
    <3>2. Target(f)' = Target(f) /\ log' = log
      BY <1>1, <1>2 DEF Target
    <3>3. Stays(f) /\ Shows(f) /\ (conn[f].stage = "lost" => ~up)
      BY <1>1, PeekFacts
    <3>4. Stays(f)'
      BY <1>1, <1>2, <2>3, <3>1, <3>3 DEF Stays
    <3>5. Shows(f)'
      BY <1>1, <2>3, <3>1, <3>2, <3>3 DEF Shows
    <3>. QED  BY <3>4, <3>5
  <2>5. y.file # "off" /\ y.query # "off"
    BY <1>1, <2>3, PeekFacts
  <2>6. /\ conn' \in [Frontends -> Conns] /\ conn'[f] = conn[f]
        /\ conn'[f].stage \in {"open", "sent", "answered", "lost"}
        /\ \A g \in Frontends \ {f} : conn'[g] = conn[g]
    BY <1>1, <1>2, PeekFacts
  <2>. QED  BY <1>1, <2>1, <2>3, <2>4, <2>5, <2>6, PeekStep
<1>3. CASE /\ ~peek[f].flag
           /\ peek' = [peek EXCEPT ![f].query = "asked"]
           /\ conn' = [conn EXCEPT ![f].stage = "sent"]
  <2>. DEFINE x == [peek[f] EXCEPT !.query = "asked"]
  <2>1. peek' = [peek EXCEPT ![f] = x]
    BY <1>3
  <2>2. /\ x \in Peekers /\ x.query = "asked" /\ x.file = peek[f].file
        /\ x.flag = peek[f].flag
        /\ x.life = peek[f].life /\ x.opened = peek[f].opened /\ x.shown = peek[f].shown
    BY <1>1, PeekerQuery
  <2>. HIDE DEF x
  <2>. QED  BY <1>1, <1>3, <2>1, <2>2, QueryStep
<1>. QED  BY <1>2, <1>3 DEF Query

LEMMA QueriedKeeps ==
  ASSUME FrontInv, NEW f \in Frontends, Queried(f)
  PROVE  FrontInv'
<1>. DEFINE stage == IF conn[f].stage = "lost" THEN conn[f].stage ELSE "open"
<1>1. /\ front[f].pc = "peek" /\ UNCHANGED <<up, task, log, messages, front, history>>
      /\ peek[f] \in Peekers /\ conn[f].stage \in {"answered", "lost"}
  BY PeekFacts DEF Queried, Asks
<1>2. conn' = [conn EXCEPT ![f].stage = stage]
  BY DEF Queried, FrontInv, FrontsTyped
<1>3. stage \in {"open", "sent", "lost"} /\ (stage = "lost" => conn[f].stage = "lost")
  OBVIOUS
<1>. HIDE DEF stage
<1>4. CASE /\ conn[f].stage = "lost" \/ conn[f].status # "active"
           /\ peek' = [peek EXCEPT ![f].query = "done", ![f].flag = TRUE]
  <2>. DEFINE x == [peek[f] EXCEPT !.query = "done"]
              y == [x EXCEPT !.flag = TRUE]
  <2>1. peek' = [peek EXCEPT ![f] = y]
    BY <1>4 DEF FrontInv, FrontsTyped
  <2>2. /\ x \in Peekers /\ x.query = "done" /\ x.file = peek[f].file
        /\ x.life = peek[f].life /\ x.opened = peek[f].opened /\ x.shown = peek[f].shown
    BY <1>1, PeekerQuery
  <2>. HIDE DEF x
  <2>3. /\ y \in Peekers /\ y.query = "done" /\ y.flag /\ y.file = peek[f].file
        /\ y.life = peek[f].life /\ y.opened = peek[f].opened /\ y.shown = peek[f].shown
    BY <2>2, PeekerFlag
  <2>. HIDE DEF y
  <2>4. \/ conn[f].stage = "lost"
        \/ conn[f].stage = "answered" /\ conn[f].status # "active"
    BY <1>1, <1>4
  <2>. QED  BY <1>1, <1>2, <1>3, <2>1, <2>3, <2>4, QueryStep
<1>5. CASE peek' = [peek EXCEPT ![f].query = "check"]
  <2>. DEFINE x == [peek[f] EXCEPT !.query = "check"]
  <2>1. peek' = [peek EXCEPT ![f] = x]
    BY <1>5
  <2>2. /\ x \in Peekers /\ x.query = "check" /\ x.file = peek[f].file
        /\ x.flag = peek[f].flag
        /\ x.life = peek[f].life /\ x.opened = peek[f].opened /\ x.shown = peek[f].shown
    BY <1>1, PeekerQuery
  <2>. HIDE DEF x
  <2>. QED  BY <1>1, <1>2, <1>3, <2>1, <2>2, QueryStep
<1>. QED  BY <1>4, <1>5 DEF Queried, EndsPeek

LEMMA PeekReturnsKeeps ==
  ASSUME FrontInv, NEW f \in Frontends, PeekReturns(f)
  PROVE  FrontInv'
<1>. DEFINE status == IF peek[f].life = 0 THEN "not opened" ELSE front[f].status
<1>1. status \in Endings
  BY DEF FrontInv, FrontsTyped, Fronts, Endings
<1>2. Exit(f, status, 0) /\ UNCHANGED <<up, task, log>>
  BY DEF PeekReturns
<1>. HIDE DEF status
<1>. QED  BY <1>1, <1>2, ExitKeeps

-----------------------------------------------------------------------------
(* The invariant holds *)

LEMMA StepKeeps ==
  ASSUME FrontInv, NEW f \in Frontends,
         \/ Start(f)
         \/ Invoke(f)
         \/ Handle(f)
         \/ LoseConnection(f)
         \/ WatchFile(f)
         \/ QueryLoop(f)
  PROVE  FrontInv'
<1>1. CASE Start(f)
  BY <1>1, StartKeeps
<1>2. CASE Invoke(f)
  BY <1>2, ConnectKeeps, ConnectFailsKeeps, SendKeeps, ReceiveKeeps, PeekReturnsKeeps DEF Invoke
<1>3. CASE Handle(f)
  BY <1>3, CmdRunKeeps, CmdResumeKeeps, CmdStopKeeps, CmdRefreshKeeps, CmdListKeeps,
     CmdLogKeeps, CmdQueryTaskActiveKeeps, AddMessageKeeps, AnswerKeeps DEF Handle
<1>4. CASE LoseConnection(f)
  BY <1>4, LoseConnectionKeeps
<1>5. CASE WatchFile(f)
  BY <1>5, OpenFileKeeps, OpenFailsKeeps, PrintContentsKeeps, PollKeeps DEF WatchFile
<1>6. CASE QueryLoop(f)
  BY <1>6, QueryKeeps, QueriedKeeps DEF QueryLoop
<1>. QED  BY <1>1, <1>2, <1>3, <1>4, <1>5, <1>6

LEMMA NextFrontInv == FrontInv /\ [Next]_vars => FrontInv'
<1>. SUFFICES ASSUME FrontInv, [Next]_vars PROVE FrontInv'
  OBVIOUS
<1>1. CASE UNCHANGED vars
  <2>1. UNCHANGED <<task, log, front, conn, peek, history>> /\ UNCHANGED <<up, messages>>
    BY <1>1 DEF vars
  <2>. QED  BY <2>1, BackgroundStep DEF FrontInv, FrontsTyped
<1>2. ASSUME NEW i \in DOMAIN task, TaskStarts(i) \/ TaskLogs(i) \/ TaskProceeds(i)
      PROVE  FrontInv'
  BY <1>2, TaskStartsKeeps, TaskLogsKeeps, TaskProceedsKeeps
<1>. QED
  BY <1>1, <1>2, StepKeeps, HandleOtherKeeps, TrimTickKeeps, KillKeeps DEF Next

LEMMA FrontInvAlways == Spec => []FrontInv
BY InitFrontInv, NextFrontInv, PTL DEF Spec

(* The variables are what they should be, the task ids without a gap.      *)
THEOREM TypeCorrect == Spec => []TypeOK
<1>1. FrontInv => TypeOK
  <2>. SUFFICES ASSUME FrontInv PROVE TypeOK
    OBVIOUS
  <2>1. FrontsTyped /\ TasksTyped
    BY DEF FrontInv
  <2>2. ASSUME NEW f \in Frontends
        PROVE  front[f] \in Fronts /\ conn[f] \in Conns /\ peek[f] \in Peekers
    BY <2>1 DEF FrontsTyped
  <2>3. ASSUME NEW f \in Frontends
        PROVE  /\ front[f].pc \in {"exited", "connect", "send", "wait", "peek"}
               /\ front[f].exit \in {0, 1}
               /\ conn[f].stage \in {"closed", "open", "sent", "unlogged", "unanswered",
                                     "answered", "lost"}
               /\ conn[f].status \in Statuses \union {"none", "active", "inactive",
                                                      "none found", "one found", "many found"}
               /\ peek[f].file \in {"off", "opening", "contents", "poll", "done"}
               /\ peek[f].query \in {"off", "check", "asked", "done"}
               /\ peek[f].shown \in Seq(Nat \X Nat)
    BY <2>2 DEF Fronts, Conns, Peekers, Outcomes
  <2>4. DOMAIN task = 0 .. Cardinality(DOMAIN task) - 1
    BY <2>1 DEF TasksTyped, NextId
  <2>. QED  BY <2>1, <2>3, <2>4 DEF TypeOK, FrontsTyped, TasksTyped
<1>. QED  BY <1>1, FrontInvAlways, PTL

(* No frontend is told an outcome before it is in the messages of the      *)
(* backend (backend/commands.go:189), of however many frontends.           *)
THEOREM OutcomesAreLogged == Spec => []ToldIsLogged
<1>1. FrontInv => ToldIsLogged
  <2>. SUFFICES ASSUME FrontInv, NEW f \in Frontends, front[f].line.cmd \in Deciding,
                       conn[f].stage = "answered"
       PROVE  messages[f] # "none"
    BY DEF ToldIsLogged, Deciding
  <2>. QED  BY DEF FrontInv, Told, Decisive
<1>. QED  BY <1>1, FrontInvAlways, PTL

(* A peek prints a log from its start, without a gap, at least as far as   *)
(* it went when it was opened (watch_file.go:23), however long it is and   *)
(* whatever happens to the task, unless the log is truncated meanwhile.    *)
THEOREM LogIsShown == Spec => []PeekShowsContents
<1>1. FrontInv => PeekShowsContents
  <2>. SUFFICES ASSUME FrontInv, NEW f \in Frontends, peek[f].file = "done",
                       peek[f].life > 0, log[Target(f)].life = peek[f].life
       PROVE  /\ Len(peek[f].shown) >= peek[f].opened
              /\ \A n \in DOMAIN peek[f].shown : peek[f].shown[n] = <<peek[f].life, n>>
    BY DEF PeekShowsContents
  <2>1. front[f].pc = "peek"
    BY DEF FrontInv, Told, InStep, NoPeek
  <2>. QED  BY <2>1, PeekFacts DEF Shows
<1>. QED  BY <1>1, FrontInvAlways, PTL

-----------------------------------------------------------------------------
(* How a command ends *)

LEMMA OwnSteps ==
  ASSUME FrontsTyped, NEW f \in Frontends, NEW g \in Frontends,
         \/ Start(g)
         \/ Invoke(g)
         \/ Handle(g)
         \/ LoseConnection(g)
         \/ WatchFile(g)
         \/ QueryLoop(g)
  PROVE  front'[f] = front[f] \/ (g = f /\ (Start(f) \/ Invoke(f)))
<1>. SUFFICES ASSUME ~(g = f /\ (Start(f) \/ Invoke(f))) PROVE front'[f] = front[f]
  OBVIOUS
<1>1. ASSUME Start(g) \/ Invoke(g) PROVE front'[f] = front[f]
  <2>1. g # f
    BY <1>1
  <2>2. PICK x : front' = front \/ front' = [front EXCEPT ![g] = x]
    <3>1. CASE \E status, exit : Exit(g, status, exit)
      BY <3>1 DEF Exit
    <3>2. CASE Start(g)
      BY <3>1, <3>2 DEF Start
    <3>3. CASE Connect(g)
      BY <3>1, <3>3 DEF Connect
    <3>4. CASE ConnectFails(g)
      BY <3>1, <3>4 DEF ConnectFails
    <3>5. CASE Send(g)
      BY <3>1, <3>5 DEF Send
    <3>6. CASE Receive(g)
      <4>1. CASE front' = [front EXCEPT ![g].pc = "peek", ![g].status = conn[g].status]
        <5>1. front' = [front EXCEPT ![g] = [[front[g] EXCEPT !.pc = "peek"]
                                               EXCEPT !.status = conn[g].status]]
          BY <4>1 DEF FrontsTyped
        <5>. QED  BY <5>1
      <4>. QED  BY <3>1, <3>6, <4>1 DEF Receive
    <3>7. CASE PeekReturns(g)
      BY <3>1, <3>7 DEF PeekReturns
    <3>. QED  BY <1>1, <3>2, <3>3, <3>4, <3>5, <3>6, <3>7 DEF Invoke
  <2>. QED  BY <2>1, <2>2 DEF FrontsTyped
<1>2. CASE Handle(g)
  BY <1>2 DEF Handle, CmdRun, CmdResume, CmdStop, CmdRefresh, CmdList, CmdLog,
              CmdQueryTaskActive, AddMessage, Answer
<1>3. CASE LoseConnection(g) \/ WatchFile(g) \/ QueryLoop(g)
  BY <1>3 DEF LoseConnection, WatchFile, OpenFile, OpenFails, PrintContents, Poll, QueryLoop,
              Query, Queried
<1>. QED  BY <1>1, <1>2, <1>3

(* The five ways to exit. *)
Unreachable(f) ==
  /\ front[f].pc = "connect"
  /\ front'[f].status = "unreachable"
  /\ front'[f].exit = ExitUnconnected(front[f].line.cmd)

Unsent(f) ==
  /\ front[f].pc = "send"
  /\ front'[f].status \in {"invalid", "lost"}
  /\ front'[f].exit = 1

Unanswered(f) ==
  /\ front[f].pc = "wait"
  /\ front'[f].status = "lost"
  /\ front'[f].exit = 1

AtAnswer(f) ==
  /\ front[f].pc = "wait" /\ conn[f].stage = "answered" /\ ~GoesOn(f)
  /\ front'[f].status = conn[f].status
  /\ front'[f].exit = IF Fails(front[f].line.cmd, conn[f].status) THEN 1 ELSE 0

AfterPeek(f) ==
  /\ front[f].pc = "peek" /\ peek[f].file = "done" /\ peek[f].query = "done"
  /\ front'[f].status = IF peek[f].life = 0 THEN "not opened" ELSE front[f].status
  /\ front'[f].exit = 0

LEMMA ExitStatus ==
  ASSUME FrontInv, NEW f \in Frontends, NEW status, NEW exit, Exit(f, status, exit)
  PROVE  front'[f].status = status /\ front'[f].exit = exit
<1>. DEFINE x == [Idle EXCEPT !.status = status, !.exit = exit]
<1>1. x.status = status /\ x.exit = exit
  BY DEF Idle
<1>2. front' = [front EXCEPT ![f] = x]
  BY DEF Exit
<1>. HIDE DEF x
<1>. QED  BY <1>1, <1>2 DEF FrontInv, FrontsTyped

LEMMA Ends ==
  ASSUME FrontInv, Next, NEW f \in Frontends, front[f].line.cmd \in Deciding \union {"peek"},
         front'[f].pc = "exited"
  PROVE  Unreachable(f) \/ Unsent(f) \/ Unanswered(f) \/ AtAnswer(f) \/ AfterPeek(f)
<1>1. /\ front[f].pc # "exited" /\ front[f].line.cmd # "check" /\ front[f] \in Fronts
      /\ front \in [Frontends -> Fronts]
  BY DEF FrontInv, FrontsTyped, Told, InStep, NoLine, Deciding
<1>2. Invoke(f)
  <2>1. ASSUME NEW g \in Frontends,
               Start(g) \/ Invoke(g) \/ Handle(g) \/ LoseConnection(g) \/ WatchFile(g)
                 \/ QueryLoop(g)
        PROVE  Invoke(f)
    <3>1. front'[f] # front[f]
      BY <1>1
    <3>. QED  BY <1>1, <2>1, <3>1, OwnSteps DEF FrontInv, Start
  <2>2. ASSUME front' = front PROVE FALSE
    BY <1>1, <2>2
  <2>3. CASE \E i \in DOMAIN task : TaskStarts(i) \/ TaskLogs(i) \/ TaskProceeds(i)
    BY <2>2, <2>3 DEF TaskStarts, TaskLogs, TaskProceeds
  <2>4. CASE HandleOther \/ TrimTick \/ Kill
    BY <2>2, <2>4 DEF HandleOther, TrimTick, Kill
  <2>. QED  BY <2>1, <2>3, <2>4 DEF Next
<1>3. CASE Connect(f)
  <2>1. front' = [front EXCEPT ![f].pc = "send"]
    BY <1>1, <1>3 DEF Connect
  <2>. QED  BY <1>1, <2>1 DEF Fronts
<1>4. CASE ConnectFails(f)
  BY <1>4, ExitStatus DEF ConnectFails, Unreachable
<1>5. CASE Send(f)
  <2>1. front' # [front EXCEPT ![f].pc = "wait"]
    BY <1>1 DEF Fronts
  <2>2. Exit(f, "invalid", 1) \/ Exit(f, "lost", 1)
    BY <1>5, <2>1 DEF Send
  <2>. QED  BY <1>5, <2>2, ExitStatus DEF Send, Unsent
<1>6. CASE Receive(f)
  <2>1. CASE Exit(f, "lost", 1)
    BY <1>6, <2>1, ExitStatus DEF Receive, Unanswered
  <2>2. CASE /\ conn[f].stage = "answered" /\ ~GoesOn(f)
             /\ Exit(f, conn[f].status,
                     IF Fails(front[f].line.cmd, conn[f].status) THEN 1 ELSE 0)
    BY <1>6, <2>2, ExitStatus DEF Receive, AtAnswer
  <2>3. front' # [front EXCEPT ![f].pc = "peek", ![f].status = conn[f].status]
    BY <1>1 DEF Fronts
  <2>. QED  BY <1>6, <2>1, <2>2, <2>3 DEF Receive
<1>7. CASE PeekReturns(f)
  BY <1>7, ExitStatus DEF PeekReturns, Peeks, Asks, AfterPeek
<1>. QED  BY <1>2, <1>3, <1>4, <1>5, <1>6, <1>7 DEF Invoke

(* The exit status of run, resume and stop says whether the backend did    *)
(* it, with the two exceptions of cli.go:282 and of a lost connection.     *)
THEOREM StatusTellsOutcome == Spec => ExitStatusTells
<1>1. FrontInv /\ [Next]_vars => [\A f \in Frontends : TellsOutcome(f)]_vars
  <2>. SUFFICES ASSUME FrontInv, Next, NEW f \in Frontends, front[f].line.cmd \in Deciding,
                       front'[f].pc = "exited"
       PROVE  IF history[f].accepted
              THEN front'[f].exit = 0 \/ front'[f].status = "lost"
              ELSE \/ front'[f].exit = 1
                   \/ front[f].line.cmd = "resume" /\ front'[f].status = "unreachable"
    BY DEF TellsOutcome, Exits, Deciding
  <2>1. Decisive(f)
    BY DEF FrontInv, Told
  <2>2. Unreachable(f) \/ Unsent(f) \/ Unanswered(f) \/ AtAnswer(f) \/ AfterPeek(f)
    BY Ends
  <2>3. CASE Unreachable(f) \/ Unsent(f) \/ Unanswered(f)
    BY <2>1, <2>3 DEF Decisive, Unreachable, Unsent, Unanswered, ExitUnconnected
  <2>4. CASE AtAnswer(f)
    <3>1. Fails(front[f].line.cmd, conn[f].status) <=> conn[f].status # "success"
      BY DEF Fails, Deciding
    <3>. QED  BY <2>1, <2>4, <3>1 DEF Decisive, AtAnswer
  <2>5. CASE AfterPeek(f)
    BY <2>1, <2>5 DEF Decisive, AfterPeek
  <2>. QED  BY <2>2, <2>3, <2>4, <2>5
<1>. QED  BY <1>1, FrontInvAlways, PTL DEF Spec, ExitStatusTells

(* The answer to a stop or a resume says how the task stood, if that did   *)
(* not change from the call to the exit (backend/commands.go:324).         *)
THEOREM AnswersSayHowTasksStood == Spec => AnswersTruthful
<1>1. FrontInv /\ [Next]_vars => [\A f \in Frontends : Truthful(f)]_vars
  <2>. DEFINE start(f) == history[f].start
              status(f) == front'[f].status
  <2>. SUFFICES ASSUME FrontInv, Next, NEW f \in Frontends,
                       front[f].line.cmd \in {"stop", "resume"}, front'[f].pc = "exited",
                       status(f) \in Statuses, ~history[f].moved
       PROVE  IF front[f].line.cmd = "stop"
              THEN /\ status(f) = "success" <=> start(f) = "active"
                   /\ status(f) = "notFound" => start(f) = "unknown"
              ELSE /\ status(f) = "notDeactivated" <=> start(f) = "active"
                   /\ status(f) = "notFound" <=> start(f) = "unknown"
    BY DEF Truthful, Exits
  <2>1. Stood(f) /\ Decisive(f) /\ HasTarget(f)
    BY DEF FrontInv, Told
  <2>2. AtAnswer(f) \/ AfterPeek(f)
    <3>1. Unreachable(f) \/ Unsent(f) \/ Unanswered(f) \/ AtAnswer(f) \/ AfterPeek(f)
      BY Ends DEF Deciding
    <3>. QED
      BY <3>1 DEF Unreachable, Unsent, Unanswered, Statuses, RunResponseStatus,
                  StopResponseStatus
  <2>3. CASE AtAnswer(f)
    BY <2>1, <2>3 DEF AtAnswer, Stood, Naming
  <2>4. CASE AfterPeek(f)
    <3>1. front[f].line.cmd = "resume" /\ start(f) = "deactivated"
      BY <2>1, <2>4 DEF AfterPeek, Stood, HasTarget, Naming
    <3>2. status(f) \in {"success", "not opened"}
      BY <2>1, <2>4 DEF AfterPeek, Decisive, Deciding
    <3>. QED  BY <3>1, <3>2
  <2>. QED  BY <2>2, <2>3, <2>4
<1>. QED  BY <1>1, FrontInvAlways, PTL DEF Spec, AnswersTruthful

(* A peek finds the task it names, and no other, if it was there when peek *)
(* was called and was not forgotten (backend/commands.go:110).             *)
THEOREM KnownTasksAreFound == Spec => PeekFindsKnown
<1>1. FrontInv /\ [Next]_vars => [\A f \in Frontends : FindsKnown(f)]_vars
  <2>. SUFFICES ASSUME FrontInv, Next, NEW f \in Frontends, front[f].line.cmd = "peek",
                       front'[f].pc = "exited"
       PROVE  /\ front'[f].status # "many found"
              /\ front'[f].status = "none found" /\ history[f].start # "unknown"
                   => ~Known(front[f].line.id)
    BY DEF FindsKnown, Exits
  <2>1. FoundTask(f)
    BY DEF FrontInv, Told
  <2>2. Unreachable(f) \/ Unsent(f) \/ Unanswered(f) \/ AtAnswer(f) \/ AfterPeek(f)
    BY Ends
  <2>3. CASE Unreachable(f) \/ Unsent(f) \/ Unanswered(f)
    BY <2>3 DEF Unreachable, Unsent, Unanswered
  <2>4. CASE AtAnswer(f) \/ AfterPeek(f)
    BY <2>1, <2>4 DEF AtAnswer, AfterPeek, FoundTask
  <2>. QED  BY <2>2, <2>3, <2>4
<1>. QED  BY <1>1, FrontInvAlways, PTL DEF Spec, PeekFindsKnown

(* Neither goroutine of a peek ends it while the task stays active and the *)
(* backend lives (frontend/commands.go:442).                               *)
THEOREM PeekGoesOn == Spec => PeekStays
<1>1. FrontInv /\ [Next]_vars => [\A f \in Frontends : StaysIfActive(f)]_vars
  <2>. SUFFICES ASSUME FrontInv, Next, NEW f \in Frontends, front[f].line.cmd = "peek",
                       front'[f].pc = "exited", front'[f].status = "one found",
                       history[f].start = "active", ~history[f].moved, up
       PROVE  FALSE
    BY DEF StaysIfActive, Exits, FrontInv, FrontsTyped
  <2>1. FoundTask(f) /\ Stays(f)
    BY DEF FrontInv, Told
  <2>2. Unreachable(f) \/ Unsent(f) \/ Unanswered(f) \/ AtAnswer(f) \/ AfterPeek(f)
    BY Ends
  <2>3. CASE Unreachable(f) \/ Unsent(f) \/ Unanswered(f)
    BY <2>3 DEF Unreachable, Unsent, Unanswered
  <2>4. CASE AtAnswer(f)
    BY <2>4 DEF AtAnswer, GoesOn
  <2>5. CASE AfterPeek(f)
    BY <2>1, <2>5 DEF AfterPeek, Stays
  <2>. QED  BY <2>2, <2>3, <2>4, <2>5
<1>. QED  BY <1>1, FrontInvAlways, PTL DEF Spec, PeekStays

(* The filter of a refresh wants neither active nor deactivated tasks.     *)
LEMMA RefreshSelectsNothing ==
  ASSUME NEW line, NEW id, NEW body, NEW active
  PROVE  ~Selects(RefreshFilter(line), id, body, active)
<1>1. ~RefreshFilter(line).active /\ ~RefreshFilter(line).deactivated
  BY DEF RefreshFilter
<1>. QED  BY <1>1 DEF Selects

(* No refresh wakes a task, whatever its arguments are: it is not only the *)
(* refresh of all tasks that reaches none (frontend/cli.go:231).           *)
THEOREM RefreshWakesNobody ==
  Spec => [][\A f \in Frontends : CmdRefresh(f) => UNCHANGED task]_vars
<1>1. FrontInv /\ [Next]_vars
        => [\A f \in Frontends : CmdRefresh(f) => UNCHANGED task]_vars
  <2>. SUFFICES ASSUME FrontInv, NEW f \in Frontends, CmdRefresh(f)
                PROVE  task' = task
    OBVIOUS
  <2>1. task' = [i \in DOMAIN task |-> task[i]]
    BY RefreshSelectsNothing DEF CmdRefresh
  <2>2. task = [i \in DOMAIN task |-> task[i]]
    BY DEF FrontInv, TasksTyped
  <2>. QED  BY <2>1, <2>2
<1>. QED  BY <1>1, FrontInvAlways, PTL DEF Spec

=============================================================================
