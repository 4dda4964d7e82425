---------------------------- MODULE TaskExecution ----------------------------
(***************************************************************************)
(* One call of ExecuteTask with the goroutines it works with: the          *)
(* per-task logger, for each execution of the command two goroutines that  *)
(* stream its output to the logger and one that waits for its end.         *)
(*                                                                         *)
(* log.channel is unbuffered: a send is one step of the sender and the     *)
(* logger together, and blocks for ever once the logger has left its loop. *)
(* log.outChannel holds one response.  Publication under the scheduler's   *)
(* lock is in Scheduler; here only the paths of the files are published.   *)
(*                                                                         *)
(* Executions are numbered from 0, as the logger numbers its files.        *)
(***************************************************************************)
EXTENDS Naturals, Sequences, FiniteSets

CONSTANTS
  MaxRuns,      \* bound: executions of the command
  MaxLines,     \* bound: lines an execution prints on each stream
  Captured,     \* the streams captured to files of their own
  LoggerFaults  \* may opening and writing the files fail?

ASSUME BoundAssumption == MaxRuns \in Nat \ {0} /\ MaxLines \in Nat

ASSUME FaultAssumption == LoggerFaults \in BOOLEAN

Runs == 0 .. MaxRuns - 1

Streams == {"stdout", "stderr"}

ASSUME CaptureAssumption == Captured \subseteq Streams

VARIABLES
  pc,        \* where ExecuteTask is
  run,       \* number of the current execution
  leaving,   \* shadowDynamicState.IsDeactivated
  ended,     \* how each execution ended for ExecuteTask
  lastFile,  \* shadowDynamicState.LastStdoutFilePath, by its number
  logger,    \* the logger goroutine
  file,      \* taskExecutionId of the logger
  open,      \* the streams whose output has an open file
  out,       \* log.outChannel
  alive,     \* executions whose command runs
  output,    \* executions whose output is held open, by the command or by
             \* something it started
  left,      \* lines an execution may still print
  pipe,      \* lines printed and not read
  stream,    \* the goroutines running streamOutput
  waiter,    \* the goroutines that wait for the command
  written,   \* the lines the logger wrote to files of captured output
  stopSent,  \* does the StopChannel hold a message?
  killed,    \* has the backend context been killed?
  cleaned    \* has the cleanup goroutine removed the directory of the files?

execVars == <<pc, run, leaving, ended, lastFile>>
loggerVars == <<logger, file, open, out>>
commandVars == <<alive, output, left, pipe, stream, waiter, written>>
backend == <<killed, cleaned>>
vars == <<execVars, loggerVars, commandVars, stopSent, backend>>

Response == [file : 0 .. MaxRuns, streams : SUBSET Captured, err : BOOLEAN]

(* A line that execution "run" printed on "from", written to the file of   *)
(* stream "to" and number "file".                                          *)
Line == [run : Runs, from : Streams, to : Streams, file : 0 .. MaxRuns]

TypeOK ==
  /\ pc \in {"info", "loop", "started", "running", "outcome", "separator",
             "response", "missing", "limit", "publish", "delay", "farewell", "final",
             "stopLogger", "returned"}
  /\ run \in Runs
  /\ leaving \in BOOLEAN
  /\ ended \in [Runs -> {"no", "normal", "interrupted"}]
  /\ lastFile \in 0 .. MaxRuns
  /\ logger \in {"receive", "failing", "stopped"}
  /\ file \in 0 .. MaxRuns
  /\ open \subseteq Captured
  /\ out \in Seq(Response) /\ Len(out) <= 1
  /\ alive \subseteq Runs
  /\ output \subseteq Runs
  /\ left \in [Runs \X Streams -> 0 .. MaxLines]
  /\ pipe \in [Runs \X Streams -> 0 .. MaxLines]
  /\ stream \in [Runs \X Streams -> {"none", "reading", "sending", "done"}]
  /\ waiter \in [Runs -> {"none", "waiting", "done"}]
  /\ written \subseteq Line
  /\ stopSent \in BOOLEAN
  /\ killed \in BOOLEAN
  /\ cleaned \in BOOLEAN

Init ==
  /\ pc = "info"
  /\ run = 0
  /\ leaving = FALSE
  /\ ended = [k \in Runs |-> "no"]
  /\ lastFile = MaxRuns
  /\ logger = "receive"
  /\ file = 0
  /\ open = Captured
  /\ out = <<>>
  /\ alive = {}
  /\ output = {}
  /\ left = [x \in Runs \X Streams |-> MaxLines]
  /\ pipe = [x \in Runs \X Streams |-> 0]
  /\ stream = [x \in Runs \X Streams |-> "none"]
  /\ waiter = [k \in Runs |-> "none"]
  /\ written = {}
  /\ stopSent = FALSE
  /\ killed = FALSE
  /\ cleaned = FALSE

-----------------------------------------------------------------------------
(* The logger *)

(* It takes a message and writes it; a write that fails ends its loop. *)
Receives ==
  /\ logger = "receive"
  /\ \/ UNCHANGED logger
     \/ LoggerFaults /\ logger' = "failing"
  /\ UNCHANGED <<file, open>>

(* Mutant: the response names the files of the next execution. *)
ReopenedFiles == [file |-> file + 1, streams |-> open, err |-> FALSE]

ClosedFiles == [file |-> file, streams |-> open, err |-> FALSE]

LoggingError == [file |-> file, streams |-> {}, err |-> TRUE]

(* Mutant: no file that cannot be created is an error. *)
NoCreationError(failed) == FALSE

(* The outcome for stderr overwrites the one for stdout, so that stdout is *)
(* not captured any more and nobody is told.                               *)
CreationError(failed) ==
  IF "stderr" \in open THEN "stderr" \in failed ELSE "stdout" \in failed

(* It takes a separator: closes the files, creates the next ones, which    *)
(* fails in a directory that is gone, and responds with the paths of the   *)
(* closed ones.                                                            *)
ReceivesSeparator ==
  /\ logger = "receive"
  /\ out = <<>>
  /\ out' = <<ClosedFiles>>
  /\ file' = file + 1
  /\ \E failed \in SUBSET open :
       /\ failed = {} \/ LoggerFaults \/ cleaned
       /\ IF CreationError(failed)
          THEN logger' = "failing" /\ open' = {}
          ELSE open' = open \ failed /\ UNCHANGED logger

ReceivesStop ==
  /\ logger = "receive"
  /\ logger' = "stopped"
  /\ UNCHANGED <<file, open, out>>

(* Mutant: the error is queued behind a response that was not taken.       *)
ReportsAtOnce ==
  /\ logger = "failing"
  /\ out' = Append(out, LoggingError)
  /\ logger' = "stopped"
  /\ UNCHANGED <<execVars, file, open, commandVars, stopSent, backend>>

LoggerReportsError ==
  /\ logger = "failing"
  /\ out = <<>>
  /\ out' = <<LoggingError>>
  /\ logger' = "stopped"
  /\ UNCHANGED <<execVars, file, open, commandVars, stopSent, backend>>

-----------------------------------------------------------------------------
(* The command of execution k and the goroutines around it *)

WriteLine(k, s) ==
  /\ k \in output
  /\ left[<<k, s>>] > 0
  /\ left' = [left EXCEPT ![<<k, s>>] = @ - 1]
  /\ pipe' = [pipe EXCEPT ![<<k, s>>] = @ + 1]
  /\ UNCHANGED <<execVars, loggerVars, alive, output, stream, waiter, written, stopSent, backend>>

(* The command ends by itself, or is killed when its context is cancelled: *)
(* with the backend's, or by the deferred cmdCancel when ExecuteTask       *)
(* returns.  What it started may go on and hold its output open.           *)
Dies(k) ==
  /\ k \in alive
  /\ alive' = alive \ {k}
  /\ output' \in {output, output \ {k}}
  /\ UNCHANGED <<execVars, loggerVars, left, pipe, stream, waiter, written, stopSent, backend>>

OutputCloses(k) ==
  /\ k \in output
  /\ output' = output \ {k}
  /\ UNCHANGED <<execVars, loggerVars, alive, left, pipe, stream, waiter, written,
                 stopSent, backend>>

(* Mutant: the command does not get the context. *)
NoContext(k) == FALSE

(* exec.CommandContext kills the command and nothing it started. *)
KillsCommand(k) ==
  /\ killed \/ pc \in {"stopLogger", "returned"}
  /\ Dies(k)

ReadLine(k, s) ==
  /\ stream[<<k, s>>] = "reading"
  /\ pipe[<<k, s>>] > 0
  /\ pipe' = [pipe EXCEPT ![<<k, s>>] = @ - 1]
  /\ stream' = [stream EXCEPT ![<<k, s>>] = "sending"]
  /\ UNCHANGED <<execVars, loggerVars, alive, output, left, waiter, written, stopSent, backend>>

(* The file a line goes to besides the log of the task: lines of stderr    *)
(* that is not captured go to the file of stdout, if there is one.         *)
TargetOf(s) ==
  IF s = "stderr" /\ "stderr" \in open THEN {"stderr"}
  ELSE {"stdout"} \intersect open

SendLine(k, s) ==
  /\ stream[<<k, s>>] = "sending"
  /\ Receives
  /\ stream' = [stream EXCEPT ![<<k, s>>] = "reading"]
  /\ \/ written' = written \union {[run |-> k, from |-> s, to |-> t, file |-> file] :
                                     t \in TargetOf(s)}
     \/ logger' = "failing" /\ UNCHANGED written
  /\ UNCHANGED <<execVars, out, alive, output, left, pipe, waiter, stopSent, backend>>

StreamEnds(k, s) ==
  /\ stream[<<k, s>>] = "reading"
  /\ k \notin output
  /\ pipe[<<k, s>>] = 0
  /\ stream' = [stream EXCEPT ![<<k, s>>] = "done"]
  /\ UNCHANGED <<execVars, loggerVars, alive, output, left, pipe, waiter, written, stopSent, backend>>

(* Mutant: cmd.Wait is called while the output is still streamed. *)
ProcessEnded(k) == k \notin alive

OutputStreamed(k) ==
  k \notin alive /\ \A s \in Streams : stream[<<k, s>>] = "done"

CommandWaited(k) ==
  /\ waiter[k] = "waiting"
  /\ OutputStreamed(k)
  /\ waiter' = [waiter EXCEPT ![k] = "done"]
  /\ UNCHANGED <<execVars, loggerVars, alive, output, left, pipe, stream, written, stopSent, backend>>

-----------------------------------------------------------------------------
(* ExecuteTask *)

(* A diagnostic message at one point of the function leads to the next. *)
Log(from, to) ==
  /\ pc = from
  /\ Receives
  /\ pc' = to

LogInfo ==
  /\ Log("info", "loop")
  /\ UNCHANGED <<run, leaving, ended, lastFile, out, commandVars, stopSent, backend>>

Start ==
  /\ pc = "loop"
  /\ ~killed
  /\ pc' = "started"
  /\ alive' = alive \union {run}
  /\ output' = output \union {run}
  /\ UNCHANGED <<run, leaving, ended, lastFile, loggerVars, left, pipe, stream,
                 waiter, written, stopSent, backend>>

StartFails ==
  /\ pc = "loop"
  /\ pc' = "farewell"
  /\ leaving' = TRUE
  /\ UNCHANGED <<run, ended, lastFile, loggerVars, commandVars, stopSent, backend>>

(* "Command started.", then the three goroutines are started. *)
LogStarted ==
  /\ Log("started", "running")
  /\ stream' = [x \in Runs \X Streams |-> IF x[1] = run THEN "reading" ELSE stream[x]]
  /\ waiter' = [waiter EXCEPT ![run] = "waiting"]
  /\ UNCHANGED <<run, leaving, ended, lastFile, out, alive, output, left, pipe, written,
                 stopSent, backend>>

CommandEnded ==
  /\ pc = "running"
  /\ waiter[run] = "done"
  /\ pc' = "outcome"
  /\ ended' = [ended EXCEPT ![run] = "normal"]
  /\ UNCHANGED <<run, leaving, lastFile, loggerVars, commandVars, stopSent, backend>>

Interrupted ==
  /\ pc = "running"
  /\ pc' = "outcome"
  /\ leaving' = TRUE
  /\ ended' = [ended EXCEPT ![run] = "interrupted"]
  /\ UNCHANGED <<run, lastFile, logger, file, open, commandVars, backend>>

ContextDone == killed /\ Interrupted /\ UNCHANGED <<out, stopSent>>

StopReceived == stopSent /\ stopSent' = FALSE /\ Interrupted /\ UNCHANGED out

LoggerFailed == out # <<>> /\ out' = <<>> /\ Interrupted /\ UNCHANGED stopSent

LogOutcome ==
  /\ Log("outcome", "separator")
  /\ UNCHANGED <<run, leaving, ended, lastFile, out, commandVars, stopSent, backend>>

SendSeparator ==
  /\ pc = "separator"
  /\ ReceivesSeparator
  /\ pc' = "response"
  /\ UNCHANGED <<run, leaving, ended, lastFile, commandVars, stopSent, backend>>

(* Reaching the limit, which depends on the counters, is logged. *)
UpdateCounters ==
  \/ pc' = "publish" /\ UNCHANGED leaving
  \/ pc' = "limit" /\ leaving' = TRUE

(* Closed files that do not exist any more are logged, too; one message    *)
(* stands for those about the two streams.                                 *)
ReceiveResponse ==
  /\ pc = "response"
  /\ out # <<>>
  /\ out' = <<>>
  /\ lastFile' = Head(out).file
  /\ IF cleaned /\ Head(out).streams # {}
     THEN pc' = "missing" /\ UNCHANGED leaving
     ELSE UpdateCounters
  /\ UNCHANGED <<run, ended, logger, file, open, commandVars, stopSent, backend>>

LogMissing ==
  /\ pc = "missing"
  /\ Receives
  /\ UpdateCounters
  /\ UNCHANGED <<run, ended, lastFile, out, commandVars, stopSent, backend>>

LogLimit ==
  /\ Log("limit", "publish")
  /\ UNCHANGED <<run, leaving, ended, lastFile, out, commandVars, stopSent, backend>>

Publish ==
  /\ pc = "publish"
  /\ pc' = IF leaving THEN "final" ELSE "delay"
  /\ UNCHANGED <<run, leaving, ended, lastFile, loggerVars, commandVars, stopSent, backend>>

(* The timer or a refresh. *)
DelayEnds ==
  /\ pc = "delay"
  /\ run + 1 < MaxRuns
  /\ pc' = "loop"
  /\ run' = run + 1
  /\ UNCHANGED <<leaving, ended, lastFile, loggerVars, commandVars, stopSent, backend>>

(* Mutant: the task is not deactivated. *)
StopIsLogged ==
  /\ pc = "delay"
  /\ stopSent
  /\ stopSent' = FALSE
  /\ pc' = "delay"
  /\ UNCHANGED <<run, leaving, ended, lastFile, loggerVars, commandVars, backend>>

StopDuringDelay ==
  /\ pc = "delay"
  /\ stopSent
  /\ stopSent' = FALSE
  /\ pc' = "farewell"
  /\ leaving' = TRUE
  /\ UNCHANGED <<run, ended, lastFile, loggerVars, commandVars, backend>>

ContextDoneDuringDelay ==
  /\ pc = "delay"
  /\ killed
  /\ pc' = "farewell"
  /\ leaving' = TRUE
  /\ UNCHANGED <<run, ended, lastFile, loggerVars, commandVars, stopSent, backend>>

LogFarewell ==
  /\ Log("farewell", "final")
  /\ UNCHANGED <<run, leaving, ended, lastFile, out, commandVars, stopSent, backend>>

(* The deferred calls: contexts are cancelled, then the logger is stopped. *)
(* Its WaitGroup is at zero since run() returned.                          *)
FinalPublish ==
  /\ pc = "final"
  /\ pc' = "stopLogger"
  /\ UNCHANGED <<run, leaving, ended, lastFile, loggerVars, commandVars, stopSent, backend>>

StopLogger ==
  /\ pc = "stopLogger"
  /\ ReceivesStop
  /\ pc' = "returned"
  /\ UNCHANGED <<run, leaving, ended, lastFile, commandVars, stopSent, backend>>

-----------------------------------------------------------------------------
(* Specification *)

SendStop ==
  /\ ~stopSent
  /\ pc \notin {"final", "stopLogger", "returned"}
  /\ stopSent' = TRUE
  /\ UNCHANGED <<execVars, loggerVars, commandVars, backend>>

Kill ==
  /\ ~killed
  /\ killed' = TRUE
  /\ UNCHANGED <<execVars, loggerVars, commandVars, stopSent, cleaned>>

(* The cleanup goroutine waits for the context as the others do, not for   *)
(* the others.                                                             *)
Cleanup ==
  /\ killed
  /\ ~cleaned
  /\ cleaned' = TRUE
  /\ UNCHANGED <<execVars, loggerVars, commandVars, stopSent, killed>>

ExecuteTask ==
  \/ LogInfo
  \/ Start
  \/ StartFails
  \/ LogStarted
  \/ CommandEnded
  \/ ContextDone
  \/ StopReceived
  \/ LoggerFailed
  \/ LogOutcome
  \/ SendSeparator
  \/ ReceiveResponse
  \/ LogMissing
  \/ LogLimit
  \/ Publish
  \/ DelayEnds
  \/ StopDuringDelay
  \/ ContextDoneDuringDelay
  \/ LogFarewell
  \/ FinalPublish
  \/ StopLogger

Stream(k, s) == ReadLine(k, s) \/ SendLine(k, s) \/ StreamEnds(k, s)

Next ==
  \/ SendStop
  \/ Kill
  \/ Cleanup
  \/ ExecuteTask
  \/ LoggerReportsError
  \/ \E k \in Runs :
       \/ Dies(k)
       \/ OutputCloses(k)
       \/ CommandWaited(k)
       \/ \E s \in Streams : WriteLine(k, s) \/ Stream(k, s)

Spec == Init /\ [][Next]_vars

(* Goroutines that can go on do, senders to a channel queue up in order,   *)
(* and select picks at random.  A command need not end unless its context  *)
(* is cancelled, and nothing ends what it started.                         *)
FairSpec ==
  /\ Spec
  /\ WF_vars(ExecuteTask)
  /\ SF_vars(StopReceived \/ StopDuringDelay)
  /\ WF_vars(LoggerReportsError)
  /\ \A k \in Runs :
       /\ WF_vars(KillsCommand(k))
       /\ WF_vars(CommandWaited(k))
       /\ \A s \in Streams : WF_vars(Stream(k, s))

-----------------------------------------------------------------------------
(* Properties *)

(* The lines of an execution go to the files of this execution             *)
(* (per_task_logger.go:85), except what a command prints after its task    *)
(* was stopped: it still runs then, and the files are reopened.            *)
OutputInOwnFiles ==
  \A w \in written : w.file # w.run => ended[w.run] = "interrupted"

(* When ExecuteTask learns that a command ended, everything it printed has *)
(* been taken over by the logger (execute_task.go:128), ahead of the       *)
(* separator that closes the files: list --json shows whole outputs.       *)
OutputComplete ==
  \A k \in Runs :
    ended[k] = "normal" =>
      \A s \in Streams : pipe[<<k, s>>] = 0 /\ stream[<<k, s>>] = "done"

(* What an execution that ended by itself printed on a captured stream is  *)
(* in a file of this stream, as long as the logger works: only stdout can  *)
(* be lost without an error, when stderr is captured as well, and not in   *)
(* the first execution (per_task_logger.go:206).                           *)
OnlyStdoutLost ==
  logger = "receive" =>
    \A k \in Runs, s \in Captured :
      ended[k] = "normal" /\ left[<<k, s>>] < MaxLines
      => \/ \E w \in written : w.run = k /\ w.from = s /\ w.to = s
         \/ s = "stdout" /\ "stderr" \in Captured /\ k > 0

(* The response taken after a separator is the one to this separator,      *)
(* never an error left in outChannel, and the files published as the last  *)
(* output are those of the execution that just ended (execute_task.go:163).*)
LastFilesAreOwn ==
  /\ pc = "response" => out = <<>> \/ ~Head(out).err
  /\ pc \in {"missing", "limit", "publish", "delay"} => lastFile = run

LoggerLost == logger # "receive" /\ pc # "returned"

Stranded(k, s) == stream[<<k, s>>] = "sending" /\ logger = "stopped"

(* A stop makes ExecuteTask return, unless the logger failed               *)
(* (execute_task.go:159 and 215).                                          *)
StopReturns == stopSent ~> (pc = "returned" \/ LoggerLost)

AllReturned ==
  /\ pc = "returned"
  /\ logger = "stopped"
  /\ \A k \in Runs : waiter[k] # "waiting"
  /\ \A k \in Runs, s \in Streams : stream[<<k, s>>] \in {"none", "done"}

(* What a command started outlived it and holds its output open. *)
Orphaned == \E k \in Runs : k \in output \ alive

(* After the backend is killed all the goroutines return.  Three things    *)
(* can keep them: a logger that failed, a line sent after the logger was   *)
(* stopped, and an output that is held open for ever by something the      *)
(* command started, which the context does not kill (execute_task.go:94).  *)
KillReturnsOrStrands ==
  <>[]~Orphaned =>
    (killed ~> \/ AllReturned
               \/ LoggerLost
               \/ \E k \in Runs, s \in Streams : Stranded(k, s))

(* connect.go:193: the backend waits for its goroutines, so they have to   *)
(* return once it is killed, at least while their logger works and every   *)
(* output is closed in the end.                                            *)
KillReturns == <>[]~Orphaned => (killed ~> (AllReturned \/ LoggerLost))

=============================================================================
