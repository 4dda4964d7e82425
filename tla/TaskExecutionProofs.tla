-------------------------- MODULE TaskExecutionProofs --------------------------
(***************************************************************************)
(* Theorems about TaskExecution, for every number of executions and of     *)
(* lines, every choice of captured streams, and with or without faults of  *)
(* the logger.                                                             *)
(***************************************************************************)
EXTENDS TaskExecution, TLAPS

-----------------------------------------------------------------------------
(* The invariant *)

(* The number of the logger's files is the one of the execution up to its  *)
(* separator and the next one after it, and the response is the one to     *)
(* this separator.                                                         *)
FilesCounted ==
  /\ pc \in {"info", "loop", "started", "running", "outcome", "separator"} => file = run
  /\ pc \in {"response", "missing", "limit", "publish", "delay"} => file = run + 1
  /\ pc = "response" =>
       \E s \in SUBSET Captured : out = <<[file |-> run, streams |-> s, err |-> FALSE]>>
  /\ pc \in {"missing", "limit", "publish", "delay"} => lastFile = run

LinesCounted == \A k \in Runs, s \in Streams : left[<<k, s>>] + pipe[<<k, s>>] <= MaxLines

(* Executions end one after the other, and what runs of the goroutines of  *)
(* an execution that did not end is that of the current one.               *)
RunsInOrder ==
  \A k \in Runs :
    /\ ended[k] # "no" =>
         k < run \/ (k = run /\ pc \notin {"info", "loop", "started", "running"})
    /\ ended[k] = "no" /\ ~(k = run /\ pc = "running") =>
         /\ waiter[k] = "none"
         /\ \A s \in Streams : stream[<<k, s>>] = "none"

(* The command is waited for after its output was streamed, which happens  *)
(* after the output was closed.                                            *)
StreamedInOrder ==
  \A k \in Runs :
    /\ \A s \in Streams : stream[<<k, s>>] = "done" => k \notin output /\ pipe[<<k, s>>] = 0
    /\ waiter[k] = "done" => \A s \in Streams : stream[<<k, s>>] = "done"
    /\ ended[k] = "normal" => waiter[k] = "done"

ExecInv ==
  /\ TypeOK
  /\ FilesCounted
  /\ LinesCounted
  /\ RunsInOrder
  /\ StreamedInOrder
  /\ OutputInOwnFiles

LEMMA BoundType == MaxRuns \in Nat /\ MaxRuns > 0 /\ MaxLines \in Nat
BY BoundAssumption

LEMMA InitExecInv == Init => ExecInv
<1>. SUFFICES ASSUME Init PROVE ExecInv
  OBVIOUS
<1>1. TypeOK
  <2>1. run \in Runs /\ lastFile \in 0 .. MaxRuns /\ file \in 0 .. MaxRuns
    BY BoundType DEF Init, Runs
  <2>2. out \in Seq(Response) /\ Len(out) <= 1
    BY DEF Init
  <2>3. /\ left \in [Runs \X Streams -> 0 .. MaxLines]
        /\ pipe \in [Runs \X Streams -> 0 .. MaxLines]
    BY BoundType DEF Init
  <2>. QED  BY <2>1, <2>2, <2>3 DEF Init, TypeOK
<1>2. FilesCounted /\ RunsInOrder /\ StreamedInOrder /\ OutputInOwnFiles
  BY BoundType DEF Init, FilesCounted, RunsInOrder, StreamedInOrder, OutputInOwnFiles
<1>3. LinesCounted
  BY BoundType DEF Init, LinesCounted
<1>. QED  BY <1>1, <1>2, <1>3 DEF ExecInv

-----------------------------------------------------------------------------
(* Type correctness of the steps *)

LEMMA LoggerKeepsType ==
  ASSUME TypeOK, Receives
  PROVE  /\ logger' \in {"receive", "failing"}
         /\ UNCHANGED <<file, open>>
BY DEF TypeOK, Receives

LEMMA ExecuteTaskTypeOK ==
  ASSUME TypeOK, FilesCounted, ExecuteTask
  PROVE  TypeOK'
<1>. USE DEF TypeOK, execVars, loggerVars, commandVars, backend
<1>1. CASE LogInfo
  BY <1>1, LoggerKeepsType DEF LogInfo, Log
<1>2. CASE Start
  BY <1>2 DEF Start
<1>3. CASE StartFails
  BY <1>3 DEF StartFails
<1>4. CASE LogStarted
  BY <1>4, LoggerKeepsType DEF LogStarted, Log
<1>5. CASE CommandEnded
  BY <1>5 DEF CommandEnded
<1>6. CASE ContextDone
  BY <1>6 DEF ContextDone, Interrupted
<1>7. CASE StopReceived
  BY <1>7 DEF StopReceived, Interrupted
<1>8. CASE LoggerFailed
  BY <1>8 DEF LoggerFailed, Interrupted
<1>9. CASE LogOutcome
  BY <1>9, LoggerKeepsType DEF LogOutcome, Log
<1>10. CASE SendSeparator
  <2>1. /\ pc' = "response" /\ out' = <<[file |-> file, streams |-> open, err |-> FALSE]>>
        /\ file' = file + 1 /\ open' \subseteq open
        /\ logger' \in {"receive", "failing"}
        /\ UNCHANGED <<run, leaving, ended, lastFile, commandVars, stopSent, backend>>
    BY <1>10 DEF SendSeparator, ReceivesSeparator, ClosedFiles
  <2>2. file = run
    BY <1>10 DEF SendSeparator, FilesCounted
  <2>3. file' \in 0 .. MaxRuns
    BY <2>1, <2>2, BoundType DEF Runs
  <2>4. [file |-> file, streams |-> open, err |-> FALSE] \in Response
    BY DEF Response
  <2>5. out' \in Seq(Response) /\ Len(out') <= 1
    BY <2>1, <2>4
  <2>. QED  BY <2>1, <2>3, <2>5
<1>11. CASE ReceiveResponse
  <2>1. Head(out) \in Response
    BY <1>11 DEF ReceiveResponse
  <2>2. lastFile' \in 0 .. MaxRuns
    BY <1>11, <2>1 DEF ReceiveResponse, Response
  <2>3. out' \in Seq(Response) /\ Len(out') <= 1
    BY <1>11 DEF ReceiveResponse
  <2>. QED  BY <1>11, <2>2, <2>3 DEF ReceiveResponse, UpdateCounters
<1>12. CASE LogMissing
  BY <1>12, LoggerKeepsType DEF LogMissing, UpdateCounters
<1>13. CASE LogLimit
  BY <1>13, LoggerKeepsType DEF LogLimit, Log
<1>14. CASE Publish
  BY <1>14 DEF Publish
<1>15. CASE DelayEnds
  BY <1>15, BoundType DEF DelayEnds, Runs
<1>16. CASE StopDuringDelay
  BY <1>16 DEF StopDuringDelay
<1>17. CASE ContextDoneDuringDelay
  BY <1>17 DEF ContextDoneDuringDelay
<1>18. CASE LogFarewell
  BY <1>18, LoggerKeepsType DEF LogFarewell, Log
<1>19. CASE FinalPublish
  BY <1>19 DEF FinalPublish
<1>20. CASE StopLogger
  BY <1>20 DEF StopLogger, ReceivesStop
<1>. QED
  BY <1>1, <1>2, <1>3, <1>4, <1>5, <1>6, <1>7, <1>8, <1>9, <1>10, <1>11, <1>12, <1>13,
     <1>14, <1>15, <1>16, <1>17, <1>18, <1>19, <1>20
     DEF ExecuteTask

LEMMA CommandTypeOK ==
  ASSUME TypeOK, LinesCounted, NEW k \in Runs,
         \/ Dies(k)
         \/ OutputCloses(k)
         \/ CommandWaited(k)
         \/ \E s \in Streams : WriteLine(k, s) \/ Stream(k, s)
  PROVE  TypeOK'
<1>. USE DEF TypeOK, execVars, loggerVars, commandVars, backend
<1>1. CASE Dies(k)
  BY <1>1 DEF Dies
<1>2. CASE OutputCloses(k)
  BY <1>2 DEF OutputCloses
<1>3. CASE CommandWaited(k)
  BY <1>3 DEF CommandWaited
<1>4. ASSUME NEW s \in Streams, WriteLine(k, s) PROVE TypeOK'
  <2>1. /\ left[<<k, s>>] - 1 \in 0 .. MaxLines
        /\ pipe[<<k, s>>] + 1 \in 0 .. MaxLines
    BY <1>4, BoundType DEF WriteLine, LinesCounted
  <2>. QED  BY <1>4, <2>1 DEF WriteLine
<1>5. ASSUME NEW s \in Streams, ReadLine(k, s) PROVE TypeOK'
  <2>1. pipe[<<k, s>>] - 1 \in 0 .. MaxLines
    BY <1>5, BoundType DEF ReadLine
  <2>. QED  BY <1>5, <2>1 DEF ReadLine
<1>6. ASSUME NEW s \in Streams, SendLine(k, s) PROVE TypeOK'
  <2>1. ASSUME NEW t \in TargetOf(s)
        PROVE  [run |-> k, from |-> s, to |-> t, file |-> file] \in Line
    BY CaptureAssumption DEF Line, TargetOf, Streams
  <2>2. written' \subseteq Line
    BY <1>6, <2>1 DEF SendLine
  <2>. QED  BY <1>6, <2>2, LoggerKeepsType DEF SendLine
<1>7. ASSUME NEW s \in Streams, StreamEnds(k, s) PROVE TypeOK'
  BY <1>7 DEF StreamEnds
<1>. QED  BY <1>1, <1>2, <1>3, <1>4, <1>5, <1>6, <1>7 DEF Stream

LEMMA NextTypeOK == ExecInv /\ [Next]_vars => TypeOK'
<1>. SUFFICES ASSUME ExecInv, [Next]_vars PROVE TypeOK'
  OBVIOUS
<1>. USE DEF ExecInv, execVars, loggerVars, commandVars, backend
<1>1. CASE SendStop
  BY <1>1 DEF SendStop, TypeOK
<1>2. CASE Kill
  BY <1>2 DEF Kill, TypeOK
<1>3. CASE Cleanup
  BY <1>3 DEF Cleanup, TypeOK
<1>4. CASE LoggerReportsError
  <2>1. LoggingError \in Response
    BY DEF LoggingError, Response, TypeOK
  <2>2. out' \in Seq(Response) /\ Len(out') <= 1
    BY <1>4, <2>1 DEF LoggerReportsError
  <2>. QED  BY <1>4, <2>2 DEF LoggerReportsError, TypeOK
<1>5. CASE UNCHANGED vars
  BY <1>5 DEF vars, TypeOK
<1>. QED  BY <1>1, <1>2, <1>3, <1>4, <1>5, ExecuteTaskTypeOK, CommandTypeOK DEF Next

-----------------------------------------------------------------------------
(* The steps keep the order of executions *)

(* What the steps of ExecuteTask leave alone unless they start or end an   *)
(* execution.                                                              *)
LEMMA TaskKeepsOrder ==
  ASSUME ExecInv, TypeOK', run' = run, UNCHANGED <<ended, commandVars>>,
         pc # "running",
         pc' \notin {"info", "loop", "started", "running"}
           \/ (pc \in {"info", "loop"} /\ pc' \in {"loop", "started"})
  PROVE  LinesCounted' /\ RunsInOrder' /\ StreamedInOrder' /\ OutputInOwnFiles'
<1>1. LinesCounted' /\ StreamedInOrder' /\ OutputInOwnFiles'
  BY DEF ExecInv, LinesCounted, StreamedInOrder, OutputInOwnFiles, commandVars
<1>2. RunsInOrder'
  BY DEF ExecInv, TypeOK, RunsInOrder, commandVars
<1>. QED  BY <1>1, <1>2

LEMMA ExecuteTaskKeepsFiles ==
  ASSUME ExecInv, ExecuteTask
  PROVE  FilesCounted'
<1>. USE DEF ExecInv, TypeOK, FilesCounted, execVars, loggerVars, commandVars, Receives
<1>1. CASE LogInfo
  BY <1>1 DEF LogInfo, Log
<1>2. CASE Start
  BY <1>2 DEF Start
<1>3. CASE StartFails
  BY <1>3 DEF StartFails
<1>4. CASE LogStarted
  BY <1>4 DEF LogStarted, Log
<1>5. CASE CommandEnded
  BY <1>5 DEF CommandEnded
<1>6. CASE ContextDone
  BY <1>6 DEF ContextDone, Interrupted
<1>7. CASE StopReceived
  BY <1>7 DEF StopReceived, Interrupted
<1>8. CASE LoggerFailed
  BY <1>8 DEF LoggerFailed, Interrupted
<1>9. CASE LogOutcome
  BY <1>9 DEF LogOutcome, Log
<1>10. CASE SendSeparator
  BY <1>10 DEF SendSeparator, ReceivesSeparator, ClosedFiles
<1>11. CASE ReceiveResponse
  <2>1. Head(out).file = run
    BY <1>11 DEF ReceiveResponse
  <2>. QED  BY <1>11, <2>1 DEF ReceiveResponse, UpdateCounters
<1>12. CASE LogMissing
  BY <1>12 DEF LogMissing, UpdateCounters
<1>13. CASE LogLimit
  BY <1>13 DEF LogLimit, Log
<1>14. CASE Publish
  BY <1>14 DEF Publish
<1>15. CASE DelayEnds
  BY <1>15 DEF DelayEnds
<1>16. CASE StopDuringDelay
  BY <1>16 DEF StopDuringDelay
<1>17. CASE ContextDoneDuringDelay
  BY <1>17 DEF ContextDoneDuringDelay
<1>18. CASE LogFarewell
  BY <1>18 DEF LogFarewell, Log
<1>19. CASE FinalPublish
  BY <1>19 DEF FinalPublish
<1>20. CASE StopLogger
  BY <1>20 DEF StopLogger, ReceivesStop
<1>. QED
  BY <1>1, <1>2, <1>3, <1>4, <1>5, <1>6, <1>7, <1>8, <1>9, <1>10, <1>11, <1>12, <1>13,
     <1>14, <1>15, <1>16, <1>17, <1>18, <1>19, <1>20
     DEF ExecuteTask

LEMMA RunNotEnded ==
  ASSUME TypeOK, RunsInOrder, pc \in {"info", "loop", "started", "running"}
  PROVE  ended[run] = "no"
<1>1. ~(run < run) /\ run \in Runs
  BY BoundType DEF TypeOK, Runs
<1>. QED  BY <1>1 DEF RunsInOrder, TypeOK

LEMMA InterruptedKeepsOrder ==
  ASSUME ExecInv, TypeOK', Interrupted
  PROVE  LinesCounted' /\ RunsInOrder' /\ StreamedInOrder' /\ OutputInOwnFiles'
<1>. USE DEF ExecInv, TypeOK, Interrupted, commandVars
<1>1. /\ pc = "running" /\ pc' = "outcome" /\ ended[run] = "no"
      /\ ended' = [ended EXCEPT ![run] = "interrupted"]
  BY RunNotEnded
<1>2. LinesCounted' /\ RunsInOrder' /\ StreamedInOrder'
  BY <1>1 DEF LinesCounted, RunsInOrder, StreamedInOrder
<1>3. OutputInOwnFiles'
  BY <1>1 DEF OutputInOwnFiles, Line
<1>. QED  BY <1>2, <1>3

LEMMA ExecuteTaskKeepsOrder ==
  ASSUME ExecInv, TypeOK', ExecuteTask
  PROVE  LinesCounted' /\ RunsInOrder' /\ StreamedInOrder' /\ OutputInOwnFiles'
<1>1. CASE LogInfo
  BY <1>1, TaskKeepsOrder DEF LogInfo, Log
<1>2. CASE Start
  <2>. USE <1>2 DEF ExecInv, TypeOK, Start
  <2>1. LinesCounted' /\ RunsInOrder' /\ OutputInOwnFiles'
    BY DEF LinesCounted, RunsInOrder, OutputInOwnFiles
  <2>2. \A s \in Streams : stream[<<run, s>>] = "none"
    BY RunNotEnded DEF RunsInOrder
  <2>3. StreamedInOrder'
    BY <2>2 DEF StreamedInOrder
  <2>. QED  BY <2>1, <2>3
<1>3. CASE StartFails
  BY <1>3, TaskKeepsOrder DEF StartFails
<1>4. CASE LogStarted
  <2>. USE <1>4 DEF ExecInv, TypeOK, LogStarted, Log
  <2>1. /\ ended[run] = "no" /\ waiter[run] = "none"
        /\ \A s \in Streams : stream[<<run, s>>] = "none"
    BY RunNotEnded DEF RunsInOrder
  <2>2. \A k \in Runs, s \in Streams :
          stream'[<<k, s>>] = IF k = run THEN "reading" ELSE stream[<<k, s>>]
    BY DEF Streams
  <2>3. LinesCounted' /\ OutputInOwnFiles'
    BY DEF LinesCounted, OutputInOwnFiles
  <2>4. RunsInOrder'
    BY <2>1, <2>2 DEF RunsInOrder
  <2>5. StreamedInOrder'
    BY <2>1, <2>2 DEF StreamedInOrder
  <2>. QED  BY <2>3, <2>4, <2>5
<1>5. CASE CommandEnded
  <2>. USE <1>5 DEF ExecInv, TypeOK, CommandEnded, commandVars
  <2>1. ended[run] = "no"
    BY RunNotEnded
  <2>2. LinesCounted' /\ RunsInOrder' /\ StreamedInOrder'
    BY <2>1 DEF LinesCounted, RunsInOrder, StreamedInOrder
  <2>3. OutputInOwnFiles'
    BY <2>1 DEF OutputInOwnFiles, Line
  <2>. QED  BY <2>2, <2>3
<1>6. CASE ContextDone \/ StopReceived \/ LoggerFailed
  BY <1>6, InterruptedKeepsOrder DEF ContextDone, StopReceived, LoggerFailed
<1>7. CASE LogOutcome \/ LogLimit \/ LogFarewell
  BY <1>7, TaskKeepsOrder DEF LogOutcome, LogLimit, LogFarewell, Log
<1>8. CASE SendSeparator
  BY <1>8, TaskKeepsOrder DEF SendSeparator
<1>9. CASE ReceiveResponse \/ LogMissing
  BY <1>9, TaskKeepsOrder DEF ReceiveResponse, LogMissing, UpdateCounters
<1>10. CASE Publish \/ FinalPublish \/ StopLogger
  BY <1>10, TaskKeepsOrder DEF Publish, FinalPublish, StopLogger
<1>11. CASE StopDuringDelay \/ ContextDoneDuringDelay
  BY <1>11, TaskKeepsOrder DEF StopDuringDelay, ContextDoneDuringDelay
<1>12. CASE DelayEnds
  <2>. USE <1>12 DEF ExecInv, TypeOK, DelayEnds, commandVars
  <2>1. LinesCounted' /\ StreamedInOrder' /\ OutputInOwnFiles'
    BY DEF LinesCounted, StreamedInOrder, OutputInOwnFiles
  <2>2. RunsInOrder'
    BY BoundType DEF RunsInOrder, Runs
  <2>. QED  BY <2>1, <2>2
<1>. QED
  BY <1>1, <1>2, <1>3, <1>4, <1>5, <1>6, <1>7, <1>8, <1>9, <1>10, <1>11, <1>12
     DEF ExecuteTask

(* A line is on its way to the logger while its execution runs, or after   *)
(* this was interrupted.                                                   *)
LEMMA WhoSends ==
  ASSUME TypeOK, RunsInOrder, StreamedInOrder, NEW k \in Runs, NEW s \in Streams,
         stream[<<k, s>>] = "sending"
  PROVE  (k = run /\ pc = "running") \/ ended[k] = "interrupted"
<1>1. ended[k] # "normal"
  BY DEF StreamedInOrder
<1>2. ended[k] = "no" => k = run /\ pc = "running"
  BY DEF RunsInOrder
<1>. QED  BY <1>1, <1>2 DEF TypeOK

LEMMA CommandKeepsOrder ==
  ASSUME ExecInv, TypeOK', NEW k \in Runs,
         \/ Dies(k)
         \/ OutputCloses(k)
         \/ CommandWaited(k)
         \/ \E s \in Streams : WriteLine(k, s) \/ Stream(k, s)
  PROVE  /\ FilesCounted' /\ LinesCounted' /\ RunsInOrder' /\ StreamedInOrder'
         /\ OutputInOwnFiles'
<1>. USE DEF ExecInv, TypeOK, execVars
<1>0. UNCHANGED <<pc, run, leaving, ended, lastFile, file, out>>
  BY DEF loggerVars, Dies, OutputCloses, CommandWaited, WriteLine, Stream, ReadLine,
         SendLine, Receives,
         StreamEnds
<1>1. FilesCounted'
  BY <1>0 DEF FilesCounted
<1>2. CASE Dies(k) \/ OutputCloses(k)
  BY <1>1, <1>2 DEF Dies, OutputCloses, LinesCounted, RunsInOrder, StreamedInOrder,
                    OutputInOwnFiles
<1>3. CASE CommandWaited(k)
  BY <1>1, <1>3 DEF CommandWaited, OutputStreamed, LinesCounted, RunsInOrder,
                    StreamedInOrder, OutputInOwnFiles
<1>4. ASSUME NEW s \in Streams, WriteLine(k, s)
      PROVE  LinesCounted' /\ RunsInOrder' /\ StreamedInOrder' /\ OutputInOwnFiles'
  <2>. USE <1>4 DEF WriteLine
  <2>1. /\ \A x \in Runs \X Streams \ {<<k, s>>} : left'[x] = left[x] /\ pipe'[x] = pipe[x]
        /\ left'[<<k, s>>] = left[<<k, s>>] - 1
        /\ pipe'[<<k, s>>] = pipe[<<k, s>>] + 1
    OBVIOUS
  <2>2. ASSUME NEW j \in Runs, NEW t \in Streams
        PROVE  left'[<<j, t>>] + pipe'[<<j, t>>] <= MaxLines
    <3>1. /\ left[<<j, t>>] \in Nat /\ pipe[<<j, t>>] \in Nat
          /\ left[<<j, t>>] + pipe[<<j, t>>] <= MaxLines
      BY BoundType DEF LinesCounted
    <3>2. CASE <<j, t>> = <<k, s>>
      BY <2>1, <3>1, <3>2, BoundType
    <3>3. CASE <<j, t>> # <<k, s>>
      BY <2>1, <3>1, <3>3
    <3>. QED  BY <3>2, <3>3
  <2>5. LinesCounted'
    BY <2>2 DEF LinesCounted
  <2>3. RunsInOrder' /\ OutputInOwnFiles'
    BY DEF RunsInOrder, OutputInOwnFiles
  <2>4. StreamedInOrder'
    <3>1. stream[<<k, s>>] # "done" /\ UNCHANGED <<output, stream, waiter, ended>>
      BY DEF StreamedInOrder
    <3>2. ASSUME NEW j \in Runs, NEW t \in Streams, stream[<<j, t>>] = "done"
          PROVE  pipe'[<<j, t>>] = pipe[<<j, t>>]
      BY <2>1, <3>1, <3>2
    <3>. HIDE <1>4 DEF WriteLine
    <3>. QED  BY <3>1, <3>2 DEF StreamedInOrder
  <2>. QED  BY <2>3, <2>4, <2>5
<1>5. ASSUME NEW s \in Streams, ReadLine(k, s)
      PROVE  LinesCounted' /\ RunsInOrder' /\ StreamedInOrder' /\ OutputInOwnFiles'
  <2>. USE <1>5 DEF ReadLine
  <2>1. /\ \A x \in Runs \X Streams \ {<<k, s>>} :
             stream'[x] = stream[x] /\ pipe'[x] = pipe[x]
        /\ stream'[<<k, s>>] = "sending"
        /\ pipe'[<<k, s>>] = pipe[<<k, s>>] - 1
    OBVIOUS
  <2>2. ASSUME NEW j \in Runs, NEW t \in Streams
        PROVE  left'[<<j, t>>] + pipe'[<<j, t>>] <= MaxLines
    <3>1. /\ left[<<j, t>>] \in Nat /\ pipe[<<j, t>>] \in Nat
          /\ left[<<j, t>>] + pipe[<<j, t>>] <= MaxLines
      BY BoundType DEF LinesCounted
    <3>2. CASE <<j, t>> = <<k, s>>
      BY <2>1, <3>1, <3>2, BoundType
    <3>3. CASE <<j, t>> # <<k, s>>
      BY <2>1, <3>1, <3>3
    <3>. QED  BY <3>2, <3>3
  <2>5. LinesCounted'
    BY <2>2 DEF LinesCounted
  <2>3. RunsInOrder' /\ OutputInOwnFiles'
    BY <2>1 DEF RunsInOrder, OutputInOwnFiles
  <2>4. StreamedInOrder'
    <3>1. stream[<<k, s>>] = "reading" /\ UNCHANGED <<output, waiter, ended>>
      OBVIOUS
    <3>2. \A x \in Runs \X Streams :
            (stream'[x] = "done" <=> stream[x] = "done")
              /\ (stream[x] = "done" => pipe'[x] = pipe[x])
      BY <2>1, <3>1
    <3>. QED  BY <3>1, <3>2 DEF StreamedInOrder
  <2>. QED  BY <2>3, <2>4, <2>5
<1>6. ASSUME NEW s \in Streams, SendLine(k, s)
      PROVE  LinesCounted' /\ RunsInOrder' /\ StreamedInOrder' /\ OutputInOwnFiles'
  <2>. USE <1>6 DEF SendLine
  <2>1. /\ \A x \in Runs \X Streams \ {<<k, s>>} : stream'[x] = stream[x]
        /\ stream'[<<k, s>>] = "reading"
    OBVIOUS
  <2>2. LinesCounted' /\ RunsInOrder' /\ StreamedInOrder'
    BY <2>1 DEF LinesCounted, RunsInOrder, StreamedInOrder
  <2>3. (k = run /\ pc = "running") \/ ended[k] = "interrupted"
    BY WhoSends
  <2>4. \A w \in written' \ written : w.run = k /\ w.file = file
    OBVIOUS
  <2>5. OutputInOwnFiles'
    BY <1>0, <2>3, <2>4 DEF OutputInOwnFiles, FilesCounted
  <2>. QED  BY <2>2, <2>5
<1>7. ASSUME NEW s \in Streams, StreamEnds(k, s)
      PROVE  LinesCounted' /\ RunsInOrder' /\ StreamedInOrder' /\ OutputInOwnFiles'
  <2>. USE <1>7 DEF StreamEnds
  <2>1. /\ \A x \in Runs \X Streams \ {<<k, s>>} : stream'[x] = stream[x]
        /\ stream'[<<k, s>>] = "done"
    OBVIOUS
  <2>2. LinesCounted' /\ OutputInOwnFiles'
    BY DEF LinesCounted, OutputInOwnFiles
  <2>3. RunsInOrder'
    BY <2>1 DEF RunsInOrder
  <2>4. k \notin output /\ pipe[<<k, s>>] = 0 /\ UNCHANGED <<output, pipe, waiter, ended>>
    OBVIOUS
  <2>5. ASSUME NEW j \in Runs, NEW t \in Streams, stream'[<<j, t>>] = "done"
        PROVE  j \notin output /\ pipe[<<j, t>>] = 0
    <3>1. CASE <<j, t>> = <<k, s>>
      BY <2>4, <3>1
    <3>2. CASE <<j, t>> # <<k, s>>
      BY <2>1, <2>5, <3>2 DEF StreamedInOrder
    <3>. QED  BY <3>1, <3>2
  <2>6. \A x \in Runs \X Streams : stream[x] = "done" => stream'[x] = "done"
    BY <2>1
  <2>7. StreamedInOrder'
    BY <2>4, <2>5, <2>6 DEF StreamedInOrder
  <2>. QED  BY <2>2, <2>3, <2>7
<1>. QED  BY <1>1, <1>2, <1>3, <1>4, <1>5, <1>6, <1>7 DEF Stream

LEMMA NextExecInv == ExecInv /\ [Next]_vars => ExecInv'
<1>. SUFFICES ASSUME ExecInv, [Next]_vars PROVE ExecInv'
  OBVIOUS
<1>1. TypeOK'
  BY NextTypeOK
<1>2. CASE ExecuteTask
  BY <1>1, <1>2, ExecuteTaskKeepsFiles, ExecuteTaskKeepsOrder DEF ExecInv
<1>3. ASSUME NEW k \in Runs,
             \/ Dies(k)
             \/ OutputCloses(k)
             \/ CommandWaited(k)
             \/ \E s \in Streams : WriteLine(k, s) \/ Stream(k, s)
      PROVE  ExecInv'
  BY <1>1, <1>3, CommandKeepsOrder DEF ExecInv
<1>4. CASE SendStop \/ Kill \/ Cleanup \/ LoggerReportsError \/ UNCHANGED vars
  <2>1. UNCHANGED <<execVars, file, commandVars>>
    BY <1>4 DEF SendStop, Kill, Cleanup, LoggerReportsError, vars, loggerVars
  <2>2. pc = "response" /\ out # <<>> => UNCHANGED out
    BY <1>4 DEF SendStop, Kill, Cleanup, LoggerReportsError, vars, loggerVars
  <2>3. FilesCounted'
    BY <2>1, <2>2 DEF ExecInv, FilesCounted, execVars
  <2>4. LinesCounted' /\ RunsInOrder' /\ StreamedInOrder' /\ OutputInOwnFiles'
    BY <2>1 DEF ExecInv, LinesCounted, RunsInOrder, StreamedInOrder, OutputInOwnFiles,
                execVars, commandVars
  <2>. QED  BY <1>1, <2>3, <2>4 DEF ExecInv
<1>. QED  BY <1>2, <1>3, <1>4 DEF Next

LEMMA SpecExecInv == Spec => []ExecInv
BY InitExecInv, NextExecInv, PTL DEF Spec

(* Every variable keeps its type; in particular the logger never numbers   *)
(* more files than there are executions, and the response queue never      *)
(* holds more than the one response it has room for.                       *)
THEOREM TypeCorrect == Spec => []TypeOK
<1>1. ExecInv => TypeOK
  BY DEF ExecInv
<1>. QED  BY <1>1, SpecExecInv, PTL

(* The lines of an execution go to the files of this execution, unless it  *)
(* was interrupted, when the command goes on printing into the files that  *)
(* are reopened (per_task_logger.go:85).                                   *)
THEOREM OwnFiles == Spec => []OutputInOwnFiles
<1>1. ExecInv => OutputInOwnFiles
  BY DEF ExecInv
<1>. QED  BY <1>1, SpecExecInv, PTL

(* Once ExecuteTask learned that a command ended, everything it printed    *)
(* was taken over by the logger (execute_task.go:128).                     *)
THEOREM WholeOutput == Spec => []OutputComplete
<1>1. ExecInv => OutputComplete
  BY DEF ExecInv, StreamedInOrder, OutputComplete
<1>. QED  BY <1>1, SpecExecInv, PTL

(* The response taken after a separator is the one to this separator, and  *)
(* the files published as the last output are those of the execution that  *)
(* just ended (execute_task.go:163).                                       *)
THEOREM OwnLastFiles == Spec => []LastFilesAreOwn
<1>1. ASSUME ExecInv PROVE LastFilesAreOwn
  <2>1. pc = "response" => ~Head(out).err
    BY <1>1 DEF ExecInv, FilesCounted
  <2>. QED  BY <1>1, <2>1 DEF ExecInv, FilesCounted, LastFilesAreOwn
<1>. QED  BY <1>1, SpecExecInv, PTL

-----------------------------------------------------------------------------
(* What of the output can be lost *)

(* While the logger works it has a file for stderr, or for stdout if only  *)
(* this is captured; all the files are open during the first execution.    *)
FilesOpen ==
  /\ logger = "receive" =>
       IF "stderr" \in Captured THEN "stderr" \in open ELSE open = Captured
  /\ file = 0 => open = Captured

(* A line of an execution that was not interrupted waits in the pipe or in *)
(* its goroutine, or is in the file of its stream, or is one of those that *)
(* may be lost.                                                            *)
Saved(k, s) ==
  \/ \E w \in written : w.run = k /\ w.from = s /\ w.to = s
  \/ s = "stdout" /\ "stderr" \in Captured /\ k > 0
  \/ ended[k] = "interrupted"

Pending(k, s) == pipe[<<k, s>>] > 0 \/ stream[<<k, s>>] = "sending"

LinesSaved ==
  logger = "receive" =>
    \A k \in Runs, s \in Captured :
      left[<<k, s>>] < MaxLines => Pending(k, s) \/ Saved(k, s)

LossInv == FilesOpen /\ LinesSaved

LEMMA InitLossInv == Init => LossInv
<1>. SUFFICES ASSUME Init PROVE LossInv
  OBVIOUS
<1>1. FilesOpen
  BY CaptureAssumption DEF Init, FilesOpen
<1>2. \A k \in Runs, s \in Captured : <<k, s>> \in Runs \X Streams
  BY CaptureAssumption
<1>3. \A x \in Runs \X Streams : left[x] = MaxLines
  BY DEF Init
<1>4. LinesSaved
  BY <1>2, <1>3, BoundType DEF LinesSaved
<1>. QED  BY <1>1, <1>4 DEF LossInv

LEMMA NextFilesOpen ==
  ASSUME ExecInv, FilesOpen, [Next]_vars
  PROVE  FilesOpen'
<1>. USE DEF FilesOpen, loggerVars
<1>1. CASE SendSeparator
  <2>1. PICK failed \in SUBSET open :
          IF CreationError(failed) THEN logger' = "failing" /\ open' = {}
          ELSE open' = open \ failed /\ UNCHANGED logger
    BY <1>1 DEF SendSeparator, ReceivesSeparator
  <2>2. file' # 0
    BY <1>1, BoundType DEF SendSeparator, ReceivesSeparator, ExecInv, TypeOK
  <2>3. logger = "receive" /\ open \subseteq Captured
    BY <1>1 DEF SendSeparator, ReceivesSeparator, ExecInv, TypeOK
  <2>4. CASE CreationError(failed)
    BY <2>1, <2>2, <2>4
  <2>5. CASE ~CreationError(failed)
    BY <2>1, <2>2, <2>3, <2>5, CaptureAssumption DEF CreationError, Streams
  <2>. QED  BY <2>4, <2>5
<1>2. CASE ~SendSeparator
  <2>1. UNCHANGED <<file, open>> /\ (logger' = "receive" => logger = "receive")
    <3>1. CASE ExecuteTask
      BY <1>2, <3>1
         DEF ExecuteTask, LogInfo, Log, Receives, Start, StartFails, LogStarted,
             CommandEnded, ContextDone, StopReceived, LoggerFailed, Interrupted, LogOutcome,
             ReceiveResponse, LogMissing, UpdateCounters, LogLimit, Publish,
             DelayEnds, StopDuringDelay,
             ContextDoneDuringDelay, LogFarewell, FinalPublish, StopLogger, ReceivesStop
    <3>2. CASE SendStop \/ Kill \/ Cleanup \/ LoggerReportsError \/ UNCHANGED vars
      BY <3>2 DEF SendStop, Kill, Cleanup, LoggerReportsError, vars
    <3>3. ASSUME NEW k \in Runs,
                 \/ Dies(k)
                 \/ OutputCloses(k)
                 \/ CommandWaited(k)
                 \/ \E s \in Streams : WriteLine(k, s) \/ Stream(k, s)
          PROVE  UNCHANGED <<file, open>> /\ (logger' = "receive" => logger = "receive")
      BY <3>3 DEF Dies, OutputCloses, CommandWaited, WriteLine, Stream, ReadLine,
                  SendLine, Receives,
                  StreamEnds
    <3>. QED  BY <3>1, <3>2, <3>3 DEF Next
  <2>. QED  BY <2>1
<1>. QED  BY <1>1, <1>2

(* What is written stays, and only the execution that runs can end.        *)
LEMMA SavedStays ==
  ASSUME ExecInv, [Next]_vars, NEW k \in Runs, NEW s \in Streams, Saved(k, s)
  PROVE  Saved(k, s)'
<1>1. /\ written \subseteq written'
      /\ \/ UNCHANGED ended
         \/ /\ ended[run] = "no"
            /\ \E e \in {"normal", "interrupted"} : ended' = [ended EXCEPT ![run] = e]
  <2>1. CASE ExecuteTask
    BY <2>1, RunNotEnded
       DEF ExecInv, ExecuteTask, LogInfo, Log, Start, StartFails, LogStarted, CommandEnded,
           ContextDone, StopReceived, LoggerFailed, Interrupted, LogOutcome, SendSeparator,
           ReceiveResponse, LogMissing, UpdateCounters, LogLimit, Publish, DelayEnds,
           StopDuringDelay,
           ContextDoneDuringDelay, LogFarewell, FinalPublish, StopLogger, commandVars
  <2>2. CASE SendStop \/ Kill \/ Cleanup \/ LoggerReportsError \/ UNCHANGED vars
    BY <2>2 DEF SendStop, Kill, Cleanup, LoggerReportsError, vars, execVars, commandVars
  <2>3. ASSUME NEW j \in Runs,
               \/ Dies(j)
               \/ OutputCloses(j)
               \/ CommandWaited(j)
               \/ \E t \in Streams : WriteLine(j, t) \/ Stream(j, t)
        PROVE  written \subseteq written' /\ UNCHANGED ended
    BY <2>3 DEF Dies, OutputCloses, CommandWaited, WriteLine, Stream, ReadLine,
                SendLine, StreamEnds,
                execVars
  <2>. QED  BY <2>1, <2>2, <2>3 DEF Next
<1>2. ended[k] = "interrupted" => ended'[k] = "interrupted"
  BY <1>1 DEF ExecInv, TypeOK
<1>. QED  BY <1>1, <1>2 DEF Saved

(* A line that its goroutine hands over is written to the file of its      *)
(* stream, or may be lost.                                                 *)
LEMMA SentIsSaved ==
  ASSUME ExecInv, FilesOpen, NEW k \in Runs, NEW s \in Captured, SendLine(k, s),
         logger' = "receive"
  PROVE  Saved(k, s)'
<1>. USE DEF ExecInv, TypeOK
<1>1. /\ logger = "receive" /\ stream[<<k, s>>] = "sending" /\ UNCHANGED <<ended, pc, run>>
      /\ written' = written \union {[run |-> k, from |-> s, to |-> t, file |-> file] :
                                    t \in TargetOf(s)}
  BY DEF SendLine, Receives, execVars
<1>2. s \in Streams
  BY CaptureAssumption
<1>3. s \in TargetOf(s) => Saved(k, s)'
  <2>. DEFINE line == [run |-> k, from |-> s, to |-> s, file |-> file]
  <2>1. line.run = k /\ line.from = s /\ line.to = s
    OBVIOUS
  <2>2. s \in TargetOf(s) => line \in written'
    BY <1>1
  <2>. HIDE DEF line
  <2>. QED  BY <2>1, <2>2 DEF Saved
<1>4. CASE s = "stdout" /\ "stderr" \in Captured /\ k > 0
  BY <1>4 DEF Saved
<1>5. CASE ended[k] = "interrupted"
  BY <1>1, <1>5 DEF Saved
<1>6. CASE k = run /\ pc = "running" /\ ~(s = "stdout" /\ "stderr" \in Captured /\ k > 0)
  <2>1. s \in open
    <3>1. CASE s = "stdout" /\ "stderr" \in Captured
      <4>1. file = 0
        BY <1>6, <3>1, BoundType DEF FilesCounted, Runs
      <4>. QED  BY <3>1, <4>1 DEF FilesOpen
    <3>2. CASE ~(s = "stdout" /\ "stderr" \in Captured)
      BY <1>1, <1>2, <3>2 DEF FilesOpen, Streams
    <3>. QED  BY <3>1, <3>2
  <2>2. s \in TargetOf(s)
    BY <1>2, <2>1 DEF TargetOf, Streams
  <2>. QED  BY <1>3, <2>2
<1>7. (k = run /\ pc = "running") \/ ended[k] = "interrupted"
  BY <1>1, <1>2, WhoSends
<1>. QED  BY <1>4, <1>5, <1>6, <1>7

LEMMA NextLinesSaved ==
  ASSUME ExecInv, LossInv, [Next]_vars
  PROVE  LinesSaved'
<1>. SUFFICES ASSUME logger' = "receive", NEW k \in Runs, NEW s \in Captured,
                     left'[<<k, s>>] < MaxLines
              PROVE  Pending(k, s)' \/ Saved(k, s)'
  BY DEF LinesSaved
<1>. USE DEF ExecInv, TypeOK, LossInv
<1>0. s \in Streams /\ <<k, s>> \in Runs \X Streams
  BY CaptureAssumption
<1>1. logger = "receive"
  BY DEF Next, SendStop, Kill, Cleanup, LoggerReportsError, Dies, OutputCloses,
         CommandWaited,
         WriteLine, Stream, ReadLine, SendLine, Receives, StreamEnds, vars, loggerVars,
         ExecuteTask, LogInfo, Log, Start, StartFails, LogStarted,
         CommandEnded, ContextDone, StopReceived, LoggerFailed, Interrupted, LogOutcome,
         SendSeparator, ReceivesSeparator, ReceiveResponse, LogMissing,
         UpdateCounters, LogLimit, Publish, DelayEnds,
         StopDuringDelay, ContextDoneDuringDelay, LogFarewell, FinalPublish, StopLogger,
         ReceivesStop
<1>2. CASE left[<<k, s>>] < MaxLines /\ Saved(k, s)
  BY <1>0, <1>2, SavedStays
<1>3. CASE left[<<k, s>>] < MaxLines /\ Pending(k, s) /\ ~Saved(k, s)
  <2>1. CASE ExecuteTask
    <3>1. CASE LogStarted
      <4>1. /\ pc = "started" /\ UNCHANGED pipe
            /\ stream' = [x \in Runs \X Streams |-> IF x[1] = run THEN "reading"
                                                  ELSE stream[x]]
        BY <3>1 DEF LogStarted, Log
      <4>2. k = run => stream[<<k, s>>] = "none"
        BY <1>0, <4>1, RunNotEnded DEF RunsInOrder
      <4>3. k # run => stream'[<<k, s>>] = stream[<<k, s>>]
        BY <1>0, <4>1
      <4>. QED  BY <1>3, <4>1, <4>2, <4>3 DEF Pending
    <3>2. CASE ~LogStarted
      <4>1. UNCHANGED <<stream, pipe>>
        BY <2>1, <3>2
           DEF ExecuteTask, LogInfo, Start, StartFails, CommandEnded, ContextDone,
               StopReceived, LoggerFailed, Interrupted, LogOutcome, SendSeparator,
               ReceiveResponse, LogMissing, UpdateCounters, LogLimit, Publish,
               DelayEnds, StopDuringDelay,
               ContextDoneDuringDelay, LogFarewell, FinalPublish, StopLogger, commandVars
      <4>. QED  BY <1>3, <4>1 DEF Pending
    <3>. QED  BY <3>1, <3>2
  <2>2. ASSUME NEW j \in Runs, NEW t \in Streams, WriteLine(j, t) PROVE Pending(k, s)'
    <3>1. UNCHANGED stream /\ pipe' = [pipe EXCEPT ![<<j, t>>] = pipe[<<j, t>>] + 1]
      BY <2>2 DEF WriteLine
    <3>2. pipe[<<k, s>>] > 0 => pipe'[<<k, s>>] > 0
      BY <1>0, <3>1, BoundType
    <3>. QED  BY <1>3, <3>1, <3>2 DEF Pending
  <2>3. ASSUME NEW j \in Runs, NEW t \in Streams, ReadLine(j, t) PROVE Pending(k, s)'
    <3>1. /\ stream' = [stream EXCEPT ![<<j, t>>] = "sending"]
          /\ pipe' = [pipe EXCEPT ![<<j, t>>] = pipe[<<j, t>>] - 1]
      BY <2>3 DEF ReadLine
    <3>2. CASE <<k, s>> = <<j, t>>
      BY <1>0, <3>1, <3>2 DEF Pending
    <3>3. CASE <<k, s>> # <<j, t>>
      BY <1>0, <1>3, <3>1, <3>3 DEF Pending
    <3>. QED  BY <3>2, <3>3
  <2>4. ASSUME NEW j \in Runs, NEW t \in Streams, SendLine(j, t)
        PROVE  Pending(k, s)' \/ Saved(k, s)'
    <3>1. CASE <<k, s>> = <<j, t>>
      <4>1. k = j /\ s = t
        BY <3>1
      <4>. QED  BY <2>4, <4>1, SentIsSaved
    <3>2. CASE <<k, s>> # <<j, t>>
      <4>1. UNCHANGED pipe /\ stream' = [stream EXCEPT ![<<j, t>>] = "reading"]
        BY <2>4 DEF SendLine
      <4>. QED  BY <1>0, <1>3, <3>2, <4>1 DEF Pending
    <3>. QED  BY <3>1, <3>2
  <2>5. ASSUME NEW j \in Runs, NEW t \in Streams, StreamEnds(j, t) PROVE Pending(k, s)'
    <3>1. /\ UNCHANGED pipe /\ stream[<<j, t>>] = "reading"
          /\ stream' = [stream EXCEPT ![<<j, t>>] = "done"]
      BY <2>5 DEF StreamEnds
    <3>2. CASE <<k, s>> = <<j, t>>
      BY <1>0, <1>3, <3>1, <3>2 DEF Pending
    <3>3. CASE <<k, s>> # <<j, t>>
      BY <1>0, <1>3, <3>1, <3>3 DEF Pending
    <3>. QED  BY <3>2, <3>3
  <2>6. CASE UNCHANGED <<stream, pipe>>
    BY <1>3, <2>6 DEF Pending
  <2>. QED
    BY <2>1, <2>2, <2>3, <2>4, <2>5, <2>6
       DEF Next, SendStop, Kill, Cleanup, LoggerReportsError, Dies, OutputCloses,
           CommandWaited, Stream,
           vars, commandVars
<1>4. CASE ~(left[<<k, s>>] < MaxLines)
  <2>1. PICK j \in Runs, t \in Streams : WriteLine(j, t)
    <3>1. CASE UNCHANGED left
      BY <1>4, <3>1
    <3>2. CASE ~UNCHANGED left
      BY <3>2
         DEF Next, SendStop, Kill, Cleanup, LoggerReportsError, Dies, OutputCloses,
             CommandWaited, Stream,
             ReadLine, SendLine, StreamEnds, vars, commandVars,
             ExecuteTask, LogInfo, Start, StartFails, LogStarted,
             CommandEnded, ContextDone, StopReceived, LoggerFailed, Interrupted, LogOutcome,
             SendSeparator, ReceiveResponse, LogMissing, UpdateCounters, LogLimit,
             Publish, DelayEnds,
             StopDuringDelay, ContextDoneDuringDelay, LogFarewell, FinalPublish, StopLogger
    <3>. QED  BY <3>1, <3>2
  <2>2. /\ left' = [left EXCEPT ![<<j, t>>] = left[<<j, t>>] - 1]
        /\ pipe' = [pipe EXCEPT ![<<j, t>>] = pipe[<<j, t>>] + 1]
    BY <2>1 DEF WriteLine
  <2>3. <<k, s>> = <<j, t>>
    BY <1>0, <1>4, <2>2
  <2>4. pipe'[<<k, s>>] > 0
    BY <1>0, <2>2, <2>3, BoundType
  <2>. QED  BY <2>4 DEF Pending
<1>. QED  BY <1>1, <1>2, <1>3, <1>4 DEF LinesSaved

(* While the logger works, what an execution that ended by itself printed  *)
(* on a captured stream is in a file of this stream; only stdout can be    *)
(* lost without an error, when stderr is captured as well, and not in the  *)
(* first execution (per_task_logger.go:206).                               *)
THEOREM NothingElseIsLost == Spec => []OnlyStdoutLost
<1>1. ExecInv /\ LossInv => OnlyStdoutLost
  <2>. SUFFICES ASSUME ExecInv, LossInv, logger = "receive", NEW k \in Runs,
                       NEW s \in Captured, ended[k] = "normal", left[<<k, s>>] < MaxLines
                PROVE  Saved(k, s)
    BY DEF OnlyStdoutLost, Saved
  <2>1. s \in Streams
    BY CaptureAssumption
  <2>2. ~Pending(k, s)
    BY <2>1, BoundType DEF ExecInv, TypeOK, StreamedInOrder, Pending
  <2>. QED  BY <2>2 DEF LossInv, LinesSaved
<1>2. ExecInv /\ LossInv /\ [Next]_vars => LossInv'
  BY NextFilesOpen, NextLinesSaved DEF LossInv
<1>. QED  BY <1>1, <1>2, InitLossInv, SpecExecInv, PTL DEF Spec

=============================================================================
