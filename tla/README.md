# Verification of Spieven

TLA+ models of the Spieven process supervisor, model-checked with TLC, and theorems about
them proved with TLAPS. The models follow the Go source: one action per critical section,
`select` case or channel operation, named after the function or the step it stands for. All
paths below are relative to the repository (`src/`).

## 1. The system

`spieven serve` is the backend, one process per port. Every other command is a frontend that
connects to it over TCP, starting a backend if it may. The backend runs *tasks*: commands
that are executed again and again, with delays, until they are deactivated.

| Component | State | Operations | Interacts with |
|---|---|---|---|
| Scheduler (`backend/scheduler/scheduler.go`) | `tasks`, `currentId`, the ndjson file of trimmed tasks; one lock | TryRunTask, TryResumeTask, ExtractDeactivatedTask, Trim, StopTasksByDisplay, CheckForTaskConflict | called by commands, the trim goroutine and the display watch, always under its lock |
| Task (`task.go`) | request, `Computed`, `Channels`, `Dynamic` | Init, ComputeHashes | `Dynamic` is written by the task's goroutine, read by everybody under the lock |
| ExecuteTask (`execute_task.go`) | a private copy of `Dynamic` | execute, publish, delay, return | two `select`s over context, stop, refresh, timer, logger; publishes under the scheduler's lock |
| FileLogger (`per_task_logger.go`) | task log, stdout and stderr files, number of the execution | message, separator, stop | unbuffered `channel` in, `outChannel` of capacity 1 out |
| Displays (`backend/display/`) | list of watched displays; a second lock | InitDisplay, Trim, the watching goroutine | called under the scheduler's lock; takes the scheduler's lock itself |
| BackendState, BackendSync (`state.go`, `sync.go`) | context, wait group | trim and cleanup goroutines | every goroutine of the backend |
| Server (`backend/connect.go`) | listener, connections | RunServer, HandleConnection, ValidateHandshake | commands, packets |
| Commands (`backend/commands.go`) | none | CmdRun, CmdResume, CmdStop, CmdRefresh, CmdList, CmdLog, CmdQueryTaskActive | scheduler |
| File paths (`files.go`) | the cache directory of a port | create, empty, remove | scheduler, logger, messages |
| Backend messages (`messages.go`) | list and log file | Add, Trim, Cleanup | everybody adds |
| Frontend (`frontend/`) | one connection; a stop flag shared by the goroutines of a peek | parsing and checks of arguments, ConnectToBackend, the commands, peek | the server, the log files |
| Packets, filters, display selections (`common/packet`, `common/types`) | none | encode, decode, match | both sides |

**What is hard.** ExecuteTask works on a copy and publishes it twice, so commands see old
states and may act in between. A task moves between list and file. Stop messages go to a
channel of capacity 1 that is replaced when a task is resumed. The file of trimmed tasks is
appended to and rewritten by writes that can fail halfway, and read by a scanner that gives up
at a line that is too long. A peek reads a log that is written, and truncated by a resume, at
the same time, and ends by a flag that two goroutines set. The two locks are taken in
both orders, and one sender blocks while it holds both. The logger leaves its loop when it
fails or is stopped, and whoever sends to it then waits for ever. The shutdown waits for every
goroutine while one of them removes the directory the others write to. Processes share a port
and a directory. `PROJECT.json` lists these hazards at their lines.

**What makes the components correct.** While the file can be read and written, an id names one
task and nothing is forgotten except by a rejected resume; in memory an id names one task
whatever the file does. The failure limit holds over the life of a task; an active task has exactly
one goroutine; no two active tasks conflict; a stop deactivates: what remains of the tasks is a
ledger. List and resume agree on what the file holds. Answers and exit statuses tell what was
done. A peek finds its task, prints its log without a gap, and ends with it. Tasks of a closed
display are stopped. Output is complete and in the files of its own execution. A killed backend exits.
Builds do not mix and no frontend waits for ever.

## 2. Modules

| Module | Models |
|---|---|
| `Scheduler` | scheduler, tasks, commands that change them, ExecuteTask reduced to copies and publications |
| `SchedulerProofs`, `SchedulerCalmProofs` | theorems about `Scheduler`: with resumes that overtake, and without |
| `TaskLedger` | what the scheduler promises, without lists, files, goroutines or copies |
| `SchedulerLedger`, `LedgerProofs` | `Scheduler` with the refinement mapping to `TaskLedger`, and its proof |
| `TaskArchive`, `MCTaskArchive`, `TaskArchiveProofs` | the ndjson file line by line: trim, list, resume, failed writes, long lines |
| `MCScheduler` | three requests: two share name and display (limits 1 and 0), one is unnamed, headless and unlimited |
| `DisplayWatch`, `MCDisplayWatch`, `DisplayWatchProofs` | displays, their goroutines, the two locks, blocking sends |
| `TaskExecution`, `TaskExecutionProofs` | one call of ExecuteTask, its logger, output goroutines and process |
| `BackendLifecycle`, `MCBackendLifecycle`, `BackendLifecycleProofs` | backends, port, directory, connections, frontends |
| `Requests` | operators: command line to request, validation, filters, selection |
| `Frontend`, `MCFrontend`, `FrontendProofs` | an invocation from its arguments to its exit status, the handlers that answer it, peek; extends `Requests` |

**Scheduler.** `tasks` is the slice as a set of pointers (its order is not used by any
operation that changes state); `heap` holds the structs; `archive` has the lines of the ndjson
file that can be read;
`runner` maps a launch, that is one call of `Task.Init` with the channels it makes and the
goroutine started after it, to the state of that goroutine: `shadow` is `shadowDynamicState`,
`chan` the StopChannel its current `select` listens to. A resume of a task whose old goroutine
still runs replaces the channels in the shared struct, so an old goroutine can come to listen
to the new channel; the model has this because it reads the channel when a `select` is entered.
A command is one step since it holds the lock throughout. `CommandEnds`, `StopReceived` and
`ContextDone` are the cases of the first `select`, followed by the counting at
`execute_task.go:181-193`; `Publish` is line 197 and `FinalPublish` line 225. Reading the
channel for the second `select` is merged with `Publish`, between which nothing is done.

**TaskLedger.** An entry is a task in memory or a line of the file (`Entries`); the ids handed
out are `currentId`. An execution is one step of the ledger at `Publish`, although the goroutine
counted in its private copy before; the publication that only deactivates is `Deactivate`;
trimming and extracting do not show; `ForgetOnResume` is the only loss, and `Reject` the only use
of an id without an entry. An overtaking resume breaks this (the old goroutine publishes over
the resumed entry), and so does a file operation that fails (a line is lost, or doubles a task),
so the refinement is checked and proved without both. What a failing file loses, and when, is
`LossesExplained` of `TaskArchive`.

**TaskArchive.** The same list and file as in `Scheduler`, the list in its order, the file as
lines of which one keeps the task and the length. All steps are under the scheduler's lock, so
commands are atomic here too; what is new is that each write of `Trim`, and each file operation
of `ExtractDeactivatedTask`, may fail, at a point within the line. `Appended` has what follows
from it: the next line is glued to a torn one. `Scanned` is the limit of `bufio.Scanner`. `Grown`
stands for `Task.Init`, which appends the display's variables to `Env` again at each resume
(`common/env.go:18`). Conflicts are left open.

**Frontend.** `Start` to `Send` are `cli.go` and the first half of each command, `CmdRun` to
`CmdQueryTaskActive` the handlers of `backend/commands.go`, each up to the release of the lock.
`AddMessage` and `Answer` are what they do after it. `Receive` is the second half of the
command. `OpenFile`, `PrintContents` and `Poll` are `WatchFile`, `Query` and `Queried` the other
goroutine of `CmdPeek`. Commands of frontends that are not followed appear as
`HandleOther`, since the task is all that others see of them; their stops are part of
`TaskProceeds`. `history` records what was true of the task a command names, for the properties.

**DisplayWatch.** Locks are variables holding their owner. A run or resume command is two
steps: it has the scheduler's lock, then it has the displays' lock too and finishes; the
watching goroutine takes them in the other order and notifies task by task. A watch is
deactivated from the moment it holds both locks. A task is reduced to where it can receive a
stop and where it waits for the scheduler's lock. Conflicts are in `Scheduler`.

**TaskExecution.** A send to the unbuffered `log.channel` is one step of sender and logger.
`Receives` may fail where the logger writes, `ReceivesSeparator` where it creates the next
files: by a fault (`LoggerFaults`) or because the cleanup goroutine removed the directory
(`cleaned`). `open` has the streams with an open file: `CreationError` is how
`FinalizeStdoutAndStderr` lets the outcome for stderr overwrite the one for stdout; `LogMissing` are
the messages about files that are gone after the response (`execute_task.go:170`). `WriteLine`,
`Dies` and `OutputCloses` are the command, an environment: `alive` is the command itself, `output`
has the executions whose pipes it or something it started holds open. The context kills only the
command (`KillsCommand`), so its output may stay open for ever.

**BackendLifecycle.** `wg` is the counter of the wait group, kept apart from the goroutines it
counts. The files of a process are one element of `files`; emptying, truncating or removing
the directory takes the others' away. Commands are one step that ends.

### Abstractions and switches

- Counters saturate at `MaxCount`; no check of the code depends on a count above the limits.
- Pointers and launches are reused when nothing refers to them.
- `EagerResume`: may a resume come between the first publication (line 197) and the return of
  the goroutine (line 227)? The code does not prevent it, so the runs of safety and of the
  race, and `SchedulerProofs`, have it; `scheduler_calm`, `SchedulerCalmProofs` and
  `LedgerProofs` exclude it to show what holds otherwise.
- `LoggerFaults`: may the files of the loggers fail to be created or written? In `Scheduler` they
  may in any case once the backend is killed, since the cleanup removes their directory.
- `FileFaults`: may operations on the ndjson file fail, or its lines get too long for the scanner?
  If so, a trim may leave lines of tasks that stay in memory and destroy any others, and an
  extraction may keep any part of the file, also one with the line of the task, and answer "not
  found" (`FileWith`, `FileWithout`, `ResumeFromFileFails`). That is more than the code can do;
  `TaskArchive` has exactly what. The switch is on in `scheduler_safety`. In the other
  runs of `Scheduler` a trim may still keep any subset of the tasks in memory.
- The cleanup at shutdown also removes the ndjson file; this is in `BackendLifecycle`.
- Panics of the logger on a line that is too long (`per_task_logger.go:252`) and of ExecuteTask on
  the error of a killed command (`execute_task.go:138`) end the backend and are left out.
- Connections from other hosts, which are turned down (`connect.go:179`), are left out.
- `CmdRefresh` wakes any waiting task in `Scheduler`, which allows more than the frontend can
  ask for; `Frontend` has the filter it really sends.
- `TaskArchive` has lines instead of bytes: lengths are in units, a torn line is one that cannot
  be decoded. A line is torn anywhere but after its last byte, where only its newline is missing.
- `Frontend` has log lines as units: every message ends with a newline and is written by one call.
  Were a line read while only a part of it is in the file, the first loop of `WatchFile` would drop
  that part (`watch_file.go:26`). Sleeps have no length. An id on the command line is any number.
  The goroutine of a resumed task has returned, as in `DisplayWatch`.
- Texts are model values with the class of their worst character; the name of a display given
  on the command line is taken as it is.
- `StopTasksByDisplay` is one step in `Scheduler`, enabled when no send would block;
  `DisplayWatch` has the blocked sender.
- A resume in `DisplayWatch` comes after the return of the old goroutine.
- Time is the freedom to let a timer elapse, or a frontend give up, at any moment.
- Hashes are constants; equal name and display give equal `NameDisplayHash`, which is all
  that is assumed of them.

## 3. Runs

| Run | Result | What it shows |
|---|---|---|
| `scheduler_safety` | pass | `OneTaskPerId`, `LimitRespected` with all three switches on |
| `scheduler_calm` | pass | `UniqueIds`, `LimitRespected`, `ActiveHasRunner`, `NoConflictingTasks`, `SettledWhenDeactivated`, `HistoryKept`, `StopTakesEffect`, and the refinement `LedgerSpec`, with all switches off |
| `scheduler_race` | violation | an overtaking resume leads to two active tasks of one name (`execute_task.go:225`) |
| `archive` | pass | `DoubledByFaults`, `LossesExplained`, `ListedIsResumable`, `LostForGood` |
| `frontend` | pass | `PeekFindsKnown`, `PeekShowsContents`, `PeekStays`, `PeekEnds`, `ExitStatusTells`, `AnswersTruthful`, `ToldIsLogged` |
| `frontend_refresh` | violation | refresh selects no task (`frontend/cli.go:231`) |
| `display_watch` | pass | `ActiveTasksAreWatched`, `OneWatchPerDisplay`, `NotifiesOrStuck` |
| `display_stop` | violation | the two locks in opposite orders (`display.go:89`, `README.md:7`) |
| `execution` | pass | `OutputInOwnFiles`, `OutputComplete`, `OnlyStdoutLost`, `LastFilesAreOwn`, `StopReturns`, `KillReturnsOrStrands` |
| `execution_kill` | violation | a late line of output blocks the shutdown (`connect.go:193`) |
| `lifecycle` | pass | `SameBuildOnly`, `NoGoroutineSurvives`, `ShutdownReturns`, `RequestEnds` |
| `lifecycle_files` | violation | a second backend deletes the files of the first (`README.md:14`) |

`NotifiesOrStuck` and `KillReturnsOrStrands` are the positive sides of the violations: they
name the only ways in which the promise is missed, so any other way would be found. In the same
way `LedgerSpec`, `OnlyStdoutLost`, `LossesExplained` and `ExitStatusTells` contain the
exceptions the code makes. `KillReturnsOrStrands` has three: a logger that failed, a line sent
after the logger was stopped, and output that stays open. The exceptions are:

- A resume that is rejected for a conflict or a display has taken the task off the list or out of
  the file already, and the task is gone (`scheduler.go:278`); its id is then answered as
  already stopped (`backend/commands.go:341`).
- A logger that failed has left its loop, so the next diagnostic message blocks ExecuteTask
  for ever (`execute_task.go:158`); the cleanup at shutdown is enough for it to fail.
- `exec.CommandContext` kills the command and not what it started (`execute_task.go:94`). A child
  that survives it holds the pipes open, and then the streams and the waiter do not return.
- Lines of stderr that is not captured go to the file of stdout (`per_task_logger.go:156`).
- A file for stdout that cannot be created is no error if the one for stderr can
  (`per_task_logger.go:206`): stdout is no longer captured.
- A line torn by a failed write takes the line appended next with it. A line that
  lacks only its newline is listed although its task is still in memory, so list shows it twice. A line
  that is too long for the scanner hides what comes after it, and the next resume of a task
  before it drops that for good (`scheduler.go:158`). The line of a task grows with every
  resume. A temporary file that cannot be created ends the backend with a nil pointer
  (`scheduler.go:150`). A copy that fails halfway loses the rest (`scheduler.go:182`).
- A resume that cannot connect exits with 0 (`frontend/cli.go:282`), as does a peek whose log
  cannot be opened or that loses its backend (`frontend/commands.go:457`).

A fault that no run reports separately: if the per-task logger cannot be created
(`execute_task.go:22`), the goroutine returns and the task stays active with nobody to
stop it. `ActiveHasRunner` therefore holds under `~LoggerFaults` only, and until the backend is
killed. After a kill nothing is promised of the goroutines of `Scheduler`: the cleanup
(`backend/state.go:83`) removes the directory under the loggers, and ExecuteTask waits for ever at
its next message or at the deferred stop of the logger (`execute_task.go:27`, `71`, `171`). What the
shutdown still guarantees is `KillReturnsOrStrands`.

**Bounds.** Scheduler: two ids are enough for two tasks that conflict, each trimmed, resumed
and rejected any number of times; two pointers and two launches let one task have an old and a
new goroutine; the race needs a third launch for the second task. `MaxCount` is 1, the largest
limit. `scheduler_safety`, whose faults multiply the contents of the file, has two requests (limit 1
and none) and `MaxLines` 1: a line of a trimmed task, or one beside its task in memory. Two lines of one
task are in `TaskArchive` and in the proofs. The other runs have a third request, with limit 0. DisplayWatch: one display with two tasks and two
watches (an old one in its grace period and its successor) and one command at a time;
more commands only wait for the same lock. TaskExecution: two executions, so that output of
the first can meet the files of the second, and one line per stream. BackendLifecycle: two
backends for the port and the directory; one frontend, since connections share
nothing but the counter. TaskArchive: three tasks, so that a line has a line before and after
it; the line of the second is as long as can be read and too long once it was resumed; two
failed writes, so that a fault can meet what an earlier one left. Frontend: one frontend with
every command, two ids, so that a second program conflicts with the first or uses up an id; the
log of the first task is created twice, for a resume under a running peek, with two lines each.
Two lines are a prefix and a rest.

**Fairness.** `WF` for goroutines that can run: the Go scheduler is preemptive. `SF` for
taking a stop from a `select` and for locks: `select` chooses at random among ready cases,
and `sync.Mutex` hands itself over to a waiter that waited for a millisecond. That a command
ends is not assumed, unless its context is cancelled (`exec.CommandContext`), and that what it
started ends, or closes its output, is never assumed; nor that a
user acts, a server goes down, or a backend is killed; nor that a task logs or ends. `PeekEnds`
needs `WF` of the two goroutines of the peek, of the handlers and of the closing of
connections, which wait for nothing but each other.

Deadlock is checked in `display_watch` and `display_stop`, where displays come and go
for ever, and in `frontend` and `frontend_refresh`, where a command can always be started.
In the other instances everything may end: all ids used and tasks stopped, the call returned,
the backends exited.

## 4. Proofs

All theorems hold for every value of the constants that meets the assumptions named in the
modules. Every safety invariant and action property that the passing runs check is proved.
Each proof has the same plan: an inductive invariant, a lemma for
each action, and a last temporal step. Before it was proved every inductive invariant was checked by
TLC on the instance of the run.

**Assumptions on constants.** Bounds are natural numbers, requests have the fields the code reads,
equal name and display have equal `NameDisplayHash`, identities of different kinds differ
(`DistinctAssumption`), there are displays (`DisplaysAssumption`) and builds
(`BuildsAssumption`). `PeekAssumption` is a limit of the code: the filter that stands for "no
id" is `math.MaxInt` (`frontend/commands.go:340`), so a peek of that number would select every task.

**`SchedulerProofs`**, with overtaking resumes:

- `TypeCorrect`: `Spec => []TypeOK`. One lemma per action; `Collect`, `With` and `Without`
  have lemmas on what they keep.
- `IdsInMemoryAreUnique`: `Spec => []OneTaskPerId`, whatever the file does. Inductive with it
  (`IssuedIds`): the ids of lines have been handed out too.
- `IdsStayUnique`: `~FileFaults => (Spec => []UniqueIds)`. `UniqueIds` is inductive with `TypeOK`; a resume from
  the file needs both that the line is removed and that the list was searched first.
- `FailureLimit`: `Spec => []LimitRespected`. Not inductive: a goroutine publishes what it
  holds, possibly over a state that a resume has just reset. `LimitInv` says it of every
  struct (`HeapLimits`) and of every private copy at every control state (`RunnerLimits`).
- `ActiveTasksAreWatched`: `~LoggerFaults => (Spec => []ActiveHasRunner)`. The old goroutine's
  last publication can only deactivate. After a kill loggers fail, and it is not claimed.

**`SchedulerCalmProofs`**, under `~EagerResume` and, where lines of the file matter, `~FileFaults`:

- `DeactivatedTasksAreSettled`: `CalmInv` says that a task has one goroutine, and for each control
  state how its private copy relates to what it published.
- `CountersNeverGoBack`: what a step may do to the records of a task, wherever they are
  (`RecordsStep`), is proved once, from unique ids and `CalmInv`, and used for the counters.
- `ActiveTasksNeverConflict` and `OneNamePerDisplay`: only the check of a run or resume makes a
  task active, since no goroutine publishes over a resumed task. `NoConflictingTasks` had to be
  stated with care: the code asks for a name only of the task that came first, so if the hashes
  of a named and an unnamed request collide, the pair is turned down in one order only. The
  property therefore leaves pairs with an unnamed request to the hash of the whole request.

**`LedgerProofs`**: `SchedulerKeepsLedger` is `Spec => LedgerSpec` under `~EagerResume` and
`~FileFaults`. An entry of
the ledger is a record in memory or in the file, so each action is first shown to keep, change, add
or drop one record (`RecordsStep`), and then to be the step of the ledger with this effect.

**`DisplayWatchProofs`**: `WatchInv` has `LocksHeld` (who holds which lock at which control
state), `WatchesInOrder`, `TasksInOrder` and `HandlersReady`; `DisplaysWatchedOnce` and
`NoTaskSlipsThrough` are inductive only with them. The search of `InitDisplay` is safe because a
watch past its grace period holds the displays' lock. `OnlyTwoWaysToGetStuck` (`HoldersProceed`, which no run checks) follows too: the
circular wait and the blocked sender are the only states in which the holder of a lock cannot go on. It is the
safety part of `NotifiesOrStuck`, and holds for any number of commands, displays and tasks.

**`TaskExecutionProofs`**: `ExecInv` counts files and lines and says how far each stream of each
execution is (`FilesCounted`, `LinesCounted`, `StreamedInOrder`, `RunsInOrder`); `LossInv` adds
which streams have an open file and which lines are saved. `OwnFiles`, `WholeOutput`,
`OwnLastFiles` and `NothingElseIsLost` follow, for any number of executions and lines.

**`BackendLifecycleProofs`**: `LifeInv` has `GoroutinesCounted`: the wait group is the number of the
three goroutines of the backend that run plus the handlers plus the closers, as cardinalities. It is what makes
`AllGoroutinesReturn` inductive; `ConnectionsInOrder` is what `SameBuildExecutes` needs.

**`FrontendProofs`**: `FrontInv` relates, for each frontend, its control state, its end of the
connection, the goroutines of its peek and `history`: `InStep`; `Decisive` (accepted if and only if
the status on its way says so); `Stood` (the task stands as at the start until the handler decides,
and the decision says how it stood); `FoundTask`; `Stays` (the stop flag of a peek is not set while
its task stays active); `Shows` (what is printed is a prefix of the log it was read from). Steps of
others are covered by one lemma (`StillTold`). The action properties follow from `Ends`: there are five
ways to exit. `RefreshWakesNobody` generalises the violation of `frontend_refresh` from a refresh of
all tasks to every refresh.

**`TaskArchiveProofs`**: `ArchiveInv` adds to the type invariant that memory holds no task twice and
that the lines that can be read are `Covered`: all of them but as many as writes have failed hold
different tasks, and none that is in memory. This is what `DoubledByFaults` counts, and the bare
count would not be inductive: a resume that takes one of two lines of a task out of the file and puts the task
in memory needs to know which line was the extra one. A trim is a sequence of writes of any length,
and any of them may fail or glue its line to an unfinished one, so `ListDoublesByFaults`,
`ListLosesWithReason` and `LostStaysLost` each need a fact about the file after the first *n* writes
(`WritesCovered`, `WritesKeep`, `WritesWellFormed`). These are inductions, which are done with
sets: `Smallest` is that a set of numbers has a least element, from the well-foundedness
of `<` in the library, and `Induction` follows for membership in a set in place of a predicate.
What is read of a file and kept of memory is described by sets of positions (`Readable`, `Inactive`), which
`Pick` turns into sequences; `NthEnumerates` and `PickProperties` say that it takes each
position once. A rewritten file is compared with the old one by an injection
of its lines into those (`CoveredByPlaces`, `TakenOut`). All five properties of the run follow from one lemma for each
action, which says that the step keeps the invariant and how it changes what is listed.

**Only model-checked.** Liveness (`StopTakesEffect`, `PeekEnds`, `NotifiesOrStuck`,
`StopReturns`, `KillReturnsOrStrands`, `ShutdownReturns`, `RequestEnds`): fairness is `ENABLED`,
which TLAPS does not reason about. The violations of section 3 are counterexamples and need no
proof.

## 5. Not modelled, and the plan

Not modelled: text of messages, logs and listings, JSON and the framing of packets, help texts and
what the flag parser rejects by itself, the bindings to Xorg and Wayland and the loading of their
libraries, remote addresses, the log file of the backend messages (`PROJECT.json` gives the
reason for each). Of these only the framing has control of its own.

Models planned:

1. `TaskLife`: output files over resumes of a task, whose numbers restart at 0
   (`per_task_logger.go:87`).
2. `PacketStream`: framing over partial reads and writes.
3. `TaskHash` as an operator, to say which requests conflict.

Theorems planned: the invariants of these models, and for `TaskExecution` the safety part of
`KillReturnsOrStrands`, as `HoldersProceed` is that of `NotifiesOrStuck`.
