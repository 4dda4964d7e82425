----------------------------- MODULE TaskArchive -----------------------------
(***************************************************************************)
(* The ndjson file of deactivated tasks, line by line: what Trim appends   *)
(* to it, what list and resume can read back, and how a resume rewrites    *)
(* it, with writes that fail halfway and lines too long for the scanner.   *)
(* Scheduler has the same tasks with goroutines and counters, and a file   *)
(* whose failures may drop or repeat lines, but not tear them.             *)
(*                                                                         *)
(* All of it happens under the scheduler's lock.  Of a line the model      *)
(* keeps which task it holds, or that it cannot be decoded, and its        *)
(* length in units.                                                        *)
(***************************************************************************)
EXTENDS Integers, FiniteSets, SequencesExt

CONSTANTS
  InitialSize,  \* length of the line of each task when it is first run
  Limit,        \* longest line that bufio.Scanner reads, in units
  MaxId,        \* bound: task ids handed out
  MaxSize,      \* bound: length of the line of a task
  MaxFaults     \* bound: failed writes

ASSUME SizeAssumption == InitialSize \in [0 .. MaxId - 1 -> 1 .. MaxSize]

ASSUME BoundAssumption == {Limit, MaxId, MaxSize, MaxFaults} \subseteq Nat

VARIABLES
  up,      \* is the backend running?
  issued,  \* Scheduler.currentId
  memory,  \* Scheduler.tasks, in order
  file,    \* lines of the file, and whether the last one lacks its newline
  answer,  \* the answer to the resume command, none after other steps
  faults   \* failed writes so far

vars == <<up, issued, memory, file, answer, faults>>

-----------------------------------------------------------------------------
(* Data *)

NoTask == -1

Line == [id : {NoTask} \union 0 .. MaxId - 1, size : Nat]

Garbled(size) == [id |-> NoTask, size |-> size]

LineOf(t) == [id |-> t.id, size |-> t.size]

Empty == [lines |-> <<>>, open |-> FALSE]

NoAnswer == [id |-> NoTask, status |-> "none"]

TypeOK ==
  /\ up \in BOOLEAN
  /\ issued \in 0 .. MaxId
  /\ \A k \in DOMAIN memory :
       memory[k] \in [id : 0 .. issued - 1, size : 1 .. MaxSize, active : BOOLEAN]
  /\ \A n \in DOMAIN file.lines : file.lines[n] \in Line /\ file.lines[n].id < issued
  /\ file.open => file.lines # <<>>
  /\ answer.status \in {"none", "accepted", "rejected", "notDeactivated", "notFound"}
  /\ faults \in 0 .. MaxFaults

Init ==
  /\ up = TRUE
  /\ issued = 0
  /\ memory = <<>>
  /\ file = Empty
  /\ answer = NoAnswer
  /\ faults = 0

Positions(i) == {k \in DOMAIN memory : memory[k].id = i}

-----------------------------------------------------------------------------
(* Reading and writing *)

(* A write puts down some units of the line.  Less than its size leaves it *)
(* torn, its size lacks only the newline, one more is all of it.  What     *)
(* follows an unfinished line becomes part of it, and two objects on one   *)
(* line cannot be decoded.                                                 *)
Appended(f, line, units) ==
  LET size == IF units > line.size THEN line.size ELSE units
  IN  IF units = 0 THEN f
      ELSE [lines |-> IF f.open
                      THEN Append(Front(f.lines), Garbled(Last(f.lines).size + size))
                      ELSE Append(f.lines, IF size = line.size THEN line
                                           ELSE Garbled(size)),
            open |-> units <= line.size]

(* The elements of s at the positions P, in their order: SelectSeq with a  *)
(* set of positions in place of a test.                                    *)
Nth(P, n) == CHOOSE p \in P : Cardinality({q \in P : q <= p}) = n

Pick(s, P) == [n \in 1 .. Cardinality(P) |-> s[Nth(P, n)]]

(* The scanner stops for good at the first line that is too long. *)
Scanned(lines) == {n \in DOMAIN lines : \A m \in 1 .. n : lines[m].size <= Limit}

Decodable(line) == line.id # NoTask

Readable(lines) == {n \in Scanned(lines) : Decodable(lines[n])}

(* Mutant: a line that is too long is skipped. *)
DecodedSkippingLong(lines) ==
  Pick(lines, {n \in DOMAIN lines : Decodable(lines[n]) /\ lines[n].size <= Limit})

(* Mutant: the loop ends at the first line that cannot be decoded. *)
DecodedUpToError(lines) ==
  Pick(lines, {n \in Scanned(lines) : \A m \in 1 .. n : Decodable(lines[m])})

Decoded(lines) == Pick(lines, Readable(lines))

ReadTrimmedTasks == Pick(file.lines, Readable(file.lines))

(* What spieven list shows of all tasks. *)
Listing == [k \in DOMAIN memory |-> LineOf(memory[k])] \o ReadTrimmedTasks

ListedIds == {t.id : t \in ToSet(Listing)}

-----------------------------------------------------------------------------
(* Trim *)

Active == {k \in DOMAIN memory : memory[k].active}

Inactive == DOMAIN memory \ Active

(* Mutant: the written tasks stay in memory as well. *)
KeptAll(written) == memory

(* The tasks that could not be written come after the active ones. *)
Kept(written) ==
  Pick(memory, Active)
    \o Pick(memory, {k \in Inactive : written[memory[k].id] <= memory[k].size})

(* The file before the first write, and after each of them. *)
Writes(old, written) ==
  LET after[n \in 0 .. Len(old)] ==
        IF n = 0 THEN file
        ELSE Appended(after[n - 1], LineOf(old[n]), written[old[n].id])
  IN  after

(* Every write may fail on its own.  A file that cannot be opened changes  *)
(* nothing.                                                                *)
Trim ==
  LET old == Pick(memory, Inactive)
  IN  /\ up
      /\ old # <<>>
      /\ \E written \in [{t.id : t \in ToSet(old)} -> 0 .. MaxSize + 1] :
           LET failed == {i \in DOMAIN written :
                            \E t \in ToSet(old) : t.id = i /\ written[i] <= t.size}
           IN  /\ \A t \in ToSet(old) : written[t.id] <= t.size + 1
               /\ faults + Cardinality(failed) <= MaxFaults
               /\ faults' = faults + Cardinality(failed)
               /\ file' = Writes(old, written)[Len(old)]
               /\ memory' = Kept(written)
      /\ answer' = NoAnswer
      /\ UNCHANGED <<up, issued>>

-----------------------------------------------------------------------------
(* CmdResume: ExtractDeactivatedTask and TryResumeTask *)

Answer(i, status) == answer' = [id |-> i, status |-> status]

(* The last task takes the place of the one that is taken out. *)
SwappedOut(k) ==
  LET n == Len(memory)
  IN  SubSeq([memory EXCEPT ![k] = memory[n]], 1, n - 1)

(* Task.Init appends the variables of the display to the environment of    *)
(* the task once more, so its line grows.                                  *)
Grown(size) == size + 1

(* Whether the task conflicts is left open; one that does is not put back. *)
TryResumeTask(t, others) ==
  \/ /\ t.size < MaxSize
     /\ memory' = Append(others, [id |-> t.id, size |-> Grown(t.size), active |-> TRUE])
     /\ Answer(t.id, "accepted")
  \/ /\ memory' = others
     /\ Answer(t.id, "rejected")

ResumeFromMemory(i) ==
  /\ up
  /\ Positions(i) # {}
  /\ LET k == Min(Positions(i))
     IN  IF memory[k].active
         THEN Answer(i, "notDeactivated") /\ UNCHANGED memory
         ELSE TryResumeTask(memory[k], SwappedOut(k))
  /\ UNCHANGED <<up, issued, file, faults>>

(* Where the first line of task i is, 0 if there is none. *)
Found(lines, i) == SelectInSeq(lines, LAMBDA line : line.id = i)

(* The file is rewritten with what could be decoded, without the task. *)
ResumeFromFile(i) ==
  LET decoded == Decoded(file.lines)
      n == Found(decoded, i)
  IN  /\ up
      /\ Positions(i) = {}
      /\ IF n = 0
         THEN Answer(i, "notFound") /\ UNCHANGED <<memory, file>>
         ELSE /\ TryResumeTask(decoded[n], memory)
              /\ file' = [lines |-> RemoveAt(decoded, n), open |-> FALSE]
      /\ UNCHANGED <<up, issued, faults>>

(* A line cannot be written to the temporary file, or it cannot be opened  *)
(* again: the old file is kept.                                            *)
TmpFileFails(i) ==
  /\ up
  /\ faults < MaxFaults
  /\ Positions(i) = {}
  /\ Decoded(file.lines) # <<>>
  /\ Answer(i, "notFound")
  /\ faults' = faults + 1
  /\ UNCHANGED <<up, issued, memory, file>>

(* The file is truncated, and then only a part of it is copied. *)
CopyFileFails(i) ==
  LET decoded == Decoded(file.lines)
      n == Found(decoded, i)
  IN  /\ up
      /\ faults < MaxFaults
      /\ Positions(i) = {}
      /\ n # 0
      /\ LET kept == RemoveAt(decoded, n)
         IN  \/ \E m \in DOMAIN kept, units \in 0 .. MaxSize :
                  /\ units <= kept[m].size
                  /\ file' = Appended([lines |-> SubSeq(kept, 1, m - 1), open |-> FALSE],
                                      kept[m], units)
             \/ file' = [lines |-> kept, open |-> FALSE]
      /\ Answer(i, "notFound")
      /\ faults' = faults + 1
      /\ UNCHANGED <<up, issued, memory>>

(* Without a temporary file its name is asked of a nil pointer, and the    *)
(* backend panics.                                                         *)
NoTmpFile(i) ==
  /\ up
  /\ faults < MaxFaults
  /\ Positions(i) = {}
  /\ faults' = faults + 1
  /\ up' = FALSE
  /\ answer' = NoAnswer
  /\ UNCHANGED <<issued, memory, file>>

-----------------------------------------------------------------------------
(* The life of a task in memory *)

(* Mutant: the id is incremented before it is used. *)
TryRunTaskLate ==
  /\ up
  /\ issued < MaxId
  /\ issued' = issued + 1
  /\ memory' = Append(memory, [id |-> issued', size |-> InitialSize[issued],
                               active |-> TRUE])
  /\ answer' = NoAnswer
  /\ UNCHANGED <<up, file, faults>>

TryRunTask ==
  /\ up
  /\ issued < MaxId
  /\ issued' = issued + 1
  /\ \/ memory' = Append(memory, [id |-> issued, size |-> InitialSize[issued],
                                  active |-> TRUE])
     \/ UNCHANGED memory
  /\ answer' = NoAnswer
  /\ UNCHANGED <<up, file, faults>>

(* What a task does until it is deactivated is in Scheduler. *)
Deactivate(k) ==
  /\ up
  /\ memory[k].active
  /\ memory' = [memory EXCEPT ![k].active = FALSE]
  /\ answer' = NoAnswer
  /\ UNCHANGED <<up, issued, file, faults>>

Next ==
  \/ TryRunTask
  \/ \E k \in DOMAIN memory : Deactivate(k)
  \/ Trim
  \/ \E i \in 0 .. MaxId - 1 : \/ ResumeFromMemory(i)
                               \/ ResumeFromFile(i)
                               \/ TmpFileFails(i)
                               \/ CopyFileFails(i)
                               \/ NoTmpFile(i)

Spec == Init /\ [][Next]_vars

-----------------------------------------------------------------------------
(* Properties *)

Rejected == IF answer'.status = "rejected" THEN {answer'.id} ELSE {}

(* In a step in which no write fails, list loses no task but the one of a  *)
(* rejected resume, unless a trim completes a line that an earlier write   *)
(* left unfinished, which costs that line and the first task trimmed, or   *)
(* the trim puts tasks at or behind a line that is too long                *)
(* (scheduler.go:60 and 158).                                              *)
LossExplained ==
  LET lost == (ListedIds \ ListedIds') \ Rejected
  IN  lost # {} /\ faults' = faults =>
        /\ answer' = NoAnswer
        /\ \/ file.open /\ Cardinality(lost) <= 2
           \/ Scanned(file.lines)' # DOMAIN file'.lines

LossesExplained == [][LossExplained]_vars

(* Each failed write makes list show at most one task twice: a line that   *)
(* lacks nothing but its newline, of a task that stays in memory.  Without *)
(* one no id is listed twice (backend/commands.go:110).                    *)
DoubledByFaults == Len(Listing) - Cardinality(ListedIds) <= faults

(* Resume finds what list shows, and nothing else: both read the same      *)
(* file in loops of their own (scheduler.go:89 and 159).                   *)
ListedIsResumable ==
  [][LET i == answer'.id
     IN  /\ answer'.status = "notFound" /\ faults' = faults => i \notin ListedIds
         /\ answer'.status \in {"accepted", "rejected"} => i \in ListedIds]_vars

(* A task that list has lost never comes back, also not from behind a line *)
(* that is too long when the file is rewritten (scheduler.go:182).         *)
LostForGood ==
  [][\A i \in 0 .. issued - 1 : i \notin ListedIds => i \notin ListedIds']_vars

=============================================================================
