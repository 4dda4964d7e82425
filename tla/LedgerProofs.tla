----------------------------- MODULE LedgerProofs -----------------------------
(***************************************************************************)
(* The scheduler implements the ledger of accepted tasks, unless a resume  *)
(* overtakes the returning goroutine of its task or a file operation       *)
(* fails.  SchedulerCalmProofs says what a step does to the records of the *)
(* list and the file; here each of these steps is shown to be a step of    *)
(* the ledger.                                                             *)
(***************************************************************************)
EXTENDS SchedulerLedger, SchedulerCalmProofs

-----------------------------------------------------------------------------
(* Sets of records as ledgers *)

Tabulate(K) == [i \in {a.id : a \in K} |-> EntryOf(CHOOSE a \in K : a.id = i)]

(* The ledger T with entry e for id i, and without an entry for it. *)
Updated(T, i, e) == [j \in DOMAIN T \union {i} |-> IF j = i THEN e ELSE T[j]]

Dropped(T, i) == [j \in DOMAIN T \ {i} |-> T[j]]

IdsUnique(K) == \A a, b \in K : a.id = b.id => a = b

LEMMA EntriesTabulated == Entries = Tabulate(KnownRecords)
BY DEF Entries, Tabulate, KnownIds

LEMMA TabulateAt ==
  ASSUME NEW K, IdsUnique(K)
  PROVE  /\ DOMAIN Tabulate(K) = {a.id : a \in K}
         /\ \A a \in K : Tabulate(K)[a.id] = EntryOf(a)
<1>1. ASSUME NEW a \in K PROVE (CHOOSE b \in K : b.id = a.id) = a
  BY DEF IdsUnique
<1>. QED  BY <1>1 DEF Tabulate

(* A record that is new, or replaces the one of its id. *)
LEMMA TabulatePut ==
  ASSUME NEW K, IdsUnique(K), NEW K2, NEW new,
         \A a \in K2 : a = new \/ (a \in K /\ a.id # new.id),
         \A a \in K : a.id # new.id => a \in K2,
         new \in K2
  PROVE  Tabulate(K2) = Updated(Tabulate(K), new.id, EntryOf(new))
<1>1. IdsUnique(K2)
  BY DEF IdsUnique
<1>2. {a.id : a \in K2} = {a.id : a \in K} \union {new.id}
  OBVIOUS
<1>3. DOMAIN Tabulate(K2) = DOMAIN Tabulate(K) \union {new.id}
  BY <1>1, <1>2, TabulateAt
<1>4. ASSUME NEW j \in {a.id : a \in K2}
      PROVE  Tabulate(K2)[j] = IF j = new.id THEN EntryOf(new) ELSE Tabulate(K)[j]
  <2>1. PICK a \in K2 : a.id = j
    OBVIOUS
  <2>2. Tabulate(K2)[j] = EntryOf(a)
    BY <1>1, <2>1, TabulateAt
  <2>3. CASE j = new.id
    <3>1. a = new
      BY <2>1, <2>3
    <3>. QED  BY <2>2, <2>3, <3>1
  <2>4. CASE j # new.id
    <3>1. a \in K
      BY <2>1, <2>4
    <3>2. Tabulate(K)[a.id] = EntryOf(a)
      BY <3>1, TabulateAt
    <3>. QED  BY <2>1, <2>2, <2>4, <3>2
  <2>. QED  BY <2>3, <2>4
<1>5. Tabulate(K2) = [j \in DOMAIN Tabulate(K2) |-> Tabulate(K2)[j]]
  BY DEF Tabulate
<1>6. \A j \in DOMAIN Tabulate(K2) : j \in {a.id : a \in K2}
  BY <1>1, TabulateAt
<1>. QED  BY <1>3, <1>4, <1>5, <1>6 DEF Updated

LEMMA TabulateDrop ==
  ASSUME NEW K, IdsUnique(K), NEW a \in K
  PROVE  Tabulate(K \ {a}) = Dropped(Tabulate(K), a.id)
<1>. DEFINE K2 == K \ {a}
<1>1. IdsUnique(K2)
  BY DEF IdsUnique
<1>2. {b.id : b \in K2} = {b.id : b \in K} \ {a.id}
  BY DEF IdsUnique
<1>3. DOMAIN Tabulate(K2) = DOMAIN Tabulate(K) \ {a.id}
  BY <1>1, <1>2, TabulateAt
<1>. HIDE DEF K2
<1>4. ASSUME NEW j \in {b.id : b \in K2}
      PROVE  Tabulate(K2)[j] = Tabulate(K)[j]
  <2>1. PICK b \in K2 : b.id = j
    OBVIOUS
  <2>2. Tabulate(K2)[b.id] = EntryOf(b)
    BY <1>1, <2>1, TabulateAt
  <2>3. Tabulate(K)[b.id] = EntryOf(b)
    <3>1. b \in K
      BY <2>1 DEF K2
    <3>. QED  BY <3>1, TabulateAt
  <2>. QED  BY <2>1, <2>2, <2>3
<1>5. Tabulate(K2) = [j \in DOMAIN Tabulate(K2) |-> Tabulate(K2)[j]]
  BY DEF Tabulate
<1>6. Tabulate(K2) = Dropped(Tabulate(K), a.id)
  <2>1. DOMAIN Tabulate(K2) = {b.id : b \in K2}
    BY <1>1, TabulateAt
  <2>. QED  BY <1>3, <1>4, <1>5, <2>1 DEF Dropped
<1>. QED  BY <1>6 DEF K2

-----------------------------------------------------------------------------
(* The check for conflicts is the ledger's *)

LEMMA KnownIdsUnique ==
  ASSUME TypeOK, UniqueIds
  PROVE  /\ IdsUnique(KnownRecords)
         /\ DOMAIN Entries = KnownIds
         /\ \A a \in KnownRecords : Entries[a.id] = EntryOf(a)
<1>1. IdsUnique(KnownRecords)
  BY KnownRecordUnique DEF IdsUnique
<1>. QED  BY <1>1, EntriesTabulated, TabulateAt DEF KnownIds

LEMMA EntryFields ==
  ASSUME NEW a
  PROVE  /\ EntryOf(a).req = a.req
         /\ EntryOf(a).active <=> ~a.dyn.deactivated
         /\ EntryOf(a).runs = a.dyn.runs
         /\ EntryOf(a).failures = a.dyn.failures
         /\ EntryOf(a).streak = a.dyn.subsequent
BY DEF EntryOf

LEMMA ClashesAreConflicts ==
  ASSUME TypeOK, RecordsInv, NEW r \in Requests, NEW ts \in SUBSET tasks,
         NEW ids \in SUBSET KnownIds,
         \A p \in tasks : heap[p].id \in ids <=> p \in ts
  PROVE  Ledger!Clashes(r, ids) <=> CheckForTaskConflict(r, ts)
<1>1. \A p \in tasks : /\ Record(p) \in KnownRecords
                       /\ Record(p).id = heap[p].id
                       /\ Record(p).req = heap[p].req
                       /\ Record(p).dyn = heap[p].dyn
                       /\ heap[p].req \in Requests
                       /\ heap[p].id \in KnownIds
  BY RecordType DEF KnownRecords, KnownIds, TypeOK, Task
<1>2. \A s \in Requests :
        <<s, r>> \in Clash <=> \/ Hash[s] = Hash[r]
                               \/ Name[s] # NoName /\ NameDisplayHash[s] = NameDisplayHash[r]
  BY DEF Clash
<1>3. \A a \in KnownRecords : /\ Entries[a.id].active <=> ~a.dyn.deactivated
                              /\ Entries[a.id].req = a.req
  BY KnownIdsUnique, EntryFields DEF RecordsInv
<1>4. \A a \in archive : a.dyn.deactivated /\ a \in KnownRecords
  BY DEF RecordsInv, SavedDeactivated, KnownRecords
<1>5. ASSUME CheckForTaskConflict(r, ts) PROVE Ledger!Clashes(r, ids)
  <2>1. PICK p \in ts : /\ ~heap[p].dyn.deactivated
                        /\ \/ Hash[heap[p].req] = Hash[r]
                           \/ /\ Name[heap[p].req] # NoName
                              /\ NameDisplayHash[heap[p].req] = NameDisplayHash[r]
    BY <1>5 DEF CheckForTaskConflict
  <2>2. <<heap[p].req, r>> \in Clash
    BY <1>1, <1>2, <2>1
  <2>3. Entries[heap[p].id].active /\ <<Entries[heap[p].id].req, r>> \in Clash
    BY <1>1, <1>3, <2>1, <2>2
  <2>4. heap[p].id \in ids
    BY <2>1
  <2>. QED  BY <2>3, <2>4 DEF Ledger!Clashes
<1>6. ASSUME Ledger!Clashes(r, ids) PROVE CheckForTaskConflict(r, ts)
  <2>1. PICK i \in ids : Entries[i].active /\ <<Entries[i].req, r>> \in Clash
    BY <1>6 DEF Ledger!Clashes
  <2>2. PICK a \in KnownRecords : a.id = i
    BY DEF KnownIds
  <2>3. ~a.dyn.deactivated /\ <<a.req, r>> \in Clash
    BY <1>3, <2>1, <2>2
  <2>4. PICK p \in tasks : a = Record(p)
    BY <1>4, <2>3 DEF KnownRecords
  <2>. QED  BY <1>1, <1>2, <2>2, <2>3, <2>4 DEF CheckForTaskConflict
<1>. QED  BY <1>5, <1>6

-----------------------------------------------------------------------------
(* Each step on the records is a step of the ledger *)

LEMMA AcceptedIsAccept ==
  ASSUME TypeOK, RecordsInv, NEW r \in Requests, RecordAccepted(r)
  PROVE  Ledger!Accept(r)
<1>. DEFINE new == [id |-> currentId, req |-> r, dyn |-> NewDynamic]
<1>1. /\ IdsUnique(KnownRecords)
      /\ DOMAIN Entries = KnownIds
  BY KnownIdsUnique DEF RecordsInv
<1>2. new.id = currentId
  OBVIOUS
<1>3. EntryOf(new) = [req |-> r, active |-> TRUE, runs |-> 0, failures |-> 0, streak |-> 0]
  BY DEF EntryOf, NewDynamic
<1>. HIDE DEF new
<1>4. \A a \in KnownRecords : a.id # currentId
  <2>1. \A p \in tasks : Record(p).id = heap[p].id
    BY RecordType DEF TypeOK
  <2>2. currentId \in Int
    BY DEF TypeOK
  <2>. QED  BY <2>1, <2>2 DEF KnownRecords, RecordsInv, UniqueIds
<1>5. KnownRecords' = KnownRecords \union {new}
  BY DEF RecordAccepted, new
<1>6. Tabulate(KnownRecords') = Updated(Tabulate(KnownRecords), new.id, EntryOf(new))
  <2>1. \A a \in KnownRecords' : a = new \/ (a \in KnownRecords /\ a.id # new.id)
    BY <1>2, <1>4, <1>5
  <2>2. \A a \in KnownRecords : a.id # new.id => a \in KnownRecords'
    BY <1>5
  <2>3. new \in KnownRecords'
    BY <1>5
  <2>. QED  BY <1>1, <2>1, <2>2, <2>3, TabulatePut
<1>7. Entries' = Tabulate(KnownRecords')
  BY DEF Entries, Tabulate, KnownIds
<1>8. Ledger!Put(currentId, EntryOf(new))
  BY <1>2, <1>6, <1>7, EntriesTabulated DEF Ledger!Put, Updated
<1>9. ~Ledger!Clashes(r, DOMAIN Entries)
  <2>1. \A p \in tasks : heap[p].id \in KnownIds
    BY RecordType DEF KnownIds, KnownRecords, TypeOK
  <2>2. Ledger!Clashes(r, KnownIds) <=> CheckForTaskConflict(r, tasks)
    BY <2>1, ClashesAreConflicts
  <2>. QED  BY <1>1, <2>2 DEF RecordAccepted
<1>. QED  BY <1>3, <1>8, <1>9 DEF Ledger!Accept, RecordAccepted

LEMMA RejectedIsReject ==
  ASSUME TypeOK, RecordsInv, NEW r \in Requests, RecordRejected(r)
  PROVE  Ledger!Reject(r)
<1>1. DOMAIN Entries = KnownIds
  BY KnownIdsUnique DEF RecordsInv
<1>2. Entries' = Entries
  BY DEF Entries, KnownIds, RecordRejected
<1>3. \A p \in tasks : heap[p].id \in KnownIds
  BY RecordType DEF KnownIds, KnownRecords, TypeOK
<1>4. Ledger!Clashes(r, KnownIds) <=> CheckForTaskConflict(r, tasks)
  BY <1>3, ClashesAreConflicts
<1>5. Ledger!TurnedDown(r, DOMAIN Entries)
  BY <1>1, <1>4 DEF RecordRejected, MayReject, Ledger!TurnedDown
<1>. QED  BY <1>2, <1>5 DEF Ledger!Reject, RecordRejected

(* A swapped dynamic part is one entry put in the place of another.        *)
LEMMA SwapIsPut ==
  ASSUME TypeOK, RecordsInv, NEW a \in KnownRecords, NEW d, Swap(a, d)
  PROVE  Ledger!Put(a.id, [req |-> a.req, active |-> ~d.deactivated, runs |-> d.runs,
                           failures |-> d.failures, streak |-> d.subsequent])
<1>. DEFINE new == [id |-> a.id, req |-> a.req, dyn |-> d]
<1>1. IdsUnique(KnownRecords)
  BY KnownIdsUnique DEF RecordsInv
<1>2. new.id = a.id
  OBVIOUS
<1>3. EntryOf(new) = [req |-> a.req, active |-> ~d.deactivated, runs |-> d.runs,
                      failures |-> d.failures, streak |-> d.subsequent]
  BY DEF EntryOf
<1>4. KnownRecords' = (KnownRecords \ {a}) \union {new}
  BY DEF Swap
<1>. HIDE DEF new
<1>5. Tabulate(KnownRecords') = Updated(Tabulate(KnownRecords), new.id, EntryOf(new))
  <2>1. \A b \in KnownRecords' : b = new \/ (b \in KnownRecords /\ b.id # new.id)
    BY <1>1, <1>2, <1>4 DEF IdsUnique
  <2>2. \A b \in KnownRecords : b.id # new.id => b \in KnownRecords'
    BY <1>2, <1>4
  <2>3. new \in KnownRecords'
    BY <1>4
  <2>. QED  BY <1>1, <2>1, <2>2, <2>3, TabulatePut
<1>6. Entries' = Tabulate(KnownRecords')
  BY DEF Entries, Tabulate, KnownIds
<1>. QED  BY <1>2, <1>3, <1>5, <1>6, EntriesTabulated DEF Ledger!Put, Updated

LEMMA OthersClash ==
  ASSUME TypeOK, RecordsInv, NEW a \in KnownRecords
  PROVE  /\ a.id \in DOMAIN Entries
         /\ Entries[a.id] = EntryOf(a)
         /\ Ledger!Clashes(a.req, DOMAIN Entries \ {a.id})
              <=> CheckForTaskConflict(a.req, Others(a))
<1>1. DOMAIN Entries = KnownIds /\ Entries[a.id] = EntryOf(a)
  BY KnownIdsUnique DEF RecordsInv
<1>2. a.id \in KnownIds
  BY DEF KnownIds
<1>3. \A p \in tasks : heap[p].id \in KnownIds
  BY RecordType DEF KnownIds, KnownRecords, TypeOK
<1>4. \A p \in tasks : heap[p].id \in KnownIds \ {a.id} <=> p \in Others(a)
  BY <1>3 DEF Others
<1>5. a.req \in Requests /\ Others(a) \in SUBSET tasks
  BY KnownRecordType DEF Archived, Others
<1>6. Ledger!Clashes(a.req, KnownIds \ {a.id}) <=> CheckForTaskConflict(a.req, Others(a))
  BY <1>4, <1>5, ClashesAreConflicts
<1>. QED  BY <1>1, <1>2, <1>6

LEMMA EntryEqual ==
  ASSUME NEW x \in Ledger!Entry, NEW y \in Ledger!Entry, x.req = y.req,
         x.active = y.active, x.runs = y.runs, x.failures = y.failures,
         x.streak = y.streak
  PROVE  x = y
BY DEF Ledger!Entry

(* The entry a resume makes of one. *)
LEMMA ResumedEntry ==
  ASSUME NEW e \in Ledger!Entry
  PROVE  [e EXCEPT !.active = TRUE, !.streak = 0] =
           [req |-> e.req, active |-> TRUE, runs |-> e.runs, failures |-> e.failures,
            streak |-> 0]
<1>. DEFINE x == [e EXCEPT !.active = TRUE, !.streak = 0]
            y == [req |-> e.req, active |-> TRUE, runs |-> e.runs,
                  failures |-> e.failures, streak |-> 0]
<1>1. 0 \in 0 .. MaxCount
  BY BoundAssumption
<1>2. x \in Ledger!Entry /\ y \in Ledger!Entry
  BY <1>1 DEF Ledger!Entry
<1>3. /\ x.req = e.req /\ x.active = TRUE /\ x.runs = e.runs
      /\ x.failures = e.failures /\ x.streak = 0
  BY DEF Ledger!Entry
<1>4. /\ y.req = e.req /\ y.active = TRUE /\ y.runs = e.runs
      /\ y.failures = e.failures /\ y.streak = 0
  OBVIOUS
<1>. HIDE DEF x, y
<1>5. x = y
  BY <1>2, <1>3, <1>4, EntryEqual
<1>. QED  BY <1>5 DEF x, y

LEMMA EntryType ==
  ASSUME TypeOK, NEW a \in KnownRecords
  PROVE  EntryOf(a) \in Ledger!Entry
BY KnownRecordType DEF EntryOf, Ledger!Entry, Archived, Dynamic

LEMMA RenewedIsResume ==
  ASSUME TypeOK, RecordsInv, NEW a \in KnownRecords, RecordRenewed(a)
  PROVE  Ledger!Resume(a.id)
<1>. DEFINE e == EntryOf(a)
<1>1. Entries[a.id] = e /\ ~e.active /\ e.req = a.req
  BY OthersClash, EntryFields DEF RecordRenewed
<1>2. Renewed(a.dyn).deactivated = FALSE
  BY DEF Renewed
<1>3. [e EXCEPT !.active = TRUE, !.streak = 0] =
        [req |-> a.req, active |-> TRUE, runs |-> a.dyn.runs,
         failures |-> a.dyn.failures, streak |-> 0]
  <2>1. [e EXCEPT !.active = TRUE, !.streak = 0] =
          [req |-> e.req, active |-> TRUE, runs |-> e.runs, failures |-> e.failures,
           streak |-> 0]
    BY EntryType, ResumedEntry
  <2>2. e.req = a.req /\ e.runs = a.dyn.runs /\ e.failures = a.dyn.failures
    BY EntryFields
  <2>. HIDE DEF e
  <2>. QED  BY <2>1, <2>2
<1>. HIDE DEF e
<1>4. Ledger!Put(a.id, [e EXCEPT !.active = TRUE, !.streak = 0])
  <2>1. Ledger!Put(a.id, [req |-> a.req, active |-> ~Renewed(a.dyn).deactivated,
                          runs |-> Renewed(a.dyn).runs,
                          failures |-> Renewed(a.dyn).failures,
                          streak |-> Renewed(a.dyn).subsequent])
    BY SwapIsPut DEF RecordRenewed
  <2>2. [req |-> a.req, active |-> ~Renewed(a.dyn).deactivated,
         runs |-> Renewed(a.dyn).runs, failures |-> Renewed(a.dyn).failures,
         streak |-> Renewed(a.dyn).subsequent]
          = [req |-> a.req, active |-> TRUE, runs |-> a.dyn.runs,
             failures |-> a.dyn.failures, streak |-> 0]
    BY DEF Renewed
  <2>. QED  BY <1>3, <2>1, <2>2
<1>5. ~Ledger!Clashes(e.req, DOMAIN Entries \ {a.id})
  BY <1>1, OthersClash DEF RecordRenewed
<1>. QED  BY <1>1, <1>4, <1>5 DEF Ledger!Resume, RecordRenewed

LEMMA ForgottenIsForget ==
  ASSUME TypeOK, RecordsInv, NEW a \in KnownRecords, RecordForgotten(a)
  PROVE  Ledger!ForgetOnResume(a.id)
<1>1. ~Entries[a.id].active /\ Entries[a.id].req = a.req
  BY OthersClash, EntryFields DEF RecordForgotten
<1>2. Ledger!TurnedDown(a.req, DOMAIN Entries \ {a.id})
  <2>1. a.req \in Requests
    BY KnownRecordType DEF Archived
  <2>. QED  BY <2>1, OthersClash DEF RecordForgotten, MayReject, Ledger!TurnedDown
<1>3. Tabulate(KnownRecords \ {a}) = Dropped(Tabulate(KnownRecords), a.id)
  BY KnownIdsUnique, TabulateDrop DEF RecordsInv
<1>4. Entries' = Tabulate(KnownRecords')
  BY DEF Entries, Tabulate, KnownIds
<1>5. Entries' = Dropped(Entries, a.id)
  BY <1>3, <1>4, EntriesTabulated DEF RecordForgotten
<1>. QED  BY <1>1, <1>2, <1>5 DEF Ledger!ForgetOnResume, RecordForgotten, Dropped

(* The entries an execution and a deactivation make of one. *)
Executed(e, active, success, streak) ==
  [e EXCEPT !.active = active, !.runs = Ledger!Next1(@), !.streak = streak,
            !.failures = IF success THEN @ ELSE Ledger!Next1(@)]

LEMMA ExecutedEntry ==
  ASSUME NEW e \in Ledger!Entry, NEW active \in BOOLEAN, NEW success \in BOOLEAN,
         NEW streak \in 0 .. MaxCount
  PROVE  Executed(e, active, success, streak) =
           [req |-> e.req, active |-> active, runs |-> Increment(e.runs),
            failures |-> IF success THEN e.failures ELSE Increment(e.failures),
            streak |-> streak]
<1>. DEFINE runs == Increment(e.runs)
            failures == IF success THEN e.failures ELSE Increment(e.failures)
            x == [e EXCEPT !.active = active, !.runs = runs, !.streak = streak,
                           !.failures = failures]
            y == [req |-> e.req, active |-> active, runs |-> runs,
                  failures |-> failures, streak |-> streak]
<1>1. \A n : Ledger!Next1(n) = Increment(n)
  BY DEF Ledger!Next1, Increment
<1>2. runs \in 0 .. MaxCount /\ failures \in 0 .. MaxCount
  BY IncrementType DEF Ledger!Entry
<1>. HIDE DEF runs, failures
<1>3. x \in Ledger!Entry /\ y \in Ledger!Entry
  BY <1>2 DEF Ledger!Entry
<1>4. /\ x.req = e.req /\ x.active = active /\ x.runs = runs
      /\ x.failures = failures /\ x.streak = streak
  BY DEF Ledger!Entry
<1>5. /\ y.req = e.req /\ y.active = active /\ y.runs = runs
      /\ y.failures = failures /\ y.streak = streak
  OBVIOUS
<1>. HIDE DEF x, y
<1>6. x = y
  BY <1>3, <1>4, <1>5, EntryEqual
<1>7. [e EXCEPT !.active = active, !.runs = Ledger!Next1(e.runs), !.streak = streak,
                !.failures = IF success THEN e.failures ELSE Ledger!Next1(e.failures)] = x
  BY <1>1 DEF x, runs, failures
<1>8. Executed(e, active, success, streak) =
        [e EXCEPT !.active = active, !.runs = Ledger!Next1(e.runs), !.streak = streak,
                  !.failures = IF success THEN e.failures ELSE Ledger!Next1(e.failures)]
  BY DEF Ledger!Entry, Executed
<1>. QED  BY <1>6, <1>7, <1>8 DEF y, runs, failures

LEMMA DeactivatedEntry ==
  ASSUME NEW e \in Ledger!Entry
  PROVE  [e EXCEPT !.active = FALSE] =
           [req |-> e.req, active |-> FALSE, runs |-> e.runs, failures |-> e.failures,
            streak |-> e.streak]
<1>. DEFINE x == [e EXCEPT !.active = FALSE]
            y == [req |-> e.req, active |-> FALSE, runs |-> e.runs,
                  failures |-> e.failures, streak |-> e.streak]
<1>1. x \in Ledger!Entry /\ y \in Ledger!Entry
  BY DEF Ledger!Entry
<1>2. /\ x.req = e.req /\ x.active = FALSE /\ x.runs = e.runs
      /\ x.failures = e.failures /\ x.streak = e.streak
  BY DEF Ledger!Entry
<1>3. /\ y.req = e.req /\ y.active = FALSE /\ y.runs = e.runs
      /\ y.failures = e.failures /\ y.streak = e.streak
  OBVIOUS
<1>. HIDE DEF x, y
<1>4. x = y
  BY <1>1, <1>2, <1>3, EntryEqual
<1>. QED  BY <1>4 DEF x, y

LEMMA ExecutedIsExecution ==
  ASSUME TypeOK, RecordsInv, NEW a \in KnownRecords, NEW success \in BOOLEAN,
         NEW d \in {a.dyn, Deactivated(a.dyn)}, RecordExecuted(a, success, d)
  PROVE  Ledger!Execution(a.id)
<1>. DEFINE e == EntryOf(a)
            limit == MaxSubsequentFailures[a.req]
            c == Counted(d, success, limit)
            streak == IF success THEN 0 ELSE Increment(a.dyn.subsequent)
            active == ~c.deactivated
<1>1. /\ a \in Archived
      /\ a.dyn \in Dynamic
      /\ d \in Dynamic
      /\ limit \in Int
  BY KnownRecordType, DeactivatedType, RequestAssumption DEF Archived
<1>2. /\ d.runs = a.dyn.runs
      /\ d.failures = a.dyn.failures
      /\ d.subsequent = a.dyn.subsequent
  BY <1>1 DEF Deactivated, Dynamic
<1>3. streak \in 0 .. MaxCount
  BY <1>1, IncrementType, BoundAssumption DEF Dynamic
<1>4. /\ c.runs = Increment(a.dyn.runs)
      /\ c.failures = IF success THEN a.dyn.failures ELSE Increment(a.dyn.failures)
      /\ c.subsequent = streak
      /\ limit >= 0 /\ streak >= limit => c.deactivated
  BY <1>2 DEF Counted
<1>5. c \in Dynamic
  BY <1>1, CountedType
<1>6. active \in BOOLEAN /\ streak \in Int
  BY <1>3, BoundAssumption
<1>7. Swap(a, c)
  BY DEF RecordExecuted
<1>. HIDE DEF c, limit, streak
<1>8. /\ e \in Ledger!Entry
      /\ e.req = a.req
      /\ e.active
      /\ e.runs = a.dyn.runs
      /\ e.failures = a.dyn.failures
      /\ e.streak = a.dyn.subsequent
  BY EntryType, EntryFields DEF RecordExecuted
<1>9. a.id \in DOMAIN Entries /\ Entries[a.id] = e
  BY OthersClash
<1>. HIDE DEF e
<1>10. active => limit < 0 \/ streak < limit
  BY <1>1, <1>4, <1>6
<1>11. Ledger!Put(a.id, [req |-> a.req, active |-> active, runs |-> c.runs,
                         failures |-> c.failures, streak |-> c.subsequent])
  BY <1>7, SwapIsPut
<1>. HIDE DEF active
<1>12. Ledger!Put(a.id, Executed(e, active, success, streak))
  <2>1. Executed(e, active, success, streak) =
          [req |-> e.req, active |-> active, runs |-> Increment(e.runs),
           failures |-> IF success THEN e.failures ELSE Increment(e.failures),
           streak |-> streak]
    BY <1>3, <1>6, <1>8, ExecutedEntry
  <2>2. [req |-> e.req, active |-> active, runs |-> Increment(e.runs),
         failures |-> IF success THEN e.failures ELSE Increment(e.failures),
         streak |-> streak] =
          [req |-> a.req, active |-> active, runs |-> c.runs,
           failures |-> c.failures, streak |-> c.subsequent]
    BY <1>4, <1>8
  <2>. QED  BY <1>11, <2>1, <2>2, Zenon
<1>13. streak = IF success THEN 0 ELSE Ledger!Next1(e.streak)
  BY <1>8 DEF streak, Ledger!Next1, Increment
<1>14. currentId' = currentId
  BY DEF RecordExecuted
<1>. QED  BY <1>6, <1>8, <1>9, <1>10, <1>12, <1>13, <1>14
          DEF Ledger!Execution, Executed, limit

LEMMA DeactivatedIsDeactivate ==
  ASSUME TypeOK, RecordsInv, NEW a \in KnownRecords, RecordDeactivated(a)
  PROVE  Ledger!Deactivate(a.id)
<1>. DEFINE e == EntryOf(a)
            c == Deactivated(a.dyn)
<1>1. a.dyn \in Dynamic
  BY KnownRecordType DEF Archived
<1>2. /\ c.deactivated = TRUE
      /\ c.runs = a.dyn.runs
      /\ c.failures = a.dyn.failures
      /\ c.subsequent = a.dyn.subsequent
  BY <1>1 DEF Deactivated, Dynamic
<1>3. Swap(a, c)
  BY DEF RecordDeactivated
<1>. HIDE DEF c
<1>4. /\ e \in Ledger!Entry
      /\ e.req = a.req
      /\ e.active
      /\ e.runs = a.dyn.runs
      /\ e.failures = a.dyn.failures
      /\ e.streak = a.dyn.subsequent
  BY EntryType, EntryFields DEF RecordDeactivated
<1>5. Entries[a.id] = e
  BY OthersClash
<1>. HIDE DEF e
<1>6. Ledger!Put(a.id, [req |-> a.req, active |-> ~c.deactivated, runs |-> c.runs,
                        failures |-> c.failures, streak |-> c.subsequent])
  BY <1>3, SwapIsPut
<1>7. ~c.deactivated = FALSE
  BY <1>2
<1>8. Ledger!Put(a.id, [e EXCEPT !.active = FALSE])
  <2>1. [e EXCEPT !.active = FALSE] =
          [req |-> e.req, active |-> FALSE, runs |-> e.runs, failures |-> e.failures,
           streak |-> e.streak]
    BY <1>4, DeactivatedEntry
  <2>2. [req |-> e.req, active |-> FALSE, runs |-> e.runs, failures |-> e.failures,
         streak |-> e.streak] =
          [req |-> a.req, active |-> ~c.deactivated, runs |-> c.runs,
           failures |-> c.failures, streak |-> c.subsequent]
    BY <1>2, <1>4, <1>7, Zenon
  <2>. QED  BY <1>6, <2>1, <2>2, Zenon
<1>. QED  BY <1>4, <1>5, <1>8 DEF Ledger!Deactivate, RecordDeactivated

-----------------------------------------------------------------------------
(* The refinement *)

LEMMA InitIsInit == Init => Ledger!Init
<1>. SUFFICES ASSUME Init PROVE Ledger!Init
  OBVIOUS
<1>1. KnownRecords = {}
  BY DEF Init, KnownRecords
<1>2. Entries = [i \in {} |-> i]
  BY <1>1 DEF Entries, KnownIds
<1>. QED  BY <1>2 DEF Init, Ledger!Init

LEMMA StepIsStep ==
  ASSUME TypeOK, TypeOK', RecordsInv, ~EagerResume, ~FileFaults, [Next]_vars
  PROVE  [Ledger!Next]_(Ledger!vars)
<1>1. RecordsStep
  BY NextOnRecords DEF RecordsInv
<1>2. CASE RecordsKept
  BY <1>2 DEF RecordsKept, Entries, KnownIds, Ledger!vars
<1>3. ASSUME NEW r \in Requests, RecordAccepted(r) \/ RecordRejected(r)
      PROVE  Ledger!Next
  BY <1>3, AcceptedIsAccept, RejectedIsReject DEF Ledger!Next
<1>4. ASSUME NEW a \in KnownRecords,
             \/ RecordRenewed(a)
             \/ RecordForgotten(a)
             \/ \E success \in BOOLEAN, e \in {a.dyn, Deactivated(a.dyn)} :
                  RecordExecuted(a, success, e)
             \/ RecordDeactivated(a)
      PROVE  Ledger!Next
  <2>1. a.id \in DOMAIN Entries
    BY OthersClash
  <2>2. \/ Ledger!Resume(a.id)
        \/ Ledger!ForgetOnResume(a.id)
        \/ Ledger!Execution(a.id)
        \/ Ledger!Deactivate(a.id)
    BY <1>4, RenewedIsResume, ForgottenIsForget, ExecutedIsExecution,
       DeactivatedIsDeactivate
  <2>. QED  BY <2>1, <2>2 DEF Ledger!Next
<1>. QED  BY <1>1, <1>2, <1>3, <1>4 DEF RecordsStep

(* Unless a resume overtakes the returning goroutine of its task or a file *)
(* operation fails, the scheduler keeps the ledger: every accepted task is *)
(* on it until a resume of it is turned down, every execution counts once, *)
(* and an active entry keeps conflicting requests out.                     *)
THEOREM SchedulerKeepsLedger ==
  ASSUME ~EagerResume, ~FileFaults
  PROVE  Spec => LedgerSpec
<1>1. Init => Ledger!Init
  BY InitIsInit
<1>2. TypeOK /\ TypeOK' /\ RecordsInv /\ [Next]_vars => [Ledger!Next]_(Ledger!vars)
  BY StepIsStep
<1>. QED  BY <1>1, <1>2, TypeCorrect, RecordsInvHolds, PTL
          DEF Spec, LedgerSpec, Ledger!Spec

=============================================================================
