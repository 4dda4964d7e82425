-------------------------- MODULE TaskArchiveProofs --------------------------
(***************************************************************************)
(* Theorems about TaskArchive, for any number of tasks, lines and failed   *)
(* writes.                                                                 *)
(***************************************************************************)
EXTENDS TaskArchive, FiniteSetTheorems, SequenceTheorems, WellFoundedInduction,
        TLAPS

-----------------------------------------------------------------------------
(* Induction over the natural numbers *)

(* A set of numbers has a smallest one. *)
LEMMA Smallest ==
  ASSUME NEW S \in SUBSET Nat, S # {}
  PROVE  \E m \in S : \A k \in S : m <= k
<1>1. PICK m \in S : \A k \in S : ~(<<k, m>> \in OpToRel(<, Nat))
  BY WFMin, NatLessThanWellFounded
<1>2. \A k \in S : ~(k < m)
  BY <1>1 DEF OpToRel
<1> QED
  BY <1>2

(* Induction up to a bound, with a set in place of a predicate. *)
LEMMA Induction ==
  ASSUME NEW S, NEW top \in Nat, 0 \in S,
         \A n \in 0 .. top - 1 : n \in S => n + 1 \in S
  PROVE  \A n \in 0 .. top : n \in S
<1> DEFINE missing == (0 .. top) \ S
<1> SUFFICES ASSUME missing # {}
             PROVE  FALSE
  OBVIOUS
<1>1. PICK m \in missing : \A k \in missing : m <= k
  <2>1. missing \in SUBSET Nat
    OBVIOUS
  <2> HIDE DEF missing
  <2> QED
    BY <2>1, Smallest
<1>2. m - 1 \in 0 .. top - 1 /\ m - 1 \in S
  BY <1>1
<1> QED
  BY <1>1, <1>2

-----------------------------------------------------------------------------
(* Picking elements of a sequence *)

(* The positions are enumerated without omission or repetition. *)
LEMMA NthEnumerates ==
  ASSUME NEW P, P \subseteq Nat, IsFiniteSet(P)
  PROVE  /\ \A n \in 1 .. Cardinality(P) : Nth(P, n) \in P
         /\ \A m, n \in 1 .. Cardinality(P) : Nth(P, m) = Nth(P, n) => m = n
         /\ \A p \in P : \E n \in 1 .. Cardinality(P) : Nth(P, n) = p
<1> DEFINE upTo(p) == {q \in P : q <= p}
           rank == [p \in P |-> Cardinality(upTo(p))]
           N == Cardinality(P)
<1>1. N \in Nat
  BY FS_CardinalityType
<1>2. ASSUME NEW p \in P
      PROVE  /\ IsFiniteSet(upTo(p)) /\ Cardinality(upTo(p)) \in 1 .. N
  <2>1. upTo(p) \in SUBSET P /\ upTo(p) # {}
    OBVIOUS
  <2>2. IsFiniteSet(upTo(p)) /\ Cardinality(upTo(p)) <= N
    BY <2>1, FS_Subset
  <2>3. Cardinality(upTo(p)) \in Nat /\ Cardinality(upTo(p)) # 0
    BY <2>1, <2>2, FS_CardinalityType, FS_EmptySet
  <2> HIDE DEF upTo, N
  <2> QED
    BY <2>2, <2>3, <1>1
<1>3. ASSUME NEW p \in P, NEW q \in P, p < q
      PROVE  Cardinality(upTo(p)) # Cardinality(upTo(q))
  <2>1. p \in Nat /\ q \in Nat
    OBVIOUS
  <2>2. upTo(p) \in SUBSET upTo(q)
    <3>1. \A r \in P : r \in Nat /\ (r <= p => r <= q)
      BY <2>1, <1>3
    <3> QED
      BY <3>1
  <2>3. q \in upTo(q) /\ q \notin upTo(p)
    BY <2>1, <1>3
  <2>4. upTo(p) # upTo(q)
    BY <2>3
  <2> HIDE DEF upTo
  <2> QED
    BY <2>2, <2>4, <1>2, FS_Subset
<1>4. \A p, q \in P : rank[p] = rank[q] => p = q
  BY <1>3
<1>5. rank \in Injection(P, 1 .. N)
  <2>1. rank \in [P -> 1 .. N]
    BY <1>2
  <2> HIDE DEF rank
  <2> QED
    BY <2>1, <1>4 DEF Injection, IsInjective
<1>6. IsFiniteSet(1 .. N) /\ Cardinality(1 .. N) = N
  BY <1>1, FS_Interval
<1>7. rank \in Surjection(P, 1 .. N)
  BY <1>5, <1>6, FS_Injection
<1>8. \A n \in 1 .. N : \E p \in P : rank[p] = n
  BY <1>7 DEF Surjection
<1>9. \A n \in 1 .. N : Nth(P, n) \in P /\ rank[Nth(P, n)] = n
  BY <1>8 DEF Nth
<1>10. \A p \in P : rank[p] \in 1 .. N /\ Nth(P, rank[p]) = p
  BY <1>2, <1>4, <1>9
<1> HIDE DEF rank
<1> QED
  BY <1>9, <1>10

(* What is picked are the elements at the positions, each once. *)
LEMMA PickProperties ==
  ASSUME NEW T, NEW s \in Seq(T), NEW P, P \subseteq DOMAIN s
  PROVE  /\ IsFiniteSet(P)
         /\ Pick(s, P) \in Seq(T)
         /\ Len(Pick(s, P)) = Cardinality(P)
         /\ \A n \in 1 .. Len(Pick(s, P)) : /\ Nth(P, n) \in P
                                            /\ Pick(s, P)[n] = s[Nth(P, n)]
         /\ \A m, n \in 1 .. Len(Pick(s, P)) : Nth(P, m) = Nth(P, n) => m = n
         /\ \A p \in P : \E n \in 1 .. Len(Pick(s, P)) : Nth(P, n) = p
<1>1. DOMAIN s = 1 .. Len(s) /\ Len(s) \in Nat /\ s \in [1 .. Len(s) -> T]
  BY LenProperties
<1>2. IsFiniteSet(1 .. Len(s))
  BY <1>1, FS_Interval
<1>3. IsFiniteSet(P)
  BY <1>1, <1>2, FS_Subset
<1>4. P \subseteq Nat
  BY <1>1
<1>5. Cardinality(P) \in Nat
  BY <1>3, FS_CardinalityType
<1>6. \A n \in 1 .. Cardinality(P) : Nth(P, n) \in P /\ s[Nth(P, n)] \in T
  BY <1>1, <1>3, <1>4, NthEnumerates
<1>7. Pick(s, P) \in Seq(T) /\ Len(Pick(s, P)) = Cardinality(P)
  BY <1>5, <1>6 DEF Pick
<1>8. \A n \in 1 .. Cardinality(P) : Pick(s, P)[n] = s[Nth(P, n)]
  BY DEF Pick
<1> QED
  BY <1>3, <1>4, <1>6, <1>7, <1>8, NthEnumerates

(* Taking out one element moves up those behind it. *)
LEMMA RemoveAtProperties ==
  ASSUME NEW T, NEW s \in Seq(T), NEW k \in 1 .. Len(s)
  PROVE  /\ RemoveAt(s, k) \in Seq(T)
         /\ Len(RemoveAt(s, k)) = Len(s) - 1
         /\ \A n \in 1 .. Len(s) - 1 :
              RemoveAt(s, k)[n] = IF n < k THEN s[n] ELSE s[n + 1]
<1> DEFINE before == SubSeq(s, 1, k - 1)
           behind == SubSeq(s, k + 1, Len(s))
<1>1. Len(s) \in Nat /\ \A n \in 1 .. Len(s) : s[n] \in T
  BY LenProperties, ElementOfSeq
<1>2. /\ before \in Seq(T)
      /\ Len(before) = k - 1
      /\ \A n \in 1 .. k - 1 : before[n] = s[n]
  BY <1>1, SubSeqProperties
<1>3. /\ behind \in Seq(T)
      /\ Len(behind) = Len(s) - k
      /\ \A n \in 1 .. Len(s) - k : behind[n] = s[n + k]
  BY <1>1, SubSeqProperties
<1>4. RemoveAt(s, k) = before \o behind
  BY DEF RemoveAt
<1> HIDE DEF before, behind
<1>5. /\ RemoveAt(s, k) \in Seq(T)
      /\ Len(RemoveAt(s, k)) = Len(before) + Len(behind)
      /\ \A n \in 1 .. Len(before) + Len(behind) :
           RemoveAt(s, k)[n] =
             IF n <= Len(before) THEN before[n] ELSE behind[n - Len(before)]
  <2>1. before \in Seq(T) /\ behind \in Seq(T)
    BY <1>2, <1>3
  <2> QED
    BY <2>1, <1>4, ConcatProperties, ZenonT(40)
<1>6. Len(before) + Len(behind) = Len(s) - 1
  BY <1>1, <1>2, <1>3
<1>7. ASSUME NEW n \in 1 .. Len(s) - 1
      PROVE  RemoveAt(s, k)[n] = IF n < k THEN s[n] ELSE s[n + 1]
  <2>1. CASE n < k
    <3>1. n \in 1 .. k - 1 /\ n <= Len(before)
      BY <1>1, <1>2, <2>1
    <3> QED
      BY <2>1, <3>1, <1>2, <1>5, <1>6
  <2>2. CASE ~(n < k)
    <3>1. /\ ~(n <= Len(before))
          /\ n - Len(before) \in 1 .. Len(s) - k
          /\ n - Len(before) + k = n + 1
      BY <1>1, <1>2, <2>2
    <3>2. behind[n - Len(before)] = s[n + 1]
      BY <3>1, <1>3
    <3> QED
      BY <2>2, <3>1, <3>2, <1>5, <1>6
  <2> QED
    BY <2>1, <2>2
<1> QED
  BY <1>5, <1>6, <1>7

(* The first line of a task is found if it has one. *)
LEMMA FoundProperties ==
  ASSUME NEW lines \in Seq(Line), NEW i
  PROVE  /\ Found(lines, i) \in 0 .. Len(lines)
         /\ Found(lines, i) = 0 => \A n \in 1 .. Len(lines) : lines[n].id # i
         /\ Found(lines, i) # 0 => lines[Found(lines, i)].id = i
<1> DEFINE at == {n \in 1 .. Len(lines) : lines[n].id = i}
<1>1. Len(lines) \in Nat
  BY LenProperties
<1>2. Found(lines, i) = IF at # {} THEN Min(at) ELSE 0
  BY DEF Found, SelectInSeq
<1>3. CASE at = {}
  BY <1>1, <1>2, <1>3
<1>4. CASE at # {}
  <2>1. at \in SUBSET Nat
    BY <1>1
  <2>2. Min(at) \in at
    <3> HIDE DEF at
    <3> QED
      BY <1>4, <2>1, Smallest DEF Min
  <2> QED
    BY <1>1, <1>2, <1>4, <2>2
<1> QED
  BY <1>3, <1>4

(* The writes come one after the other. *)
LEMMA WritesOneByOne ==
  ASSUME NEW T, NEW old \in Seq(T), NEW written
  PROVE  /\ Writes(old, written)[0] = file
         /\ \A n \in 1 .. Len(old) :
              Writes(old, written)[n] =
                Appended(Writes(old, written)[n - 1], LineOf(old[n]), written[old[n].id])
<1> DEFINE next(f, n) == Appended(f, LineOf(old[n]), written[old[n].id])
           step(f, top) == [n \in 0 .. top |-> IF n = 0 THEN file ELSE next(f[n - 1], n)]
           defined == {top \in 0 .. Len(old) : \E f : f = step(f, top)}
<1>1. Len(old) \in Nat
  BY LenProperties
<1>2. 0 \in defined
  <2> DEFINE g == [n \in 0 .. 0 |-> file]
  <2>1. g = step(g, 0)
    OBVIOUS
  <2>2. \E f : f = step(f, 0)
    <3> HIDE DEF g, step
    <3> QED
      BY <2>1
  <2> QED
    BY <1>1, <2>2
<1>3. ASSUME NEW top \in 0 .. Len(old) - 1, top \in defined
      PROVE  top + 1 \in defined
  <2>1. PICK f : f = step(f, top)
    BY <1>3
  <2> DEFINE g == [n \in 0 .. top + 1 |-> IF n = top + 1 THEN next(f[top], top + 1) ELSE f[n]]
  <2>2. g = step(g, top + 1)
    <3>1. \A n \in 0 .. top : g[n] = f[n]
      OBVIOUS
    <3>2. f[0] = file /\ \A n \in 1 .. top : f[n] = next(f[n - 1], n)
      BY <2>1
    <3>3. \A n \in 1 .. top : n # 0 /\ n - 1 \in 0 .. top
      OBVIOUS
    <3>4. \A n \in 0 .. top + 1 : g[n] = IF n = 0 THEN file ELSE next(g[n - 1], n)
      <4> SUFFICES ASSUME NEW n \in 0 .. top + 1
                   PROVE  g[n] = IF n = 0 THEN file ELSE next(g[n - 1], n)
        OBVIOUS
      <4>1. CASE n = 0
        BY <4>1, <3>1, <3>2
      <4>2. CASE n \in 1 .. top
        <5>1. g[n] = f[n] /\ g[n - 1] = f[n - 1] /\ n # 0
          BY <4>2, <3>1
        <5> HIDE DEF next, g
        <5> QED
          BY <4>2, <5>1, <3>2
      <4>3. CASE n = top + 1
        <5>1. g[n] = next(f[top], top + 1) /\ g[n - 1] = f[top] /\ n # 0
          BY <4>3
        <5> HIDE DEF next, g
        <5> QED
          BY <4>3, <5>1
      <4> QED
        BY <4>1, <4>2, <4>3
    <3> HIDE DEF next
    <3> QED
      BY <3>4
  <2>3. \E h : h = step(h, top + 1)
    <3> HIDE DEF g, step
    <3> QED
      BY <2>2
  <2> QED
    BY <1>1, <2>3
<1>4. Len(old) \in defined
  <2> HIDE DEF defined
  <2>1. \A n \in 0 .. Len(old) - 1 : n \in defined => n + 1 \in defined
    BY <1>3
  <2>2. \A n \in 0 .. Len(old) : n \in defined
    BY <1>1, <1>2, <2>1, Induction
  <2> QED
    BY <1>1, <2>2
<1>5. Writes(old, written) = CHOOSE f : f = step(f, Len(old))
  BY DEF Writes
<1>6. Writes(old, written) = step(Writes(old, written), Len(old))
  <2> HIDE DEF step
  <2> QED
    BY <1>4, <1>5
<1> HIDE DEF next
<1>7. \A n \in 1 .. Len(old) : n # 0 /\ n \in 0 .. Len(old)
  BY <1>1
<1>8. Writes(old, written)[0] = file
  BY <1>1, <1>6
<1>9. \A n \in 1 .. Len(old) :
        Writes(old, written)[n] = next(Writes(old, written)[n - 1], n)
  BY <1>6, <1>7
<1> QED
  BY <1>8, <1>9 DEF next

-----------------------------------------------------------------------------
(* What a write does to the file *)

File == [lines : Seq(Line), open : BOOLEAN]

WellFormed(f) == f \in File /\ (f.open => f.lines # <<>>)

(* No line is too long. *)
Whole(lines) == Scanned(lines) = DOMAIN lines

(* Some units of the size of the line, or of all of it with its newline.   *)
LEMMA AppendedGlues ==
  ASSUME NEW f, WellFormed(f), NEW line \in Line, NEW units \in Nat \ {0}, f.open
  PROVE  LET g == Appended(f, line, units)
             n == Len(f.lines)
         IN  /\ WellFormed(g)
             /\ g.open = (units <= line.size)
             /\ n \in DOMAIN f.lines
             /\ Len(g.lines) = n
             /\ \A m \in 1 .. n - 1 : g.lines[m] = f.lines[m]
             /\ g.lines[n].id = NoTask
             /\ g.lines[n].size >= f.lines[n].size
<1> DEFINE g == Appended(f, line, units)
           n == Len(f.lines)
           size == IF units > line.size THEN line.size ELSE units
           last == Garbled(Last(f.lines).size + size)
<1>1. /\ f.lines \in Seq(Line) /\ f.lines # <<>> /\ n \in Nat \ {0}
      /\ DOMAIN f.lines = 1 .. n /\ \A m \in 1 .. n : f.lines[m] \in Line
  BY EmptySeq, LenProperties, ElementOfSeq DEF WellFormed, File
<1>2. size \in Nat /\ Last(f.lines) = f.lines[n] /\ f.lines[n].size \in Nat
  BY <1>1 DEF Line, Last
<1>3. last \in Line /\ last.id = NoTask /\ last.size >= f.lines[n].size
  BY <1>2 DEF Line, Garbled
<1>4. /\ g.lines = Append(Front(f.lines), last)
      /\ g.open = (units <= line.size)
      /\ g = [lines |-> g.lines, open |-> g.open]
  BY DEF Appended
<1>5. /\ Front(f.lines) \in Seq(Line)
      /\ Len(Front(f.lines)) = n - 1
      /\ \A m \in 1 .. n - 1 : Front(f.lines)[m] = f.lines[m]
  <2>1. \A m \in 1 .. n - 1 : f.lines[m] \in Line
    BY <1>1
  <2> QED
    BY <2>1, <1>1, SubSeqProperties DEF Front
<1> HIDE DEF last, g, size
<1>6. /\ g.lines \in Seq(Line) /\ g.lines # <<>>
      /\ Len(g.lines) = n
      /\ \A m \in 1 .. n - 1 : g.lines[m] = f.lines[m]
      /\ g.lines[n] = last
  BY <1>1, <1>3, <1>4, <1>5, AppendProperties
<1>7. g.open \in BOOLEAN
  BY <1>4, <1>2 DEF Line
<1>8. WellFormed(g)
  BY <1>4, <1>6, <1>7 DEF WellFormed, File
<1> QED
  BY <1>1, <1>3, <1>4, <1>6, <1>8 DEF g

(* Without an unfinished line the file gets one line more. *)
LEMMA AppendedAddsLine ==
  ASSUME NEW f, WellFormed(f), NEW line \in Line, NEW units \in Nat \ {0}, ~f.open
  PROVE  LET g == Appended(f, line, units)
             n == Len(f.lines)
         IN  /\ WellFormed(g)
             /\ g.open = (units <= line.size)
             /\ n \in Nat
             /\ Len(g.lines) = n + 1
             /\ \A m \in 1 .. n : g.lines[m] = f.lines[m]
             /\ line.size <= units => g.lines[n + 1] = line
             /\ line.size > units => g.lines[n + 1].id = NoTask
<1> DEFINE g == Appended(f, line, units)
           n == Len(f.lines)
           size == IF units > line.size THEN line.size ELSE units
           last == IF size = line.size THEN line ELSE Garbled(size)
<1>1. f.lines \in Seq(Line) /\ n \in Nat
  BY LenProperties DEF WellFormed, File
<1>2. size \in Nat /\ line.size \in Nat
  BY DEF Line
<1>3. /\ last \in Line
      /\ line.size <= units => last = line
      /\ line.size > units => last.id = NoTask
  BY <1>2 DEF Line, Garbled
<1>4. /\ g.lines = Append(f.lines, last)
      /\ g.open = (units <= line.size)
      /\ g = [lines |-> g.lines, open |-> g.open]
  BY DEF Appended
<1> HIDE DEF last, g, size
<1>5. /\ g.lines \in Seq(Line) /\ g.lines # <<>>
      /\ Len(g.lines) = n + 1
      /\ \A m \in 1 .. n : g.lines[m] = f.lines[m]
      /\ g.lines[n + 1] = last
  BY <1>1, <1>3, <1>4, AppendProperties
<1>6. g.open \in BOOLEAN
  BY <1>4, <1>2
<1>7. WellFormed(g)
  BY <1>4, <1>5, <1>6 DEF WellFormed, File
<1> QED
  BY <1>1, <1>3, <1>4, <1>5, <1>7 DEF g

(* What can be scanned depends on the sizes of the lines up to there.      *)
LEMMA ScannedAlike ==
  ASSUME NEW a \in Seq(Line), NEW b \in Seq(Line), NEW n \in 0 .. Len(a), n <= Len(b),
         \A m \in 1 .. n : a[m] = b[m]
  PROVE  /\ \A m \in 1 .. n : m \in Scanned(a) <=> m \in Scanned(b)
         /\ \A m \in 1 .. n : m \in Readable(a) <=> m \in Readable(b)
<1>1. /\ Len(a) \in Nat /\ DOMAIN a = 1 .. Len(a)
      /\ Len(b) \in Nat /\ DOMAIN b = 1 .. Len(b)
  BY LenProperties
<1>2. ASSUME NEW m \in 1 .. n
      PROVE  m \in Scanned(a) <=> m \in Scanned(b)
  <2>1. m \in DOMAIN a /\ m \in DOMAIN b
    BY <1>1
  <2>2. \A k \in 1 .. m : k \in 1 .. n
    OBVIOUS
  <2>3. \A k \in 1 .. m : a[k] = b[k]
    BY <2>2
  <2> QED
    BY <2>1, <2>3 DEF Scanned
<1> QED
  BY <1>2 DEF Readable

(* What can be read is read of the lines, and where no line is longer      *)
(* than here, no more can be scanned.                                      *)
LEMMA WholeIfShorter ==
  ASSUME NEW a \in Seq(Line), NEW b \in Seq(Line), Len(a) <= Len(b),
         \A m \in 1 .. Len(a) : a[m].size <= b[m].size,
         Whole(b)
  PROVE  Whole(a)
<1>1. /\ Len(a) \in Nat /\ DOMAIN a = 1 .. Len(a)
      /\ Len(b) \in Nat /\ DOMAIN b = 1 .. Len(b)
      /\ \A m \in 1 .. Len(a) : a[m] \in Line
      /\ \A m \in 1 .. Len(b) : b[m] \in Line
  BY LenProperties, ElementOfSeq
<1>2. Limit \in Nat
  BY BoundAssumption
<1>3. ASSUME NEW m \in 1 .. Len(a)
      PROVE  a[m].size <= Limit
  <2>1. m \in DOMAIN b /\ m \in 1 .. m /\ m \in 1 .. Len(b)
    BY <1>1
  <2>2. b[m].size <= Limit
    BY <2>1 DEF Whole, Scanned
  <2>3. a[m].size \in Nat /\ b[m].size \in Nat
    BY <1>1, <2>1 DEF Line
  <2> QED
    BY <1>2, <2>2, <2>3
<1>4. \A m \in 1 .. Len(a) : \A k \in 1 .. m : k \in 1 .. Len(a)
  BY <1>1
<1> QED
  BY <1>1, <1>3, <1>4 DEF Whole, Scanned

(* A write changes what can be read in two ways only: the new line comes   *)
(* behind all others, and an unfinished line is lost.  No line gets short  *)
(* enough to be read.                                                      *)
LEMMA AppendedReads ==
  ASSUME NEW f, WellFormed(f), NEW line \in Line, line.id # NoTask, NEW units \in Nat,
         NEW g, g = Appended(f, line, units)
  PROVE  /\ WellFormed(g)
         /\ units > line.size => ~g.open
         /\ \A n \in DOMAIN g.lines :
              \/ g.lines[n].id \in {NoTask, line.id}
              \/ n \in DOMAIN f.lines /\ g.lines[n] = f.lines[n]
         /\ \A n \in Readable(g.lines) :
              \/ n \in Readable(f.lines) /\ g.lines[n] = f.lines[n]
              \/ n = Len(f.lines) + 1 /\ g.lines[n] = line /\ line.size <= units
         /\ \A n \in Readable(f.lines) :
              \/ n \in Readable(g.lines) /\ g.lines[n] = f.lines[n]
              \/ n = Len(f.lines) /\ f.open /\ units # 0
         /\ Whole(g.lines) => Whole(f.lines)
         /\ Whole(g.lines) /\ ~f.open /\ units > line.size =>
              Len(f.lines) + 1 \in Readable(g.lines) /\ g.lines[Len(f.lines) + 1] = line
<1> DEFINE n == Len(f.lines)
<1>1. f.lines \in Seq(Line) /\ n \in Nat /\ DOMAIN f.lines = 1 .. n
  BY LenProperties DEF WellFormed, File
<1>2. line.size \in Nat
  BY DEF Line
<1>3. CASE units = 0
  BY <1>2, <1>3 DEF Appended
<1>4. CASE units # 0 /\ f.open
  <2>1. /\ WellFormed(g) /\ g.open = (units <= line.size)
        /\ n \in 1 .. n /\ Len(g.lines) = n
        /\ \A m \in 1 .. n - 1 : g.lines[m] = f.lines[m]
        /\ g.lines[n].id = NoTask /\ g.lines[n].size >= f.lines[n].size
    BY <1>1, <1>4, AppendedGlues
  <2>2. g.lines \in Seq(Line) /\ DOMAIN g.lines = 1 .. n
    BY <2>1, LenProperties DEF WellFormed, File
  <2>3. /\ \A m \in 1 .. n : f.lines[m] \in Line /\ g.lines[m] \in Line
        /\ n - 1 \in 0 .. Len(g.lines) /\ n - 1 <= n
    BY <1>1, <2>1, <2>2, ElementOfSeq
  <2>4. ASSUME NEW m \in 1 .. n
        PROVE  f.lines[m].size <= g.lines[m].size
    <3>1. f.lines[m].size \in Nat /\ g.lines[m].size \in Nat
      BY <2>3 DEF Line
    <3>2. CASE m = n
      BY <2>1, <3>1, <3>2
    <3>3. CASE m # n
      BY <1>1, <2>1, <3>1, <3>3
    <3> QED
      BY <3>2, <3>3
  <2>5. Whole(g.lines) => Whole(f.lines)
    <3>1. f.lines \in Seq(Line) /\ g.lines \in Seq(Line) /\ Len(f.lines) <= Len(g.lines)
      BY <1>1, <2>1, <2>2
    <3>2. \A m \in 1 .. Len(f.lines) : f.lines[m].size <= g.lines[m].size
      BY <2>4
    <3> QED
      BY <3>1, <3>2, WholeIfShorter
  <2>6. n \notin Readable(g.lines)
    BY <2>1 DEF Readable, Decodable
  <2>7. \A m \in 1 .. n - 1 : m \in Readable(g.lines) <=> m \in Readable(f.lines)
    <3>1. /\ f.lines \in Seq(Line) /\ g.lines \in Seq(Line)
          /\ n - 1 \in 0 .. Len(g.lines) /\ n - 1 <= Len(f.lines)
      BY <1>1, <2>2, <2>3
    <3>2. \A m \in 1 .. n - 1 : g.lines[m] = f.lines[m]
      BY <2>1
    <3> HIDE DEF n
    <3> QED
      BY <3>1, <3>2, ScannedAlike
  <2>8. Readable(g.lines) \subseteq 1 .. n /\ Readable(f.lines) \subseteq 1 .. n
    BY <1>1, <2>2 DEF Readable, Scanned
  <2>9. \A m \in 1 .. n : m = n \/ m \in 1 .. n - 1
    BY <1>1
  <2>10. \A m \in DOMAIN g.lines :
           \/ g.lines[m].id \in {NoTask, line.id}
           \/ m \in DOMAIN f.lines /\ g.lines[m] = f.lines[m]
    BY <1>1, <2>1, <2>2, <2>9
  <2>11. \A m \in Readable(g.lines) : m \in Readable(f.lines) /\ g.lines[m] = f.lines[m]
    BY <2>1, <2>6, <2>7, <2>8, <2>9
  <2>12. \A m \in Readable(f.lines) :
           \/ m = n
           \/ m \in Readable(g.lines) /\ g.lines[m] = f.lines[m]
    BY <2>1, <2>7, <2>8, <2>9
  <2>13. units > line.size => ~g.open
    <3>1. units > line.size => ~(units <= line.size)
      BY <1>2
    <3> QED
      BY <3>1, <2>1, Zenon
  <2> QED
    BY <1>4, <2>1, <2>5, <2>10, <2>11, <2>12, <2>13
<1>5. CASE units # 0 /\ ~f.open
  <2>1. /\ WellFormed(g) /\ g.open = (units <= line.size)
        /\ Len(g.lines) = n + 1
        /\ \A m \in 1 .. n : g.lines[m] = f.lines[m]
        /\ line.size <= units => g.lines[n + 1] = line
        /\ line.size > units => g.lines[n + 1].id = NoTask
    BY <1>5, AppendedAddsLine
  <2>2. g.lines \in Seq(Line) /\ DOMAIN g.lines = 1 .. n + 1
    BY <2>1, LenProperties DEF WellFormed, File
  <2>3. /\ \A m \in 1 .. n : f.lines[m] \in Line
        /\ n \in 0 .. Len(g.lines) /\ n <= Len(g.lines) /\ n + 1 \in 1 .. n + 1
    BY <1>1, <2>1, <2>2, ElementOfSeq
  <2>4. \A m \in 1 .. n : f.lines[m].size <= g.lines[m].size
    BY <2>1, <2>3 DEF Line
  <2>5. Whole(g.lines) => Whole(f.lines)
    <3>1. f.lines \in Seq(Line) /\ g.lines \in Seq(Line) /\ Len(f.lines) <= Len(g.lines)
      BY <1>1, <2>1, <2>2
    <3>2. \A m \in 1 .. Len(f.lines) : f.lines[m].size <= g.lines[m].size
      BY <2>4
    <3> QED
      BY <3>1, <3>2, WholeIfShorter
  <2>6. \A m \in 1 .. n : m \in Readable(g.lines) <=> m \in Readable(f.lines)
    <3>1. /\ f.lines \in Seq(Line) /\ g.lines \in Seq(Line)
          /\ n \in 0 .. Len(g.lines) /\ n <= Len(f.lines)
      BY <1>1, <2>2, <2>3
    <3>2. \A m \in 1 .. n : g.lines[m] = f.lines[m]
      BY <2>1
    <3> HIDE DEF n
    <3> QED
      BY <3>1, <3>2, ScannedAlike
  <2>7. Readable(g.lines) \subseteq 1 .. n + 1 /\ Readable(f.lines) \subseteq 1 .. n
    BY <1>1, <2>2 DEF Readable, Scanned
  <2>8. \A m \in 1 .. n + 1 : m = n + 1 \/ m \in 1 .. n
    BY <1>1
  <2>9. n + 1 \in Readable(g.lines) => line.size <= units
    BY <1>2, <2>1 DEF Readable, Decodable
  <2>10. Whole(g.lines) /\ units > line.size =>
           n + 1 \in Readable(g.lines) /\ g.lines[n + 1] = line
    BY <1>2, <2>1, <2>2, <2>3 DEF Whole, Readable, Decodable
  <2>11. g.lines[n + 1].id \in {NoTask, line.id}
    BY <1>2, <2>1
  <2>12. \A m \in DOMAIN g.lines :
           \/ g.lines[m].id \in {NoTask, line.id}
           \/ m \in DOMAIN f.lines /\ g.lines[m] = f.lines[m]
    BY <1>1, <2>1, <2>2, <2>8, <2>11
  <2>13. \A m \in Readable(g.lines) :
           \/ m \in Readable(f.lines) /\ g.lines[m] = f.lines[m]
           \/ m = n + 1 /\ g.lines[m] = line /\ line.size <= units
    BY <2>1, <2>6, <2>7, <2>8, <2>9
  <2>14. \A m \in Readable(f.lines) : m \in Readable(g.lines) /\ g.lines[m] = f.lines[m]
    BY <2>1, <2>6, <2>7
  <2>15. units > line.size => ~g.open
    <3>1. units > line.size => ~(units <= line.size)
      BY <1>2
    <3> QED
      BY <3>1, <2>1, Zenon
  <2> QED
    BY <1>5, <2>1, <2>5, <2>10, <2>12, <2>13, <2>14, <2>15
<1> QED
  BY <1>3, <1>4, <1>5

-----------------------------------------------------------------------------
(* The inductive invariant *)

Entry == [id : 0 .. MaxId - 1, size : 1 .. MaxSize, active : BOOLEAN]

IdsOf(mem) == {mem[k].id : k \in DOMAIN mem}

UniqueIds(mem) == \A j, k \in DOMAIN mem : mem[j].id = mem[k].id => j = k

IdsIn(lines) == {lines[m].id : m \in Readable(lines)}

(* All lines that can be read but d at most hold different tasks, and none *)
(* of those in ids.                                                        *)
Covered(lines, ids, d) ==
  \E extra \in SUBSET Readable(lines) :
    /\ Cardinality(extra) <= d
    /\ \A m \in Readable(lines) \ extra :
         /\ lines[m].id \notin ids
         /\ \A n \in Readable(lines) \ extra : lines[n].id = lines[m].id => n = m

(* No task is in memory twice, and each failed write has left at most one  *)
(* line too many.                                                          *)
ArchiveInv ==
  /\ TypeOK
  /\ memory \in Seq(Entry)
  /\ WellFormed(file)
  /\ UniqueIds(memory)
  /\ Covered(file.lines, IdsOf(memory), faults)

LEMMA ReadableIsFinite ==
  ASSUME NEW lines \in Seq(Line)
  PROVE  /\ Readable(lines) \subseteq 1 .. Len(lines)
         /\ IsFiniteSet(Readable(lines))
         /\ \A extra \in SUBSET Readable(lines) :
              IsFiniteSet(extra) /\ Cardinality(extra) \in Nat
<1>1. Len(lines) \in Nat /\ DOMAIN lines = 1 .. Len(lines)
  BY LenProperties
<1>2. Readable(lines) \subseteq 1 .. Len(lines)
  BY <1>1 DEF Readable, Scanned
<1>3. IsFiniteSet(1 .. Len(lines))
  BY <1>1, FS_Interval
<1>4. IsFiniteSet(Readable(lines))
  BY <1>2, <1>3, FS_Subset
<1>5. ASSUME NEW extra \in SUBSET Readable(lines)
      PROVE  IsFiniteSet(extra) /\ Cardinality(extra) \in Nat
  BY <1>4, FS_Subset, FS_CardinalityType
<1> QED
  BY <1>2, <1>4, <1>5

(* How lines are shown to be covered: by the places they had before, of    *)
(* which those in extra need not be told apart.                            *)
LEMMA CoveredByPlaces ==
  ASSUME NEW b \in Seq(Line), NEW ids, NEW d \in Nat,
         NEW places, NEW at \in [Readable(b) -> places],
         \A m, n \in Readable(b) : at[m] = at[n] => m = n,
         NEW extra, IsFiniteSet(extra), Cardinality(extra) <= d,
         \A m \in Readable(b) : at[m] \notin extra =>
           /\ b[m].id \notin ids
           /\ \A n \in Readable(b) : at[n] \notin extra /\ b[n].id = b[m].id => n = m
  PROVE  Covered(b, ids, d)
<1> DEFINE left == {m \in Readable(b) : at[m] \in extra}
           f == [m \in left |-> at[m]]
<1>1. f \in Injection(left, extra)
  <2>1. f \in [left -> extra]
    OBVIOUS
  <2>2. \A m, n \in left : f[m] = f[n] => m = n
    OBVIOUS
  <2> HIDE DEF f, left
  <2> QED
    BY <2>1, <2>2 DEF Injection, IsInjective
<1>2. left \in SUBSET Readable(b) /\ Cardinality(left) \in Nat /\ Cardinality(extra) \in Nat
  BY ReadableIsFinite, FS_CardinalityType
<1>3. Cardinality(left) <= d
  <2> HIDE DEF f, left
  <2>1. Cardinality(left) <= Cardinality(extra)
    BY <1>1, FS_Injection
  <2> QED
    BY <2>1, <1>2
<1>4. \A m \in Readable(b) \ left :
        /\ b[m].id \notin ids
        /\ \A n \in Readable(b) \ left : b[n].id = b[m].id => n = m
  OBVIOUS
<1> HIDE DEF left
<1> QED
  BY <1>2, <1>3, <1>4 DEF Covered

(* What remains of lines that are covered is covered, and by fewer tasks.  *)
LEMMA CoveredRemains ==
  ASSUME NEW a \in Seq(Line), NEW b \in Seq(Line), NEW ids, NEW fewer \in SUBSET ids,
         NEW d \in Nat, Covered(a, ids, d),
         NEW at \in [Readable(b) -> Readable(a)],
         \A m, n \in Readable(b) : at[m] = at[n] => m = n,
         \A m \in Readable(b) : b[m].id = a[at[m]].id
  PROVE  Covered(b, fewer, d)
<1>1. PICK extra \in SUBSET Readable(a) :
        /\ Cardinality(extra) <= d
        /\ \A m \in Readable(a) \ extra :
             /\ a[m].id \notin ids
             /\ \A n \in Readable(a) \ extra : a[n].id = a[m].id => n = m
  BY DEF Covered
<1>2. IsFiniteSet(extra)
  BY ReadableIsFinite
<1>3. \A m \in Readable(b) : at[m] \notin extra =>
        /\ b[m].id \notin fewer
        /\ \A n \in Readable(b) : at[n] \notin extra /\ b[n].id = b[m].id => n = m
  BY <1>1
<1> QED
  BY <1>1, <1>2, <1>3, CoveredByPlaces

(* A task that is taken out of the file may be put in memory: if a line of *)
(* it remains, one of them was too many already.                           *)
LEMMA CoveredWhenTakenOut ==
  ASSUME NEW a \in Seq(Line), NEW b \in Seq(Line), NEW ids,
         NEW d \in Nat, Covered(a, ids, d), NEW p \in Readable(a),
         NEW at \in [Readable(b) -> Readable(a) \ {p}],
         \A m, n \in Readable(b) : at[m] = at[n] => m = n,
         \A m \in Readable(b) : b[m].id = a[at[m]].id
  PROVE  Covered(b, ids \union {a[p].id}, d)
<1>1. PICK extra \in SUBSET Readable(a) :
        /\ Cardinality(extra) <= d
        /\ \A m \in Readable(a) \ extra :
             /\ a[m].id \notin ids
             /\ \A n \in Readable(a) \ extra : a[n].id = a[m].id => n = m
  BY DEF Covered
<1>2. IsFiniteSet(extra) /\ Cardinality(extra) \in Nat
  BY ReadableIsFinite
<1>3. CASE \A m \in Readable(a) \ extra : a[m].id = a[p].id => m = p
  <2>1. \A m \in Readable(b) : at[m] \notin extra =>
          /\ b[m].id \notin ids \union {a[p].id}
          /\ \A n \in Readable(b) : at[n] \notin extra /\ b[n].id = b[m].id => n = m
    BY <1>1, <1>3
  <2> QED
    BY <1>1, <1>2, <2>1, CoveredByPlaces
<1>4. CASE \E q \in Readable(a) \ extra : a[q].id = a[p].id /\ q # p
  <2>1. PICK q \in Readable(a) \ extra : a[q].id = a[p].id /\ q # p
    BY <1>4
  <2>2. p \in extra
    BY <1>1, <2>1
  <2> DEFINE rest == extra \ {p}
             other == rest \union {q}
  <2>3. IsFiniteSet(rest) /\ Cardinality(rest) = Cardinality(extra) - 1
    BY <1>2, <2>2, FS_RemoveElement
  <2>4. IsFiniteSet(other) /\ Cardinality(other) <= d
    <3>1. q \notin rest
      BY <2>1
    <3> HIDE DEF rest
    <3>2. IsFiniteSet(other) /\ Cardinality(other) = Cardinality(rest) + 1
      BY <3>1, <2>3, FS_AddElement
    <3> QED
      BY <3>2, <2>3, <1>1, <1>2
  <2>5. \A m \in Readable(b) : at[m] \notin other => at[m] \notin extra /\ at[m] # q
    OBVIOUS
  <2>6. \A m \in Readable(b) : at[m] \notin other =>
          /\ b[m].id \notin ids \union {a[p].id}
          /\ \A n \in Readable(b) : at[n] \notin other /\ b[n].id = b[m].id => n = m
    <3> HIDE DEF other
    <3> QED
      BY <1>1, <2>1, <2>5
  <2> HIDE DEF other
  <2> QED
    BY <2>4, <2>6, CoveredByPlaces
<1> QED
  BY <1>3, <1>4

LEMMA CoveredByMore ==
  ASSUME NEW lines \in Seq(Line), NEW ids, NEW d \in Nat, NEW e \in Nat, d <= e,
         Covered(lines, ids, d)
  PROVE  Covered(lines, ids, e)
<1>1. \A extra \in SUBSET Readable(lines) :
        Cardinality(extra) <= d => Cardinality(extra) <= e
  BY ReadableIsFinite
<1> QED
  BY <1>1 DEF Covered

(* One write of a task that is still in memory: once it is written it need *)
(* no longer be, and if the write fails there is at most one line more.    *)
LEMMA WriteCovered ==
  ASSUME NEW f, WellFormed(f), NEW line \in Line, line.id # NoTask, NEW units \in Nat,
         NEW g, g = Appended(f, line, units),
         NEW ids, line.id \in ids, NEW d \in Nat, Covered(f.lines, ids, d)
  PROVE  /\ Covered(g.lines, ids \ {line.id}, d)
         /\ Covered(g.lines, ids, d + 1)
<1> DEFINE R == Readable(f.lines)
           Q == Readable(g.lines)
           N == Len(f.lines) + 1
<1>1. PICK extra \in SUBSET R :
        /\ Cardinality(extra) <= d
        /\ \A m \in R \ extra :
             /\ f.lines[m].id \notin ids
             /\ \A n \in R \ extra : f.lines[n].id = f.lines[m].id => n = m
  BY DEF Covered
<1>2. /\ WellFormed(g)
      /\ \A m \in Q : \/ m \in R /\ g.lines[m] = f.lines[m]
                      \/ m = N /\ g.lines[m] = line
  BY AppendedReads
<1>3. f.lines \in Seq(Line) /\ g.lines \in Seq(Line)
  BY <1>2 DEF WellFormed, File
<1>4. IsFiniteSet(extra) /\ Cardinality(extra) \in Nat
  BY <1>3, ReadableIsFinite
<1> HIDE DEF R, Q, N
<1>5. Covered(g.lines, ids \ {line.id}, d)
  <2> DEFINE left == extra \intersect Q
  <2>1. left \in SUBSET Q /\ left \in SUBSET extra
    OBVIOUS
  <2>2. Cardinality(left) <= d
    <3>1. Cardinality(left) <= Cardinality(extra) /\ Cardinality(left) \in Nat
      BY <2>1, <1>4, FS_Subset, FS_CardinalityType
    <3> QED
      BY <3>1, <1>1, <1>4
  <2>3. \A m \in Q \ left : m \notin extra
    OBVIOUS
  <2>4. ASSUME NEW m \in Q \ left
        PROVE  /\ g.lines[m].id \notin ids \ {line.id}
               /\ \A n \in Q \ left : g.lines[n].id = g.lines[m].id => n = m
    BY <1>1, <1>2, <2>3
  <2> HIDE DEF left
  <2> QED
    BY <2>1, <2>2, <2>4 DEF Covered, Q
<1>6. Covered(g.lines, ids, d + 1)
  <2> DEFINE left == (extra \union {N}) \intersect Q
  <2>1. left \in SUBSET Q /\ left \in SUBSET (extra \union {N})
    OBVIOUS
  <2>2. Cardinality(left) <= d + 1
    <3> DEFINE more == extra \union {N}
    <3>1. /\ IsFiniteSet(more)
          /\ Cardinality(more) =
               IF N \in extra THEN Cardinality(extra) ELSE Cardinality(extra) + 1
      BY <1>4, FS_AddElement
    <3> HIDE DEF left, more
    <3>2. Cardinality(more) <= Cardinality(extra) + 1
      BY <3>1, <1>4
    <3>3. left \in SUBSET more
      BY <2>1 DEF more
    <3>4. /\ Cardinality(left) <= Cardinality(more)
          /\ Cardinality(left) \in Nat /\ Cardinality(more) \in Nat
      BY <3>1, <3>3, FS_Subset, FS_CardinalityType
    <3> QED
      BY <3>2, <3>4, <1>1, <1>4
  <2>3. \A m \in Q \ left : m \notin extra /\ m # N
    OBVIOUS
  <2>4. ASSUME NEW m \in Q \ left
        PROVE  /\ g.lines[m].id \notin ids
               /\ \A n \in Q \ left : g.lines[n].id = g.lines[m].id => n = m
    BY <1>1, <1>2, <2>3
  <2> HIDE DEF left
  <2> QED
    BY <2>1, <2>2, <2>4 DEF Covered, Q
<1> QED
  BY <1>5, <1>6

(* What list shows of tasks in memory and lines of the file.               *)
Shown(mem, lines) == [k \in DOMAIN mem |-> LineOf(mem[k])] \o Pick(lines, Readable(lines))

(* It shows every task in memory and every line that can be read, once.    *)
LEMMA ShownProperties ==
  ASSUME NEW mem \in Seq(Entry), NEW lines \in Seq(Line)
  PROVE  /\ Len(Shown(mem, lines)) = Len(mem) + Cardinality(Readable(lines))
         /\ {t.id : t \in ToSet(Shown(mem, lines))} =
              IdsOf(mem) \union IdsIn(lines)
<1> DEFINE R == Readable(lines)
           read == Pick(lines, R)
           first == [k \in DOMAIN mem |-> LineOf(mem[k])]
           all == Shown(mem, lines)
           ids == {t.id : t \in ToSet(all)}
<1>1. /\ Len(mem) \in Nat /\ DOMAIN mem = 1 .. Len(mem)
      /\ DOMAIN lines = 1 .. Len(lines) /\ R \subseteq DOMAIN lines
      /\ Cardinality(R) \in Nat
  BY LenProperties, ReadableIsFinite, FS_CardinalityType
<1>2. /\ read \in Seq(Line) /\ Len(read) = Cardinality(R)
      /\ \A n \in 1 .. Len(read) : Nth(R, n) \in R /\ read[n] = lines[Nth(R, n)]
      /\ \A m \in R : \E n \in 1 .. Len(read) : Nth(R, n) = m
  <2> HIDE DEF R
  <2> QED
    BY <1>1, PickProperties
<1>3. /\ first \in Seq([id : 0 .. MaxId - 1, size : 1 .. MaxSize])
      /\ Len(first) = Len(mem)
      /\ \A k \in 1 .. Len(mem) : first[k].id = mem[k].id
  <2>1. ASSUME NEW k \in 1 .. Len(mem)
        PROVE  LineOf(mem[k]) \in [id : 0 .. MaxId - 1, size : 1 .. MaxSize]
    <3>1. mem[k] \in Entry
      BY <1>1, ElementOfSeq
    <3> QED
      BY <3>1 DEF Entry, LineOf
  <2> QED
    BY <1>1, <2>1 DEF LineOf
<1>4. first \in Seq(Line)
  <2>1. [id : 0 .. MaxId - 1, size : 1 .. MaxSize] \subseteq Line
    BY BoundAssumption DEF Line
  <2> QED
    BY <1>3, <2>1, SeqMonotonic
<1>5. all = first \o read
  BY DEF Shown
<1> HIDE DEF read, first, all
<1>6. /\ all \in Seq(Line)
      /\ Len(all) = Len(first) + Len(read)
      /\ \A n \in 1 .. Len(first) + Len(read) :
           all[n] = IF n <= Len(first) THEN first[n] ELSE read[n - Len(first)]
  BY <1>2, <1>4, <1>5, ConcatProperties, Zenon
<1>7. DOMAIN all = 1 .. Len(all)
  BY <1>6, LenProperties
<1>8. ids = {all[n].id : n \in 1 .. Len(all)}
  BY <1>7 DEF ToSet
<1> HIDE DEF R
<1>9. ASSUME NEW n \in 1 .. Len(all)
      PROVE  \/ \E k \in DOMAIN mem : all[n].id = mem[k].id
             \/ \E m \in R : all[n].id = lines[m].id
  <2>1. CASE n <= Len(first)
    <3>1. n \in 1 .. Len(mem) /\ n \in 1 .. Len(first) + Len(read)
      BY <1>1, <1>2, <1>3, <1>6, <2>1
    <3>2. all[n] = first[n]
      BY <1>6, <2>1, <3>1
    <3> QED
      BY <1>1, <1>3, <3>1, <3>2
  <2>2. CASE ~(n <= Len(first))
    <3>1. n - Len(first) \in 1 .. Len(read)
      BY <1>1, <1>2, <1>3, <1>6, <2>2
    <3> QED
      BY <1>2, <1>6, <2>2, <3>1
  <2> QED
    BY <2>1, <2>2
<1>10. ASSUME NEW k \in DOMAIN mem
       PROVE  mem[k].id \in ids
  <2>1. k \in 1 .. Len(all) /\ k <= Len(first)
    BY <1>1, <1>2, <1>3, <1>6
  <2> QED
    BY <1>1, <1>3, <1>6, <1>8, <2>1
<1>11. ASSUME NEW m \in R
       PROVE  lines[m].id \in ids
  <2>1. PICK n \in 1 .. Len(read) : Nth(R, n) = m
    BY <1>2
  <2>2. /\ n + Len(first) \in 1 .. Len(all) /\ ~(n + Len(first) <= Len(first))
        /\ n + Len(first) - Len(first) = n
    BY <1>1, <1>2, <1>3, <1>6
  <2>3. all[n + Len(first)] = read[n]
    BY <1>6, <2>2
  <2> QED
    BY <1>2, <1>8, <2>1, <2>2, <2>3
<1>12. ids \subseteq {mem[k].id : k \in DOMAIN mem} \union {lines[m].id : m \in R}
  <2> SUFFICES ASSUME NEW i \in ids
               PROVE  i \in {mem[k].id : k \in DOMAIN mem} \union {lines[m].id : m \in R}
    OBVIOUS
  <2>1. PICK n \in 1 .. Len(all) : i = all[n].id
    BY <1>8
  <2> QED
    BY <1>9, <2>1
<1>13. {mem[k].id : k \in DOMAIN mem} \union {lines[m].id : m \in R} \subseteq ids
  BY <1>10, <1>11
<1> QED
  BY <1>2, <1>3, <1>6, <1>12, <1>13 DEF IdsOf, IdsIn, R, all

(* The invariant bounds how often list shows tasks twice.                  *)
LEMMA CoveredCounts ==
  ArchiveInv => DoubledByFaults
<1> SUFFICES ASSUME ArchiveInv
             PROVE  DoubledByFaults
  OBVIOUS
<1> DEFINE R == Readable(file.lines)
           idAt(m) == file.lines[m].id
<1>1. /\ memory \in Seq(Entry) /\ file.lines \in Seq(Line) /\ faults \in Nat
      /\ Len(memory) \in Nat /\ DOMAIN memory = 1 .. Len(memory)
      /\ DOMAIN file.lines = 1 .. Len(file.lines)
  BY BoundAssumption, LenProperties DEF ArchiveInv, TypeOK, WellFormed, File
<1>2. PICK extra \in SUBSET R :
        /\ Cardinality(extra) <= faults
        /\ \A m \in R \ extra :
             /\ idAt(m) \notin IdsOf(memory)
             /\ \A n \in R \ extra : idAt(n) = idAt(m) => n = m
  BY DEF ArchiveInv, Covered
<1>3. /\ IsFiniteSet(R) /\ Cardinality(R) \in Nat /\ R \subseteq DOMAIN file.lines
      /\ IsFiniteSet(extra) /\ Cardinality(extra) \in Nat
  BY <1>1, ReadableIsFinite, FS_CardinalityType
<1> HIDE DEF R
<1>4. IsFiniteSet(IdsOf(memory)) /\ Cardinality(IdsOf(memory)) = Len(memory)
  <2> DEFINE f == [k \in 1 .. Len(memory) |-> memory[k].id]
  <2>1. /\ f \in Surjection(1 .. Len(memory), IdsOf(memory))
        /\ f \in Injection(1 .. Len(memory), IdsOf(memory))
    <3>1. f \in [1 .. Len(memory) -> IdsOf(memory)]
      BY <1>1 DEF IdsOf
    <3>2. \A i \in IdsOf(memory) : \E k \in 1 .. Len(memory) : f[k] = i
      BY <1>1 DEF IdsOf
    <3>3. \A j, k \in 1 .. Len(memory) : f[j] = f[k] => j = k
      BY <1>1 DEF ArchiveInv, UniqueIds
    <3> HIDE DEF f
    <3> QED
      BY <3>1, <3>2, <3>3 DEF Surjection, Injection, IsInjective
  <2>2. IsFiniteSet(1 .. Len(memory)) /\ Cardinality(1 .. Len(memory)) = Len(memory)
    <3>1. Len(memory) \in Int /\ Len(memory) \in Nat
      BY <1>1
    <3> HIDE DEF f
    <3>2. /\ IsFiniteSet(1 .. Len(memory))
          /\ Cardinality(1 .. Len(memory)) =
               IF 1 > Len(memory) THEN 0 ELSE Len(memory) - 1 + 1
      BY <3>1, FS_Interval
    <3> QED
      BY <3>1, <3>2
  <2> QED
    BY <2>1, <2>2, FS_Surjection
<1> DEFINE own == R \ extra
           ownIds == {idAt(m) : m \in own}
           allIds == {idAt(m) : m \in R}
<1>5. IsFiniteSet(own) /\ Cardinality(own) = Cardinality(R) - Cardinality(extra)
  <2>1. R \intersect extra = extra
    OBVIOUS
  <2> QED
    BY <1>3, <2>1, FS_Difference
<1>6. IsFiniteSet(ownIds) /\ Cardinality(ownIds) = Cardinality(own)
  <2> DEFINE f == [m \in own |-> idAt(m)]
  <2>1. f \in Surjection(own, ownIds) /\ f \in Injection(own, ownIds)
    BY <1>2 DEF Surjection, Injection, IsInjective
  <2> HIDE DEF own, ownIds, f
  <2> QED
    BY <2>1, <1>5, FS_Surjection
<1>7. IsFiniteSet(allIds)
  <2> DEFINE f == [m \in R |-> idAt(m)]
  <2>1. f \in Surjection(R, allIds)
    BY DEF Surjection
  <2> HIDE DEF f, allIds
  <2> QED
    BY <2>1, <1>3, FS_Surjection
<1>8. /\ Len(Listing) = Len(memory) + Cardinality(R)
      /\ ListedIds = IdsOf(memory) \union allIds
  BY <1>1, ShownProperties DEF Listing, ReadTrimmedTasks, Shown, ListedIds, IdsOf, IdsIn, R
<1>9. /\ IsFiniteSet(ListedIds)
      /\ Cardinality(IdsOf(memory) \union ownIds) <= Cardinality(ListedIds)
  <2>1. IsFiniteSet(ListedIds)
    <3> HIDE DEF allIds
    <3> QED
      BY <1>4, <1>7, <1>8, FS_Union
  <2>2. IdsOf(memory) \union ownIds \in SUBSET ListedIds
    BY <1>8
  <2> HIDE DEF ownIds
  <2> QED
    BY <2>1, <2>2, FS_Subset
<1>10. Cardinality(IdsOf(memory) \union ownIds) = Len(memory) + Cardinality(R) - Cardinality(extra)
  <2>1. IdsOf(memory) \intersect ownIds = {}
    BY <1>2
  <2> HIDE DEF ownIds, own
  <2> QED
    <3>1. Cardinality(IdsOf(memory) \union ownIds) =
            Cardinality(IdsOf(memory)) + Cardinality(ownIds) - Cardinality(IdsOf(memory) \intersect ownIds)
      BY <1>4, <1>6, FS_Union
    <3>2. Cardinality(IdsOf(memory) \intersect ownIds) = 0
      BY <2>1, FS_EmptySet
    <3> QED
      BY <3>1, <3>2, <1>1, <1>3, <1>4, <1>5, <1>6
<1>11. Cardinality(ListedIds) \in Nat
  BY <1>9, FS_CardinalityType
<1> HIDE DEF ownIds
<1> QED
  BY <1>1, <1>2, <1>3, <1>8, <1>9, <1>10, <1>11 DEF DoubledByFaults

-----------------------------------------------------------------------------
(* What the operations do to the tasks in memory *)

(* A task whose id is new is appended.                                     *)
LEMMA AppendedTask ==
  ASSUME NEW mem \in Seq(Entry), UniqueIds(mem), NEW t \in Entry, t.id \notin IdsOf(mem)
  PROVE  /\ Append(mem, t) \in Seq(Entry)
         /\ UniqueIds(Append(mem, t))
         /\ IdsOf(Append(mem, t)) = IdsOf(mem) \union {t.id}
<1> DEFINE c == Append(mem, t)
           n == Len(mem)
<1>1. n \in Nat /\ DOMAIN mem = 1 .. n
  BY LenProperties
<1>2. c \in Seq(Entry) /\ Len(c) = n + 1 /\ c[n + 1] = t /\ \A k \in 1 .. n : c[k] = mem[k]
  BY AppendProperties
<1>3. DOMAIN c = 1 .. n + 1
  BY <1>2, LenProperties
<1>4. \A k \in 1 .. n + 1 : k = n + 1 \/ k \in 1 .. n
  BY <1>1
<1>5. \A k \in 1 .. n : k \in 1 .. n + 1 /\ n + 1 \in 1 .. n + 1 /\ mem[k].id # t.id
  BY <1>1 DEF IdsOf
<1> HIDE DEF c, n
<1>6. UniqueIds(c)
  BY <1>1, <1>2, <1>3, <1>4, <1>5 DEF UniqueIds
<1>7. n + 1 \in 1 .. n + 1
  BY <1>1 DEF n
<1>8. IdsOf(c) = IdsOf(mem) \union {t.id}
  BY <1>1, <1>2, <1>3, <1>4, <1>5, <1>7 DEF IdsOf
<1> QED
  BY <1>2, <1>6, <1>8 DEF c

(* Tasks at different places are brought together.                         *)
Joined(mem, P, Q) == Pick(mem, P) \o Pick(mem, Q)

(* Every task in c is in mem at a place in P, and the other way round. *)
Within(c, mem, P) == \A n \in DOMAIN c : \E k \in P : c[n] = mem[k]

Includes(c, mem, P) == \A k \in P : \E n \in DOMAIN c : c[n] = mem[k]

LEMMA JoinedProperties ==
  ASSUME NEW mem \in Seq(Entry), UniqueIds(mem),
         NEW P \in SUBSET DOMAIN mem, NEW Q \in SUBSET DOMAIN mem, P \intersect Q = {}
  PROVE  /\ Joined(mem, P, Q) \in Seq(Entry)
         /\ UniqueIds(Joined(mem, P, Q))
         /\ Within(Joined(mem, P, Q), mem, P \union Q)
         /\ Includes(Joined(mem, P, Q), mem, P \union Q)
<1> DEFINE x == Pick(mem, P)
           y == Pick(mem, Q)
           c == Joined(mem, P, Q)
           from(n) == IF n <= Len(x) THEN Nth(P, n) ELSE Nth(Q, n - Len(x))
<1>1. /\ x \in Seq(Entry)
      /\ \A n \in 1 .. Len(x) : Nth(P, n) \in P /\ x[n] = mem[Nth(P, n)]
      /\ \A m, n \in 1 .. Len(x) : Nth(P, m) = Nth(P, n) => m = n
      /\ \A k \in P : \E n \in 1 .. Len(x) : Nth(P, n) = k
  BY PickProperties
<1>2. /\ y \in Seq(Entry)
      /\ \A n \in 1 .. Len(y) : Nth(Q, n) \in Q /\ y[n] = mem[Nth(Q, n)]
      /\ \A m, n \in 1 .. Len(y) : Nth(Q, m) = Nth(Q, n) => m = n
      /\ \A k \in Q : \E n \in 1 .. Len(y) : Nth(Q, n) = k
  BY PickProperties
<1>3. c = x \o y
  BY DEF Joined
<1> HIDE DEF x, y, c
<1>4. Len(x) \in Nat /\ Len(y) \in Nat
  BY <1>1, <1>2, LenProperties
<1>5. /\ c \in Seq(Entry) /\ Len(c) = Len(x) + Len(y)
      /\ \A n \in 1 .. Len(x) + Len(y) :
           c[n] = IF n <= Len(x) THEN x[n] ELSE y[n - Len(x)]
  <2>1. x \in Seq(Entry) /\ y \in Seq(Entry)
    BY <1>1, <1>2
  <2> QED
    BY <2>1, <1>3, ConcatProperties, Zenon
<1>6. DOMAIN c = 1 .. Len(x) + Len(y)
  BY <1>5, LenProperties
<1>7. ASSUME NEW n \in DOMAIN c
      PROVE  /\ n <= Len(x) => n \in 1 .. Len(x)
             /\ ~(n <= Len(x)) => n - Len(x) \in 1 .. Len(y)
  BY <1>4, <1>6
<1>8. ASSUME NEW n \in DOMAIN c
      PROVE  from(n) \in P \union Q /\ c[n] = mem[from(n)]
  <2>1. CASE n <= Len(x)
    BY <1>1, <1>5, <1>6, <1>7, <2>1
  <2>2. CASE ~(n <= Len(x))
    BY <1>2, <1>5, <1>6, <1>7, <2>2
  <2> QED
    BY <2>1, <2>2
<1>9. ASSUME NEW m \in DOMAIN c, NEW n \in DOMAIN c, from(m) = from(n)
      PROVE  m = n
  <2>1. CASE m <= Len(x) /\ n <= Len(x)
    BY <1>1, <1>7, <1>9, <2>1
  <2>2. CASE ~(m <= Len(x)) /\ ~(n <= Len(x))
    <3>1. m - Len(x) = n - Len(x)
      BY <1>2, <1>7, <1>9, <2>2
    <3> QED
      BY <3>1, <1>4, <1>6
  <2>3. CASE m <= Len(x) /\ ~(n <= Len(x))
    BY <1>1, <1>2, <1>7, <1>9, <2>3
  <2>4. CASE ~(m <= Len(x)) /\ n <= Len(x)
    BY <1>1, <1>2, <1>7, <1>9, <2>4
  <2> QED
    BY <2>1, <2>2, <2>3, <2>4
<1>10. ASSUME NEW k \in P \union Q
       PROVE  \E n \in DOMAIN c : c[n] = mem[k]
  <2>1. CASE k \in P
    <3>1. PICK n \in 1 .. Len(x) : Nth(P, n) = k
      BY <1>1, <2>1
    <3>2. n \in DOMAIN c /\ n <= Len(x)
      BY <1>4, <1>6
    <3> QED
      BY <1>1, <1>5, <1>6, <3>1, <3>2
  <2>2. CASE k \in Q
    <3>1. PICK n \in 1 .. Len(y) : Nth(Q, n) = k
      BY <1>2, <2>2
    <3>2. /\ n + Len(x) \in DOMAIN c /\ ~(n + Len(x) <= Len(x))
          /\ n + Len(x) - Len(x) = n
      BY <1>4, <1>6
    <3>3. c[n + Len(x)] = y[n]
      BY <1>5, <1>6, <3>2
    <3> QED
      BY <1>2, <3>1, <3>2, <3>3
  <2> QED
    BY <2>1, <2>2
<1> HIDE DEF from
<1>11. UniqueIds(c)
  BY <1>8, <1>9 DEF UniqueIds
<1> QED
  BY <1>5, <1>8, <1>10, <1>11 DEF c, Within, Includes

(* The task at place k is taken out of memory.                             *)
LEMMA SwappedOutProperties ==
  ASSUME ArchiveInv, NEW k \in DOMAIN memory
  PROVE  /\ SwappedOut(k) \in Seq(Entry)
         /\ UniqueIds(SwappedOut(k))
         /\ IdsOf(SwappedOut(k)) = IdsOf(memory) \ {memory[k].id}
<1> DEFINE n == Len(memory)
           moved == [memory EXCEPT ![k] = memory[n]]
           c == SwappedOut(k)
<1>1. /\ memory \in Seq(Entry) /\ n \in Nat /\ DOMAIN memory = 1 .. n /\ k \in 1 .. n
      /\ UniqueIds(memory)
  BY LenProperties DEF ArchiveInv
<1>2. \A m \in 1 .. n : memory[m] \in Entry
  BY <1>1, ElementOfSeq
<1>3. n \in 1 .. n
  BY <1>1
<1>4. /\ \A m \in 1 .. n - 1 : moved[m] \in Entry
      /\ \A m \in 1 .. n - 1 : moved[m] = IF m = k THEN memory[n] ELSE memory[m]
  BY <1>1, <1>2, <1>3
<1>5. c = SubSeq(moved, 1, n - 1)
  BY DEF SwappedOut
<1> HIDE DEF moved, c
<1>6. /\ c \in Seq(Entry)
      /\ Len(c) = n - 1
      /\ \A m \in 1 .. n - 1 : c[m] = moved[m]
  <2>1. \A m \in 1 .. n - 1 - 1 + 1 : m \in 1 .. n - 1 /\ 1 + m - 1 = m
    BY <1>1
  <2> QED
    BY <1>1, <1>4, <1>5, <2>1, SubSeqProperties
<1>7. DOMAIN c = 1 .. n - 1
  BY <1>6, LenProperties
<1> HIDE DEF n
<1>8. \A m \in 1 .. n - 1 : m \in 1 .. n /\ m # n
  BY <1>1
<1>9. \A m \in 1 .. n : m = n \/ m \in 1 .. n - 1
  BY <1>1
<1>10. \A m \in 1 .. n - 1 : c[m] = IF m = k THEN memory[n] ELSE memory[m]
  BY <1>4, <1>6
<1>11. UniqueIds(c)
  BY <1>1, <1>3, <1>7, <1>8, <1>10 DEF UniqueIds
<1>12. \A m \in 1 .. n - 1 : c[m].id \in IdsOf(memory) \ {memory[k].id}
  BY <1>1, <1>3, <1>8, <1>10 DEF UniqueIds, IdsOf
<1>13. ASSUME NEW m \in 1 .. n, m # k
       PROVE  \E j \in 1 .. n - 1 : c[j] = memory[m]
  BY <1>1, <1>8, <1>9, <1>10, <1>13
<1>14. IdsOf(c) = IdsOf(memory) \ {memory[k].id}
  <2>1. \A i \in IdsOf(c) : i \in IdsOf(memory) \ {memory[k].id}
    BY <1>7, <1>12 DEF IdsOf
  <2>2. ASSUME NEW i \in IdsOf(memory) \ {memory[k].id}
        PROVE  i \in IdsOf(c)
    <3>1. PICK m \in 1 .. n : memory[m].id = i /\ m # k
      BY <1>1 DEF IdsOf
    <3> QED
      BY <3>1, <1>7, <1>13 DEF IdsOf
  <2> QED
    BY <2>1, <2>2
<1> QED
  BY <1>6, <1>11, <1>14 DEF c

-----------------------------------------------------------------------------
(* Trim *)

(* The tasks that a trim writes. *)
Old == Pick(memory, Inactive)

DoneIds(written, n) ==
  {Old[k].id : k \in {j \in 1 .. n : written[Old[j].id] > Old[j].size}}

FailedIds(written, n) ==
  {Old[k].id : k \in {j \in 1 .. n : written[Old[j].id] <= Old[j].size}}

(* The inactive tasks of memory, each of them once. *)
LEMMA OldProperties ==
  ASSUME ArchiveInv
  PROVE  /\ Old \in Seq(Entry)
         /\ Len(Old) \in Nat /\ DOMAIN Old = 1 .. Len(Old)
         /\ \A j, k \in 1 .. Len(Old) : Old[j].id = Old[k].id => j = k
         /\ \A n \in 1 .. Len(Old) : \E k \in Inactive : Old[n] = memory[k]
         /\ \A k \in Inactive : \E n \in 1 .. Len(Old) : Old[n] = memory[k]
<1>1. /\ memory \in Seq(Entry) /\ Inactive \subseteq DOMAIN memory
      /\ UniqueIds(memory)
  BY DEF ArchiveInv, Inactive
<1>2. /\ Old \in Seq(Entry)
      /\ \A n \in 1 .. Len(Old) : Nth(Inactive, n) \in Inactive
                                  /\ Old[n] = memory[Nth(Inactive, n)]
      /\ \A m, n \in 1 .. Len(Old) : Nth(Inactive, m) = Nth(Inactive, n) => m = n
      /\ \A k \in Inactive : \E n \in 1 .. Len(Old) : Nth(Inactive, n) = k
  BY <1>1, PickProperties DEF Old
<1>3. Len(Old) \in Nat /\ DOMAIN Old = 1 .. Len(Old)
  BY <1>2, LenProperties
<1>4. \A j, k \in 1 .. Len(Old) : Old[j].id = Old[k].id => j = k
  BY <1>1, <1>2 DEF UniqueIds
<1> QED
  BY <1>2, <1>3, <1>4

(* What each write has to write, and how much of it. *)
LEMMA WrittenProperties ==
  ASSUME ArchiveInv, NEW written \in [{t.id : t \in ToSet(Old)} -> 0 .. MaxSize + 1],
         NEW n \in 1 .. Len(Old)
  PROVE  /\ Old[n] \in Entry /\ Old[n].size \in Nat /\ Old[n].id \in 0 .. issued - 1
         /\ Old[n].id \in IdsOf(memory)
         /\ LineOf(Old[n]) \in Line
         /\ LineOf(Old[n]).id = Old[n].id /\ LineOf(Old[n]).size = Old[n].size
         /\ Old[n].id # NoTask
         /\ written[Old[n].id] \in Nat
<1>1. /\ Old \in Seq(Entry) /\ DOMAIN Old = 1 .. Len(Old)
      /\ \E k \in Inactive : Old[n] = memory[k]
  BY OldProperties
<1>2. Old[n] \in Entry
  BY <1>1, ElementOfSeq
<1>3. Old[n].id \in 0 .. issued - 1 /\ Old[n].id \in IdsOf(memory)
  BY <1>1 DEF ArchiveInv, TypeOK, Inactive, IdsOf
<1>4. Old[n].id \in {t.id : t \in ToSet(Old)}
  BY <1>1 DEF ToSet
<1>5. MaxSize \in Nat /\ issued \in Nat /\ MaxId \in Nat
  BY BoundAssumption DEF ArchiveInv, TypeOK
<1>6. written[Old[n].id] \in Nat
  BY <1>4, <1>5
<1>7. Old[n].size \in Nat /\ Old[n].id \in 0 .. MaxId - 1
  BY <1>2, <1>5 DEF Entry
<1>8. LineOf(Old[n]) \in Line
  BY <1>7 DEF LineOf, Line
<1>9. Old[n].id # NoTask
  BY <1>3, <1>5 DEF NoTask
<1> QED
  BY <1>2, <1>3, <1>6, <1>7, <1>8, <1>9 DEF LineOf

(* After each write the file is well formed, and holds no other tasks than *)
(* it and memory did.                                                      *)
LEMMA WritesWellFormed ==
  ASSUME ArchiveInv, NEW written \in [{t.id : t \in ToSet(Old)} -> 0 .. MaxSize + 1]
  PROVE  \A n \in 0 .. Len(Old) :
           LET f == Writes(Old, written)[n]
           IN  /\ WellFormed(f)
               /\ \A m \in DOMAIN f.lines : f.lines[m].id < issued
               /\ IdsIn(f.lines) \subseteq IdsIn(file.lines) \union IdsOf(memory)
<1> DEFINE w == Writes(Old, written)
           good(f) == /\ WellFormed(f)
                      /\ \A m \in DOMAIN f.lines : f.lines[m].id < issued
                      /\ IdsIn(f.lines) \subseteq IdsIn(file.lines) \union IdsOf(memory)
           S == {n \in 0 .. Len(Old) : good(w[n])}
<1>1. Old \in Seq(Entry) /\ Len(Old) \in Nat /\ issued \in Nat
  BY OldProperties DEF ArchiveInv, TypeOK
<1>2. /\ w[0] = file
      /\ \A n \in 1 .. Len(Old) :
           w[n] = Appended(w[n - 1], LineOf(Old[n]), written[Old[n].id])
  BY <1>1, WritesOneByOne
<1> HIDE DEF w
<1>3. 0 \in S
  BY <1>1, <1>2 DEF ArchiveInv, TypeOK
<1>4. ASSUME NEW n \in 0 .. Len(Old) - 1, n \in S
      PROVE  n + 1 \in S
  <2>1. n + 1 \in 1 .. Len(Old) /\ n + 1 \in 0 .. Len(Old) /\ n + 1 - 1 = n
    BY <1>1
  <2>2. w[n + 1] = Appended(w[n], LineOf(Old[n + 1]), written[Old[n + 1].id])
    <3> DEFINE k == n + 1
    <3>1. k \in 1 .. Len(Old) /\ k - 1 = n
      BY <2>1
    <3> HIDE DEF k
    <3>2. w[k] = Appended(w[k - 1], LineOf(Old[k]), written[Old[k].id])
      BY <1>2, <3>1
    <3>3. w[k] = Appended(w[n], LineOf(Old[k]), written[Old[k].id])
      BY <3>1, <3>2
    <3> QED
      BY <3>3 DEF k
  <2>3. /\ LineOf(Old[n + 1]) \in Line
        /\ LineOf(Old[n + 1]).id = Old[n + 1].id
        /\ LineOf(Old[n + 1]).id # NoTask
        /\ Old[n + 1].id \in 0 .. issued - 1
        /\ Old[n + 1].id \in IdsOf(memory)
        /\ written[Old[n + 1].id] \in Nat
    BY <2>1, WrittenProperties
  <2> DEFINE line == LineOf(Old[n + 1])
             units == written[Old[n + 1].id]
  <2>4. /\ WellFormed(w[n + 1])
        /\ \A m \in DOMAIN w[n + 1].lines :
             \/ w[n + 1].lines[m].id \in {NoTask, line.id}
             \/ m \in DOMAIN w[n].lines /\ w[n + 1].lines[m] = w[n].lines[m]
        /\ \A m \in Readable(w[n + 1].lines) :
             \/ m \in Readable(w[n].lines) /\ w[n + 1].lines[m] = w[n].lines[m]
             \/ w[n + 1].lines[m] = line
    <3> DEFINE f == w[n]
               g == w[n + 1]
    <3>1. WellFormed(f) /\ g = Appended(f, line, units)
      BY <1>4, <2>2
    <3>2. line \in Line /\ line.id # NoTask /\ units \in Nat
      BY <2>3
    <3> HIDE DEF line, units, f, g
    <3>3. /\ WellFormed(g)
          /\ \A m \in DOMAIN g.lines :
               \/ g.lines[m].id \in {NoTask, line.id}
               \/ m \in DOMAIN f.lines /\ g.lines[m] = f.lines[m]
          /\ \A m \in Readable(g.lines) :
               \/ m \in Readable(f.lines) /\ g.lines[m] = f.lines[m]
               \/ g.lines[m] = line
      BY <3>1, <3>2, AppendedReads
    <3> QED
      BY <3>3 DEF f, g
  <2>5. NoTask < issued /\ Old[n + 1].id < issued
    BY <1>1, <2>3 DEF NoTask
  <2>6. IdsIn(w[n + 1].lines) \subseteq IdsIn(w[n].lines) \union {Old[n + 1].id}
    BY <2>3, <2>4 DEF IdsIn
  <2>7. \A m \in DOMAIN w[n + 1].lines : w[n + 1].lines[m].id < issued
    BY <1>4, <2>3, <2>4, <2>5
  <2> QED
    BY <1>4, <2>1, <2>3, <2>4, <2>6, <2>7
<1> HIDE DEF S
<1>5. \A n \in 0 .. Len(Old) : n \in S
  BY <1>1, <1>3, <1>4, Induction
<1> QED
  BY <1>5 DEF S, w

(* After each write the lines are covered by the tasks not yet written.    *)
LEMMA WritesCovered ==
  ASSUME ArchiveInv, NEW written \in [{t.id : t \in ToSet(Old)} -> 0 .. MaxSize + 1]
  PROVE  \A n \in 0 .. Len(Old) :
           /\ IsFiniteSet(FailedIds(written, n))
           /\ Cardinality(FailedIds(written, n)) \in Nat
           /\ Covered(Writes(Old, written)[n].lines,
                      IdsOf(memory) \ DoneIds(written, n),
                      faults + Cardinality(FailedIds(written, n)))
<1> DEFINE w == Writes(Old, written)
           done(n) == DoneIds(written, n)
           failed(n) == FailedIds(written, n)
           S == {n \in 0 .. Len(Old) :
                   /\ IsFiniteSet(failed(n)) /\ Cardinality(failed(n)) \in Nat
                   /\ Covered(w[n].lines, IdsOf(memory) \ done(n),
                              faults + Cardinality(failed(n)))}
<1>1. /\ Old \in Seq(Entry) /\ Len(Old) \in Nat /\ faults \in Nat
      /\ \A j, k \in 1 .. Len(Old) : Old[j].id = Old[k].id => j = k
  BY OldProperties, BoundAssumption DEF ArchiveInv, TypeOK
<1>2. /\ w[0] = file
      /\ \A n \in 1 .. Len(Old) :
           w[n] = Appended(w[n - 1], LineOf(Old[n]), written[Old[n].id])
  BY <1>1, WritesOneByOne
<1>3. \A n \in 0 .. Len(Old) : WellFormed(w[n])
  BY WritesWellFormed
<1> HIDE DEF w
<1>4. 0 \in S
  <2>1. done(0) = {} /\ failed(0) = {}
    BY DEF DoneIds, FailedIds
  <2>2. IsFiniteSet(failed(0)) /\ Cardinality(failed(0)) = 0
    BY <2>1, FS_EmptySet
  <2>3. IdsOf(memory) \ done(0) = IdsOf(memory) /\ faults + Cardinality(failed(0)) = faults
    BY <1>1, <2>1, <2>2
  <2>4. Covered(w[0].lines, IdsOf(memory) \ done(0), faults + Cardinality(failed(0)))
    BY <1>2, <2>3 DEF ArchiveInv
  <2> QED
    BY <1>1, <2>2, <2>4
<1>5. ASSUME NEW n \in 0 .. Len(Old) - 1, n \in S
      PROVE  n + 1 \in S
  <2> DEFINE t == Old[n + 1]
             d == faults + Cardinality(failed(n))
             ids == IdsOf(memory) \ done(n)
  <2>1. n + 1 \in 1 .. Len(Old) /\ n + 1 \in 0 .. Len(Old) /\ n + 1 - 1 = n
        /\ n \in 0 .. Len(Old)
    BY <1>1
  <2>2. w[n + 1] = Appended(w[n], LineOf(t), written[t.id]) /\ WellFormed(w[n])
        /\ WellFormed(w[n + 1])
    <3> DEFINE k == n + 1
    <3>1. k \in 1 .. Len(Old) /\ k \in 0 .. Len(Old) /\ k - 1 = n /\ n \in 0 .. Len(Old)
      BY <2>1
    <3> HIDE DEF k
    <3>2. w[k] = Appended(w[k - 1], LineOf(Old[k]), written[Old[k].id])
      BY <1>2, <3>1
    <3>3. w[k] = Appended(w[n], LineOf(Old[k]), written[Old[k].id])
      BY <3>1, <3>2
    <3>4. WellFormed(w[k]) /\ WellFormed(w[n])
      BY <1>3, <3>1
    <3> QED
      BY <3>3, <3>4 DEF k
  <2>3. /\ LineOf(t) \in Line /\ LineOf(t).id = t.id /\ LineOf(t).size = t.size
        /\ t.size \in Nat /\ t.id # NoTask /\ t.id \in IdsOf(memory)
        /\ written[t.id] \in Nat
    BY <2>1, WrittenProperties
  <2>4. \A k \in 1 .. n : k \in 1 .. Len(Old) /\ Old[k].id # t.id
    BY <1>1, <2>1
  <2>5. t.id \notin done(n) /\ t.id \notin failed(n)
    BY <2>4 DEF DoneIds, FailedIds
  <2>6. \A k \in 1 .. n + 1 : k = n + 1 \/ k \in 1 .. n
    OBVIOUS
  <2>7. \A k \in 1 .. n : k \in 1 .. n + 1
    OBVIOUS
  <2>8. /\ written[t.id] > t.size => done(n + 1) = done(n) \union {t.id} /\ failed(n + 1) = failed(n)
        /\ written[t.id] <= t.size => done(n + 1) = done(n) /\ failed(n + 1) = failed(n) \union {t.id}
    <3>1. CASE written[t.id] > t.size
      <4>1. /\ {j \in 1 .. n + 1 : written[Old[j].id] > Old[j].size} =
                 {j \in 1 .. n : written[Old[j].id] > Old[j].size} \union {n + 1}
            /\ {j \in 1 .. n + 1 : written[Old[j].id] <= Old[j].size} =
                 {j \in 1 .. n : written[Old[j].id] <= Old[j].size}
        BY <2>3, <2>6, <2>7, <3>1
      <4> QED
        BY <4>1, <3>1, <2>3 DEF DoneIds, FailedIds
    <3>2. CASE written[t.id] <= t.size
      <4>1. /\ {j \in 1 .. n + 1 : written[Old[j].id] > Old[j].size} =
                 {j \in 1 .. n : written[Old[j].id] > Old[j].size}
            /\ {j \in 1 .. n + 1 : written[Old[j].id] <= Old[j].size} =
                 {j \in 1 .. n : written[Old[j].id] <= Old[j].size} \union {n + 1}
        BY <2>3, <2>6, <2>7, <3>2
      <4> QED
        BY <4>1, <3>2, <2>3 DEF DoneIds, FailedIds
    <3> QED
      BY <3>1, <3>2
  <2>9. IsFiniteSet(failed(n)) /\ Cardinality(failed(n)) \in Nat /\ d \in Nat
        /\ Covered(w[n].lines, ids, d)
    BY <1>1, <1>5
  <2>10. /\ Covered(w[n + 1].lines, ids \ {t.id}, d)
         /\ Covered(w[n + 1].lines, ids, d + 1)
    <3>1. LineOf(t).id \in ids
      BY <2>3, <2>5
    <3> HIDE DEF t, d, ids
    <3> QED
      BY <3>1, <2>2, <2>3, <2>9, WriteCovered
  <2> HIDE DEF done, failed
  <2>11. CASE written[t.id] > t.size
    <3>1. IdsOf(memory) \ done(n + 1) = ids \ {t.id} /\ failed(n + 1) = failed(n)
      BY <2>8, <2>11
    <3> QED
      BY <3>1, <2>1, <2>9, <2>10
  <2>12. CASE written[t.id] <= t.size
    <3>1. done(n + 1) = done(n) /\ failed(n + 1) = failed(n) \union {t.id}
      BY <2>8, <2>12
    <3>2. IsFiniteSet(failed(n + 1)) /\ Cardinality(failed(n + 1)) = Cardinality(failed(n)) + 1
      <4>1. /\ IsFiniteSet(failed(n) \union {t.id})
            /\ Cardinality(failed(n) \union {t.id}) =
                 IF t.id \in failed(n) THEN Cardinality(failed(n))
                 ELSE Cardinality(failed(n)) + 1
        BY <2>9, FS_AddElement
      <4> QED
        BY <3>1, <4>1, <2>5
    <3>3. faults + Cardinality(failed(n + 1)) = d + 1 /\ Cardinality(failed(n + 1)) \in Nat
      BY <3>2, <2>9, <1>1
    <3> QED
      BY <3>1, <3>2, <3>3, <2>1, <2>10
  <2> QED
    BY <2>3, <2>11, <2>12
<1> HIDE DEF S
<1>6. \A n \in 0 .. Len(Old) : n \in S
  BY <1>1, <1>4, <1>5, Induction
<1> QED
  BY <1>6 DEF S, w

(* A trim in which no write fails loses nothing while no line is too long, *)
(* but the unfinished line and the task that completes it.                 *)
LEMMA WritesKeep ==
  ASSUME ArchiveInv, NEW written \in [{t.id : t \in ToSet(Old)} -> 0 .. MaxSize + 1],
         \A j \in 1 .. Len(Old) : written[Old[j].id] > Old[j].size
  PROVE  \A n \in 0 .. Len(Old) :
           LET f == Writes(Old, written)[n]
           IN  Whole(f.lines) =>
                 /\ \A m \in Readable(file.lines) :
                      \/ file.lines[m].id \in IdsIn(f.lines)
                      \/ file.open /\ m = Len(file.lines)
                 /\ \A j \in 1 .. n :
                      \/ Old[j].id \in IdsIn(f.lines)
                      \/ file.open /\ j = 1
<1> DEFINE w == Writes(Old, written)
           keeps(f, n) ==
             Whole(f.lines) =>
               /\ f.open => n = 0
               /\ \A m \in Readable(file.lines) :
                    \/ file.lines[m].id \in IdsIn(f.lines)
                    \/ file.open /\ m = Len(file.lines)
               /\ \A j \in 1 .. n :
                    \/ Old[j].id \in IdsIn(f.lines)
                    \/ file.open /\ j = 1
           S == {n \in 0 .. Len(Old) : keeps(w[n], n)}
<1>1. Old \in Seq(Entry) /\ Len(Old) \in Nat
  BY OldProperties
<1>2. /\ w[0] = file
      /\ \A n \in 1 .. Len(Old) :
           w[n] = Appended(w[n - 1], LineOf(Old[n]), written[Old[n].id])
  BY <1>1, WritesOneByOne
<1>3. \A n \in 0 .. Len(Old) : WellFormed(w[n])
  BY WritesWellFormed
<1> HIDE DEF w
<1>4. 0 \in S
  BY <1>1, <1>2 DEF IdsIn
<1>5. ASSUME NEW n \in 0 .. Len(Old) - 1, n \in S, Whole(w[n + 1].lines)
      PROVE  keeps(w[n + 1], n + 1)
  <2> DEFINE line == LineOf(Old[n + 1])
             units == written[Old[n + 1].id]
             N == Len(w[n].lines)
  <2>1. n + 1 \in 1 .. Len(Old) /\ n + 1 - 1 = n /\ n \in 0 .. Len(Old)
    BY <1>1
  <2>2. /\ line \in Line /\ line.id = Old[n + 1].id /\ line.id # NoTask
        /\ units \in Nat /\ units > line.size /\ line.size \in Nat
    BY <2>1, WrittenProperties
  <2>3. w[n + 1] = Appended(w[n], line, units) /\ WellFormed(w[n])
    <3>1. /\ w[n + 1] = Appended(w[n + 1 - 1], LineOf(Old[n + 1]), written[Old[n + 1].id])
          /\ WellFormed(w[n])
      BY <1>2, <1>3, <2>1
    <3> QED
      BY <2>1, <3>1
  <2> HIDE DEF line, units, S
  <2>4. /\ ~w[n + 1].open
        /\ \A m \in Readable(w[n].lines) :
             \/ m \in Readable(w[n + 1].lines) /\ w[n + 1].lines[m] = w[n].lines[m]
             \/ m = N /\ w[n].open
        /\ Whole(w[n].lines)
        /\ ~w[n].open => N + 1 \in Readable(w[n + 1].lines) /\ w[n + 1].lines[N + 1] = line
    <3> DEFINE f == w[n]
               g == w[n + 1]
    <3>1. WellFormed(f) /\ g = Appended(f, line, units) /\ Whole(g.lines)
      BY <1>5, <2>3
    <3> HIDE DEF f, g
    <3>2. /\ ~g.open
          /\ \A m \in Readable(f.lines) :
               \/ m \in Readable(g.lines) /\ g.lines[m] = f.lines[m]
               \/ m = Len(f.lines) /\ f.open
          /\ Whole(f.lines)
          /\ ~f.open => /\ Len(f.lines) + 1 \in Readable(g.lines)
                        /\ g.lines[Len(f.lines) + 1] = line
      BY <2>2, <3>1, AppendedReads
    <3> QED
      BY <3>2 DEF f, g
  <2>5. ~w[n].open => /\ IdsIn(w[n].lines) \subseteq IdsIn(w[n + 1].lines)
                      /\ Old[n + 1].id \in IdsIn(w[n + 1].lines)
    BY <2>2, <2>4 DEF IdsIn
  <2>6. keeps(w[n], n)
    BY <1>5 DEF S
  <2>7. CASE w[n].open
    <3>1. n = 0 /\ w[n] = file
      BY <1>2, <2>4, <2>6, <2>7
    <3>2. \A j \in 1 .. n + 1 : j = 1
      BY <3>1
    <3>3. \A m \in Readable(file.lines) :
            \/ file.lines[m].id \in IdsIn(w[n + 1].lines)
            \/ m = Len(file.lines)
      BY <2>4, <3>1 DEF IdsIn
    <3> QED
      BY <2>4, <2>7, <3>1, <3>2, <3>3
  <2>8. CASE ~w[n].open
    <3>1. \A j \in 1 .. n + 1 : j = n + 1 \/ j \in 1 .. n
      OBVIOUS
    <3>2. \A m \in Readable(file.lines) :
            \/ file.lines[m].id \in IdsIn(w[n + 1].lines)
            \/ file.open /\ m = Len(file.lines)
      BY <2>4, <2>5, <2>6, <2>8
    <3>3. \A j \in 1 .. n + 1 :
            \/ Old[j].id \in IdsIn(w[n + 1].lines)
            \/ file.open /\ j = 1
      BY <2>4, <2>5, <2>6, <2>8, <3>1
    <3> QED
      BY <2>4, <3>2, <3>3
  <2> QED
    BY <2>7, <2>8
<1>6. ASSUME NEW n \in 0 .. Len(Old) - 1, n \in S
      PROVE  n + 1 \in S
  <2>1. n + 1 \in 0 .. Len(Old)
    BY <1>1
  <2>2. Whole(w[n + 1].lines) => keeps(w[n + 1], n + 1)
    BY <1>5, <1>6
  <2>3. keeps(w[n + 1], n + 1)
    BY <2>2
  <2> QED
    BY <2>1, <2>3
<1> HIDE DEF S
<1>7. \A n \in 0 .. Len(Old) : n \in S
  BY <1>1, <1>4, <1>6, Induction
<1> QED
  BY <1>7 DEF S, w

(* The tasks kept in memory are all but those that have been written.      *)
LEMMA KeptProperties ==
  ASSUME ArchiveInv, NEW written \in [{t.id : t \in ToSet(Old)} -> 0 .. MaxSize + 1]
  PROVE  /\ Kept(written) \in Seq(Entry)
         /\ UniqueIds(Kept(written))
         /\ IdsOf(Kept(written)) = IdsOf(memory) \ DoneIds(written, Len(Old))
         /\ \A n \in DOMAIN Kept(written) : \E k \in DOMAIN memory : Kept(written)[n] = memory[k]
<1> DEFINE Q == {k \in Inactive : written[memory[k].id] <= memory[k].size}
           c == Kept(written)
           done == DoneIds(written, Len(Old))
<1>1. /\ memory \in Seq(Entry) /\ UniqueIds(memory)
      /\ Active \in SUBSET DOMAIN memory /\ Inactive \subseteq DOMAIN memory
      /\ Active \intersect Inactive = {}
      /\ \A k \in DOMAIN memory : k \in Active \/ k \in Inactive
  BY DEF ArchiveInv, Active, Inactive
<1>2. Q \in SUBSET DOMAIN memory /\ Active \intersect Q = {}
  BY <1>1
<1>3. c = Joined(memory, Active, Q)
  BY DEF Kept, Joined
<1> HIDE DEF c
<1>4. /\ c \in Seq(Entry)
      /\ UniqueIds(c)
      /\ Within(c, memory, Active \union Q)
      /\ Includes(c, memory, Active \union Q)
  <2> HIDE DEF Q
  <2>1. /\ memory \in Seq(Entry) /\ UniqueIds(memory)
        /\ Active \in SUBSET DOMAIN memory /\ Q \in SUBSET DOMAIN memory
        /\ Active \intersect Q = {}
    BY <1>1, <1>2
  <2> QED
    BY <2>1, <1>3, JoinedProperties
<1>5. /\ \A n \in 1 .. Len(Old) : \E k \in Inactive : Old[n] = memory[k]
      /\ \A k \in Inactive : \E n \in 1 .. Len(Old) : Old[n] = memory[k]
      /\ \A n \in 1 .. Len(Old) : Old[n].size \in Nat /\ written[Old[n].id] \in Nat
  BY OldProperties, WrittenProperties
<1>6. ASSUME NEW i \in IdsOf(c)
      PROVE  i \in IdsOf(memory) \ done
  <2>1. PICK k \in Active \union Q : i = memory[k].id
    BY <1>4 DEF IdsOf, Within
  <2>2. k \in DOMAIN memory /\ i \in IdsOf(memory)
    BY <1>1, <1>2, <2>1 DEF IdsOf
  <2>3. i \notin done
    <3>1. SUFFICES ASSUME NEW n \in 1 .. Len(Old), Old[n].id = i,
                          written[Old[n].id] > Old[n].size
                   PROVE  FALSE
      BY DEF DoneIds
    <3>2. PICK m \in Inactive : Old[n] = memory[m]
      BY <1>5
    <3>3. m = k
      BY <1>1, <2>1, <2>2, <3>1, <3>2 DEF UniqueIds
    <3>4. written[memory[k].id] <= memory[k].size
      BY <1>1, <2>1, <3>2, <3>3
    <3>5. written[memory[k].id] > memory[k].size
      BY <3>1, <3>2, <3>3
    <3>6. written[memory[k].id] \in Nat /\ memory[k].size \in Nat
      BY <1>5, <3>2, <3>3
    <3> QED
      BY <3>4, <3>5, <3>6
  <2> QED
    BY <2>2, <2>3
<1>7. ASSUME NEW i \in IdsOf(memory) \ done
      PROVE  i \in IdsOf(c)
  <2>1. PICK k \in DOMAIN memory : i = memory[k].id
    BY DEF IdsOf
  <2>2. CASE k \in Active
    BY <1>4, <2>1, <2>2 DEF IdsOf, Includes
  <2>3. CASE k \in Inactive
    <3>1. PICK n \in 1 .. Len(Old) : Old[n] = memory[k]
      BY <1>5, <2>3
    <3>2. ~(written[Old[n].id] > Old[n].size)
      BY <2>1, <3>1, <1>7 DEF DoneIds
    <3>3. written[Old[n].id] <= Old[n].size
      <4>1. written[Old[n].id] \in Nat /\ Old[n].size \in Nat
        BY <1>5
      <4> QED
        BY <3>2, <4>1
    <3>4. k \in Q
      BY <2>3, <3>1, <3>3
    <3> QED
      BY <1>4, <2>1, <3>4 DEF IdsOf, Includes
  <2> QED
    BY <1>1, <2>2, <2>3
<1>8. \A n \in DOMAIN c : \E k \in DOMAIN memory : c[n] = memory[k]
  BY <1>1, <1>2, <1>4 DEF Within
<1>9. IdsOf(c) = IdsOf(memory) \ done
  BY <1>6, <1>7
<1> QED
  BY <1>4, <1>8, <1>9 DEF c

(* List shows what is in memory and what can be read of the file.          *)
LEMMA Listed ==
  ASSUME ArchiveInv
  PROVE  ListedIds = IdsOf(memory) \union IdsIn(file.lines)
<1>1. memory \in Seq(Entry) /\ file.lines \in Seq(Line)
  BY DEF ArchiveInv, WellFormed, File
<1>2. Listing = Shown(memory, file.lines)
  BY DEF Listing, Shown, ReadTrimmedTasks
<1> QED
  BY <1>1, <1>2, ShownProperties DEF ListedIds

(* So it does after a step.                                                *)
LEMMA ListedNext ==
  ASSUME ArchiveInv'
  PROVE  ListedIds' = IdsOf(memory') \union IdsIn(file'.lines)
<1>1. memory' \in Seq(Entry) /\ file'.lines \in Seq(Line)
  BY DEF ArchiveInv, WellFormed, File
<1>2. Listing' = Shown(memory', file'.lines)
  BY DEF Listing, Shown, ReadTrimmedTasks
<1> QED
  BY <1>1, <1>2, ShownProperties DEF ListedIds

(* The steps of ListedIsResumable and LostForGood.                         *)
Resumable ==
  LET i == answer'.id
  IN  /\ answer'.status = "notFound" /\ faults' = faults => i \notin ListedIds
      /\ answer'.status \in {"accepted", "rejected"} => i \in ListedIds

StaysLost == \A i \in 0 .. issued - 1 : i \notin ListedIds => i \notin ListedIds'

Step == ArchiveInv' /\ LossExplained /\ Resumable /\ StaysLost

(* A trim keeps the invariant, and its losses are explained.               *)
LEMMA TrimStep ==
  ASSUME ArchiveInv, Trim
  PROVE  Step
<1>1. PICK written \in [{t.id : t \in ToSet(Old)} -> 0 .. MaxSize + 1] :
        LET failed == {i \in DOMAIN written :
                         \E t \in ToSet(Old) : t.id = i /\ written[i] <= t.size}
        IN  /\ faults + Cardinality(failed) <= MaxFaults
            /\ faults' = faults + Cardinality(failed)
            /\ file' = Writes(Old, written)[Len(Old)]
            /\ memory' = Kept(written)
  BY DEF Trim, Old
<1>2. answer' = NoAnswer /\ UNCHANGED <<up, issued>>
  BY DEF Trim
<1> DEFINE n == Len(Old)
           done == DoneIds(written, n)
           failed == FailedIds(written, n)
<1>3. /\ Old \in Seq(Entry) /\ n \in Nat /\ DOMAIN Old = 1 .. n
      /\ n \in 0 .. n
      /\ faults \in Nat /\ MaxFaults \in Nat
  BY OldProperties, BoundAssumption DEF ArchiveInv, TypeOK
<1>4. {i \in DOMAIN written : \E t \in ToSet(Old) : t.id = i /\ written[i] <= t.size} = failed
  <2>1. ToSet(Old) = {Old[k] : k \in 1 .. n}
    BY <1>3 DEF ToSet
  <2>2. DOMAIN written = {t.id : t \in ToSet(Old)}
    OBVIOUS
  <2> QED
    BY <2>1, <2>2 DEF FailedIds
<1>5. /\ faults + Cardinality(failed) <= MaxFaults
      /\ faults' = faults + Cardinality(failed)
      /\ file' = Writes(Old, written)[n]
      /\ memory' = Kept(written)
  BY <1>1, <1>4
<1>6. /\ WellFormed(file')
      /\ \A m \in DOMAIN file'.lines : file'.lines[m].id < issued
      /\ IdsIn(file'.lines) \subseteq IdsIn(file.lines) \union IdsOf(memory)
  BY <1>3, <1>5, WritesWellFormed
<1>7. /\ memory' \in Seq(Entry)
      /\ UniqueIds(memory')
      /\ IdsOf(memory') = IdsOf(memory) \ done
      /\ \A k \in DOMAIN memory' : \E j \in DOMAIN memory : memory'[k] = memory[j]
  BY <1>5, KeptProperties
<1>8. /\ IsFiniteSet(failed) /\ Cardinality(failed) \in Nat
      /\ Covered(file'.lines, IdsOf(memory'), faults')
  BY <1>3, <1>5, <1>7, WritesCovered
<1> HIDE DEF n, done, failed
<1>9. file'.lines \in Seq(Line)
  BY <1>6 DEF WellFormed, File
<1>10. TypeOK'
  <2>1. \A m \in DOMAIN file'.lines : file'.lines[m] \in Line
    BY <1>9, LenProperties, ElementOfSeq
  <2>2. \A k \in DOMAIN memory' :
          memory'[k] \in [id : 0 .. issued - 1, size : 1 .. MaxSize, active : BOOLEAN]
    BY <1>7 DEF ArchiveInv, TypeOK
  <2>3. faults' \in 0 .. MaxFaults
    BY <1>3, <1>5, <1>8
  <2>4. file'.open => file'.lines # <<>>
    BY <1>6 DEF WellFormed
  <2> QED
    BY <1>2, <1>6, <2>1, <2>2, <2>3, <2>4 DEF ArchiveInv, TypeOK, NoAnswer
<1>11. ArchiveInv'
  BY <1>6, <1>7, <1>8, <1>10 DEF ArchiveInv
<1>12. /\ ListedIds = IdsOf(memory) \union IdsIn(file.lines)
       /\ ListedIds' = IdsOf(memory') \union IdsIn(file'.lines)
  BY <1>11, Listed, ListedNext
<1>13. LossExplained
  <2> DEFINE lost == (ListedIds \ ListedIds') \ Rejected
             last == file.lines[Len(file.lines)].id
             first == Old[1].id
  <2>1. SUFFICES ASSUME lost # {}, faults' = faults, Whole(file'.lines)
                 PROVE  file.open /\ Cardinality(lost) <= 2
    BY <1>2 DEF LossExplained, Whole
  <2>2. \A j \in 1 .. Len(Old) : written[Old[j].id] > Old[j].size
    <3>1. Cardinality(failed) = 0
      BY <1>3, <1>5, <1>8, <2>1
    <3>2. failed = {}
      BY <1>8, <3>1, FS_EmptySet
    <3>3. ASSUME NEW j \in 1 .. Len(Old)
          PROVE  written[Old[j].id] > Old[j].size
      <4>1. written[Old[j].id] \in Nat /\ Old[j].size \in Nat
        BY WrittenProperties
      <4>2. ~(written[Old[j].id] <= Old[j].size)
        BY <3>2 DEF failed, FailedIds, n
      <4> QED
        BY <4>1, <4>2
    <3> QED
      BY <3>3
  <2>3. /\ \A m \in Readable(file.lines) :
             \/ file.lines[m].id \in IdsIn(file'.lines)
             \/ file.open /\ m = Len(file.lines)
        /\ \A j \in 1 .. n :
             \/ Old[j].id \in IdsIn(file'.lines)
             \/ file.open /\ j = 1
    BY <1>3, <1>5, <2>1, <2>2, WritesKeep DEF n
  <2>4. ASSUME NEW i \in lost
        PROVE  file.open /\ i \in {last, first}
    <3>1. CASE i \in IdsIn(file.lines)
      BY <1>12, <2>3, <3>1 DEF IdsIn
    <3>2. CASE i \in IdsOf(memory)
      <4>1. i \in done
        BY <1>7, <1>12, <3>2
      <4>2. PICK j \in 1 .. n : i = Old[j].id
        BY <4>1 DEF done, DoneIds
      <4> QED
        BY <1>12, <2>3, <4>2
    <3> QED
      BY <1>12, <3>1, <3>2
  <2>5. Cardinality(lost) <= 2
    <3>1. IsFiniteSet({last}) /\ Cardinality({last}) = 1
      BY FS_Singleton
    <3>2. /\ IsFiniteSet({last} \union {first})
          /\ Cardinality({last} \union {first}) =
               IF first \in {last} THEN Cardinality({last}) ELSE Cardinality({last}) + 1
      BY <3>1, FS_AddElement
    <3>3. lost \in SUBSET ({last} \union {first})
      BY <2>4
    <3> HIDE DEF lost
    <3>4. /\ Cardinality(lost) <= Cardinality({last} \union {first})
          /\ Cardinality(lost) \in Nat /\ Cardinality({last} \union {first}) \in Nat
      BY <3>2, <3>3, FS_Subset, FS_CardinalityType
    <3>5. Cardinality({last} \union {first}) <= 2
      BY <3>1, <3>2
    <3> QED
      BY <3>4, <3>5
  <2> QED
    BY <2>1, <2>4, <2>5
<1>14. Resumable
  BY <1>2 DEF Resumable, NoAnswer
<1>15. StaysLost
  BY <1>6, <1>7, <1>12 DEF StaysLost
<1> QED
  BY <1>11, <1>13, <1>14, <1>15 DEF Step

-----------------------------------------------------------------------------
(* Resume *)

(* b holds the lines that can be read but the one at p, each once. *)
AllBut(p, lines, b) ==
  \E at \in [1 .. Len(b) -> Readable(lines) \ {p}] :
    /\ \A m, n \in 1 .. Len(b) : at[m] = at[n] => m = n
    /\ \A m \in 1 .. Len(b) : b[m] = lines[at[m]]
    /\ \A q \in Readable(lines) \ {p} : \E m \in 1 .. Len(b) : at[m] = q

(* What is left of the decoded lines when one is taken out. *)
LEMMA TakenOut ==
  ASSUME NEW lines \in Seq(Line), NEW k \in 1 .. Len(Decoded(lines)),
         NEW b, b = RemoveAt(Decoded(lines), k)
  PROVE  /\ b \in Seq(Line)
         /\ \A m \in 1 .. Len(b) : b[m].size <= Limit /\ Decodable(b[m])
         /\ \E p \in Readable(lines) :
              Decoded(lines)[k] = lines[p] /\ AllBut(p, lines, b)
<1> DEFINE R == Readable(lines)
           d == Decoded(lines)
<1>1. R \subseteq DOMAIN lines /\ DOMAIN lines = 1 .. Len(lines) /\ Len(lines) \in Nat
  BY LenProperties DEF Readable, Scanned
<1>2. ASSUME NEW q \in R
      PROVE  lines[q].size <= Limit /\ Decodable(lines[q])
  <2>1. q \in 1 .. q
    BY <1>1
  <2> QED
    BY <2>1 DEF Readable, Scanned
<1>3. /\ d \in Seq(Line)
      /\ \A n \in 1 .. Len(d) : Nth(R, n) \in R /\ d[n] = lines[Nth(R, n)]
      /\ \A m, n \in 1 .. Len(d) : Nth(R, m) = Nth(R, n) => m = n
      /\ \A q \in R : \E n \in 1 .. Len(d) : Nth(R, n) = q
  <2>1. d = Pick(lines, R)
    BY DEF Decoded
  <2> HIDE DEF R, d
  <2>2. d \in Seq(Line)
    BY <1>1, <2>1, PickProperties
  <2>3. \A n \in 1 .. Len(d) : Nth(R, n) \in R /\ d[n] = lines[Nth(R, n)]
    BY <1>1, <2>1, PickProperties
  <2>4. \A m, n \in 1 .. Len(d) : Nth(R, m) = Nth(R, n) => m = n
    BY <1>1, <2>1, PickProperties
  <2>5. \A q \in R : \E n \in 1 .. Len(d) : Nth(R, n) = q
    BY <1>1, <2>1, PickProperties
  <2> QED
    BY <2>2, <2>3, <2>4, <2>5
<1> HIDE DEF R
<1>4. /\ b \in Seq(Line)
      /\ Len(b) = Len(d) - 1
      /\ \A m \in 1 .. Len(d) - 1 : b[m] = IF m < k THEN d[m] ELSE d[m + 1]
  <2>1. d \in Seq(Line) /\ k \in 1 .. Len(d) /\ b = RemoveAt(d, k)
    BY <1>3
  <2> HIDE DEF d
  <2> QED
    BY <2>1, RemoveAtProperties
<1> HIDE DEF d
<1>5. Len(d) \in Nat /\ k \in 1 .. Len(d)
  BY <1>3, LenProperties DEF d
<1> DEFINE place(m) == IF m < k THEN m ELSE m + 1
           at == [m \in 1 .. Len(b) |-> Nth(R, place(m))]
           p == Nth(R, k)
<1>6. \A m \in 1 .. Len(b) : place(m) \in 1 .. Len(d) /\ place(m) # k /\ b[m] = d[place(m)]
  <2>1. TAKE m \in 1 .. Len(b)
  <2>2. m \in 1 .. Len(d) - 1 /\ m \in Nat /\ k \in Nat
    BY <1>4, <1>5
  <2>3. place(m) \in 1 .. Len(d) /\ place(m) # k
    BY <1>5, <2>2
  <2>4. b[m] = IF m < k THEN d[m] ELSE d[m + 1]
    BY <1>4, <2>2
  <2>5. b[m] = d[place(m)]
    BY <2>4
  <2> QED
    BY <2>3, <2>5
<1>7. \A m, n \in 1 .. Len(b) : place(m) = place(n) => m = n
  <2>1. Len(b) \in Nat /\ k \in Nat
    BY <1>4, <1>5
  <2> QED
    BY <2>1
<1>8. ASSUME NEW n \in 1 .. Len(d), n # k
      PROVE  \E m \in 1 .. Len(b) : place(m) = n
  <2>1. CASE n < k
    <3>1. n \in 1 .. Len(b) /\ place(n) = n
      BY <1>4, <1>5, <2>1
    <3> QED
      BY <3>1
  <2>2. CASE n > k
    <3>1. n - 1 \in 1 .. Len(b) /\ place(n - 1) = n
      BY <1>4, <1>5, <2>2
    <3> QED
      BY <3>1
  <2> QED
    BY <1>5, <1>8, <2>1, <2>2
<1> HIDE DEF place
<1>9. p \in R /\ d[k] = lines[p]
  BY <1>3, <1>5
<1>10. /\ at \in [1 .. Len(b) -> R \ {p}]
       /\ \A m, n \in 1 .. Len(b) : at[m] = at[n] => m = n
       /\ \A m \in 1 .. Len(b) : b[m] = lines[at[m]]
  <2>1. \A m \in 1 .. Len(b) : Nth(R, place(m)) \in R \ {p} /\ b[m] = lines[Nth(R, place(m))]
    BY <1>3, <1>5, <1>6
  <2>2. \A m, n \in 1 .. Len(b) : at[m] = at[n] => m = n
    BY <1>3, <1>6, <1>7
  <2> QED
    BY <2>1, <2>2
<1>11. \A q \in R \ {p} : \E m \in 1 .. Len(b) : at[m] = q
  <2> SUFFICES ASSUME NEW q \in R \ {p}
               PROVE  \E m \in 1 .. Len(b) : at[m] = q
    OBVIOUS
  <2>1. PICK n \in 1 .. Len(d) : Nth(R, n) = q
    BY <1>3
  <2>2. PICK m \in 1 .. Len(b) : place(m) = n
    BY <1>8, <2>1
  <2> QED
    BY <2>1, <2>2
<1> HIDE DEF at, p
<1>12. \A m \in 1 .. Len(b) : b[m].size <= Limit /\ Decodable(b[m])
  BY <1>2, <1>10
<1>13. AllBut(p, lines, b)
  BY <1>10, <1>11 DEF AllBut, R
<1> QED
  BY <1>4, <1>9, <1>12, <1>13 DEF R, d

(* Lines that are all decodable and not too long can all be read. *)
LEMMA AllReadable ==
  ASSUME NEW b \in Seq(Line), \A m \in 1 .. Len(b) : b[m].size <= Limit /\ Decodable(b[m])
  PROVE  Readable(b) = 1 .. Len(b)
<1>1. DOMAIN b = 1 .. Len(b) /\ Len(b) \in Nat
  BY LenProperties
<1>2. \A n \in 1 .. Len(b) : \A m \in 1 .. n : m \in 1 .. Len(b)
  BY <1>1
<1> QED
  BY <1>1, <1>2 DEF Readable, Scanned

(* A file of which no more can be read than of the rewritten lines.        *)
LEMMA Rewritten ==
  ASSUME ArchiveInv, NEW k \in 1 .. Len(Decoded(file.lines)),
         NEW b, b = RemoveAt(Decoded(file.lines), k),
         NEW a \in Seq(Line),
         \A n \in Readable(a) : n \in 1 .. Len(b) /\ a[n] = b[n]
  PROVE  LET t == Decoded(file.lines)[k]
         IN  /\ t \in Line /\ t.id \in IdsIn(file.lines) /\ t.id \in 0 .. issued - 1
             /\ IdsIn(a) \subseteq IdsIn(file.lines)
             /\ Covered(a, IdsOf(memory), faults)
             /\ Covered(a, IdsOf(memory) \union {t.id}, faults)
             /\ Readable(a) = 1 .. Len(b) => IdsIn(file.lines) \subseteq IdsIn(a) \union {t.id}
<1> DEFINE lines == file.lines
           R == Readable(lines)
           t == Decoded(lines)[k]
<1>1. /\ lines \in Seq(Line) /\ faults \in Nat
      /\ DOMAIN lines = 1 .. Len(lines)
      /\ \A n \in DOMAIN lines : lines[n] \in Line /\ lines[n].id < issued
      /\ Covered(lines, IdsOf(memory), faults)
  BY LenProperties, BoundAssumption DEF ArchiveInv, TypeOK, WellFormed, File
<1> HIDE DEF lines
<1>2. PICK p \in R : t = lines[p] /\ AllBut(p, lines, b)
  <2>1. lines \in Seq(Line) /\ k \in 1 .. Len(Decoded(lines)) /\ b = RemoveAt(Decoded(lines), k)
    BY <1>1 DEF lines
  <2> QED
    BY <2>1, TakenOut
<1>3. PICK at \in [1 .. Len(b) -> R \ {p}] :
        /\ \A m, n \in 1 .. Len(b) : at[m] = at[n] => m = n
        /\ \A m \in 1 .. Len(b) : b[m] = lines[at[m]]
        /\ \A q \in R \ {p} : \E m \in 1 .. Len(b) : at[m] = q
  BY <1>2 DEF AllBut
<1> HIDE DEF t
<1>4. /\ t \in Line /\ t.id \in IdsIn(lines) /\ t.id \in 0 .. issued - 1
  <2>1. p \in DOMAIN lines /\ Decodable(lines[p])
    BY DEF Readable, Scanned
  <2>2. t \in Line /\ t.id # NoTask /\ t.id < issued
    BY <1>1, <1>2, <2>1 DEF Decodable
  <2>3. t.id \in 0 .. issued - 1
    <3>1. t.id \in 0 .. MaxId - 1
      BY <2>2 DEF Line
    <3>2. issued \in Nat /\ MaxId \in Nat
      BY BoundAssumption DEF ArchiveInv, TypeOK
    <3> QED
      BY <2>2, <3>1, <3>2
  <2> QED
    BY <1>2, <2>2, <2>3 DEF IdsIn
<1> DEFINE from == [n \in Readable(a) |-> at[n]]
<1>5. /\ from \in [Readable(a) -> R \ {p}]
      /\ \A m, n \in Readable(a) : from[m] = from[n] => m = n
      /\ \A n \in Readable(a) : a[n].id = lines[from[n]].id
  BY <1>3
<1> HIDE DEF from
<1>6. from \in [Readable(a) -> R]
  BY <1>5
<1>7. Covered(a, IdsOf(memory), faults)
  BY <1>1, <1>5, <1>6, CoveredRemains
<1>8. Covered(a, IdsOf(memory) \union {t.id}, faults)
  <2> HIDE DEF R
  <2>1. Covered(a, IdsOf(memory) \union {lines[p].id}, faults)
    BY <1>1, <1>5, CoveredWhenTakenOut DEF R
  <2> QED
    BY <1>2, <2>1
<1>9. IdsIn(a) \subseteq IdsIn(lines)
  BY <1>5 DEF IdsIn
<1>10. ASSUME Readable(a) = 1 .. Len(b), NEW i \in IdsIn(lines), i # t.id
       PROVE  i \in IdsIn(a)
  <2>1. PICK q \in R : i = lines[q].id
    BY DEF IdsIn
  <2>2. q # p
    BY <1>2, <1>10, <2>1
  <2>3. PICK m \in 1 .. Len(b) : at[m] = q
    BY <1>3, <2>2
  <2>4. a[m] = lines[q] /\ m \in Readable(a)
    BY <1>3, <1>10, <2>3
  <2> QED
    BY <2>1, <2>4 DEF IdsIn
<1> QED
  BY <1>4, <1>7, <1>8, <1>9, <1>10 DEF t, lines

-----------------------------------------------------------------------------
(* The steps *)

(* What a step has to keep for the invariant to hold after it. *)
LEMMA InvNext ==
  ASSUME up' \in BOOLEAN, issued' \in 0 .. MaxId, faults' \in 0 .. MaxFaults,
         answer'.status \in {"none", "accepted", "rejected", "notDeactivated", "notFound"},
         memory' \in Seq(Entry), UniqueIds(memory'), \A i \in IdsOf(memory') : i < issued',
         WellFormed(file'), \A n \in DOMAIN file'.lines : file'.lines[n].id < issued',
         Covered(file'.lines, IdsOf(memory'), faults')
  PROVE  ArchiveInv'
<1>1. \A k \in DOMAIN memory' :
        memory'[k] \in [id : 0 .. issued' - 1, size : 1 .. MaxSize, active : BOOLEAN]
  <2> SUFFICES ASSUME NEW k \in DOMAIN memory'
               PROVE  memory'[k] \in [id : 0 .. issued' - 1, size : 1 .. MaxSize,
                                      active : BOOLEAN]
    OBVIOUS
  <2>1. memory'[k] \in Entry
    BY LenProperties, ElementOfSeq
  <2>2. memory'[k].id \in 0 .. MaxId - 1 /\ memory'[k].id < issued'
    BY <2>1 DEF Entry, IdsOf
  <2>3. memory'[k].id \in 0 .. issued' - 1
    BY <2>2, BoundAssumption
  <2> QED
    BY <2>1, <2>3 DEF Entry
<1>2. \A n \in DOMAIN file'.lines : file'.lines[n] \in Line
  <2>1. file'.lines \in Seq(Line)
    BY DEF WellFormed, File
  <2> QED
    BY <2>1, LenProperties, ElementOfSeq
<1>3. file'.open => file'.lines # <<>>
  BY DEF WellFormed
<1>4. TypeOK'
  BY <1>1, <1>2, <1>3 DEF TypeOK
<1> QED
  BY <1>4 DEF ArchiveInv

(* What the invariant says, in the terms of InvNext. *)
LEMMA InvNow ==
  ASSUME ArchiveInv
  PROVE  /\ up \in BOOLEAN /\ issued \in 0 .. MaxId /\ faults \in 0 .. MaxFaults
         /\ faults \in Nat /\ issued \in Nat /\ MaxId \in Nat /\ MaxFaults \in Nat
         /\ memory \in Seq(Entry) /\ UniqueIds(memory)
         /\ \A i \in IdsOf(memory) : i \in 0 .. issued - 1
         /\ WellFormed(file) /\ file.lines \in Seq(Line)
         /\ \A n \in DOMAIN file.lines : file.lines[n].id < issued
         /\ \A i \in IdsIn(file.lines) : i \in 0 .. issued - 1
         /\ Covered(file.lines, IdsOf(memory), faults)
<1>1. issued \in Nat /\ MaxId \in Nat /\ faults \in Nat /\ MaxFaults \in Nat
  BY BoundAssumption DEF ArchiveInv, TypeOK
<1>2. \A i \in IdsOf(memory) : i \in 0 .. issued - 1
  BY DEF ArchiveInv, TypeOK, IdsOf
<1>3. ASSUME NEW n \in Readable(file.lines)
      PROVE  file.lines[n].id \in 0 .. issued - 1
  <2>1. n \in DOMAIN file.lines /\ file.lines[n].id # NoTask
    BY DEF Readable, Scanned, Decodable
  <2>2. file.lines[n] \in Line /\ file.lines[n].id < issued
    BY <2>1 DEF ArchiveInv, TypeOK
  <2>3. file.lines[n].id \in 0 .. MaxId - 1
    BY <2>1, <2>2 DEF Line
  <2> QED
    BY <1>1, <2>2, <2>3
<1> QED
  BY <1>1, <1>2, <1>3 DEF ArchiveInv, TypeOK, WellFormed, File, IdsIn

(* A step that lists the same tasks, but for one that is rejected or new.  *)
LEMMA SameListed ==
  ASSUME ArchiveInv',
         ListedIds \subseteq ListedIds' \union Rejected,
         \A i \in ListedIds' : i \in ListedIds \/ i \notin 0 .. issued - 1,
         Resumable
  PROVE  Step
BY DEF Step, LossExplained, StaysLost

LEMMA TryRunTaskStep ==
  ASSUME ArchiveInv, TryRunTask
  PROVE  Step
<1> DEFINE t == [id |-> issued, size |-> InitialSize[issued], active |-> TRUE]
<1>1. /\ issued < MaxId /\ issued' = issued + 1
      /\ memory' = Append(memory, t) \/ memory' = memory
      /\ answer' = NoAnswer
      /\ up' = up /\ file' = file /\ faults' = faults
  BY DEF TryRunTask
<1>2. issued \notin IdsOf(memory) /\ issued \notin IdsIn(file.lines)
  BY InvNow
<1>3. t \in Entry /\ t.id = issued
  BY <1>1, InvNow, SizeAssumption DEF Entry
<1> HIDE DEF t
<1>4. /\ memory' \in Seq(Entry) /\ UniqueIds(memory')
      /\ \/ IdsOf(memory') = IdsOf(memory) \union {issued}
         \/ IdsOf(memory') = IdsOf(memory)
  <2>1. CASE memory' = memory
    BY <2>1, InvNow
  <2>2. CASE memory' = Append(memory, t)
    <3>1. memory \in Seq(Entry) /\ UniqueIds(memory) /\ t.id \notin IdsOf(memory)
      BY <1>2, <1>3, InvNow
    <3> QED
      BY <2>2, <3>1, <1>3, AppendedTask
  <2> QED
    BY <1>1, <2>1, <2>2
<1>5. Covered(file.lines, IdsOf(memory'), faults)
  <2>1. Covered(file.lines, IdsOf(memory), faults)
    BY InvNow
  <2>2. \A m \in Readable(file.lines) : file.lines[m].id # issued
    BY <1>2 DEF IdsIn
  <2>3. Covered(file.lines, IdsOf(memory) \union {issued}, faults)
    BY <2>1, <2>2 DEF Covered
  <2> QED
    BY <1>4, <2>1, <2>3
<1>6. ArchiveInv'
  <2>1. issued' \in 0 .. MaxId
    BY <1>1, InvNow
  <2>2. \A i \in IdsOf(memory') : i < issued'
    BY <1>1, <1>4, InvNow
  <2>3. \A n \in DOMAIN file.lines : file.lines[n].id < issued'
    <3>1. \A n \in DOMAIN file.lines : file.lines[n].id \in Int
      BY DEF ArchiveInv, TypeOK, Line, NoTask
    <3> QED
      BY <1>1, <3>1, InvNow
  <2> QED
    BY <1>1, <1>4, <1>5, <2>1, <2>2, <2>3, InvNow, InvNext DEF NoAnswer
<1>7. /\ ListedIds = IdsOf(memory) \union IdsIn(file.lines)
      /\ ListedIds' = IdsOf(memory') \union IdsIn(file.lines)
  BY <1>1, <1>6, Listed, ListedNext
<1>8. issued \notin 0 .. issued - 1
  BY InvNow
<1>9. Resumable
  BY <1>1 DEF Resumable, NoAnswer
<1> QED
  BY <1>4, <1>6, <1>7, <1>8, <1>9, SameListed

LEMMA DeactivateStep ==
  ASSUME ArchiveInv, NEW k \in DOMAIN memory, Deactivate(k)
  PROVE  Step
<1>1. /\ memory' = [memory EXCEPT ![k].active = FALSE]
      /\ answer' = NoAnswer
      /\ up' = up /\ issued' = issued /\ file' = file /\ faults' = faults
  BY DEF Deactivate
<1>2. /\ memory \in Seq(Entry) /\ DOMAIN memory = 1 .. Len(memory) /\ Len(memory) \in Nat
      /\ \A j \in DOMAIN memory : memory[j] \in Entry
  BY InvNow, LenProperties, ElementOfSeq
<1>3. /\ DOMAIN memory' = DOMAIN memory
      /\ \A j \in DOMAIN memory : memory'[j] \in Entry /\ memory'[j].id = memory[j].id
  BY <1>1, <1>2 DEF Entry
<1>4. memory' \in Seq(Entry)
  <2>1. memory' \in [1 .. Len(memory) -> Entry]
    BY <1>1, <1>2, <1>3
  <2> QED
    BY <1>2, <2>1
<1>5. UniqueIds(memory') /\ IdsOf(memory') = IdsOf(memory)
  BY <1>3, InvNow DEF UniqueIds, IdsOf
<1>6. ArchiveInv'
  <2>1. \A i \in IdsOf(memory') : i < issued'
    BY <1>1, <1>5, InvNow
  <2> QED
    BY <1>1, <1>4, <1>5, <2>1, InvNow, InvNext DEF NoAnswer
<1>7. ListedIds' = ListedIds
  BY <1>1, <1>5, <1>6, Listed, ListedNext
<1>8. Resumable
  BY <1>1 DEF Resumable, NoAnswer
<1> QED
  BY <1>6, <1>7, <1>8, SameListed

(* A task that is resumed is put back, or it conflicts.                    *)
LEMMA TryResumeProperties ==
  ASSUME NEW t, t.id \in 0 .. MaxId - 1, t.size \in Nat,
         NEW others \in Seq(Entry), UniqueIds(others), t.id \notin IdsOf(others),
         TryResumeTask(t, others)
  PROVE  /\ memory' \in Seq(Entry) /\ UniqueIds(memory')
         /\ answer'.id = t.id
         /\ \/ answer'.status = "accepted" /\ IdsOf(memory') = IdsOf(others) \union {t.id}
            \/ answer'.status = "rejected" /\ IdsOf(memory') = IdsOf(others)
<1> DEFINE back == [id |-> t.id, size |-> Grown(t.size), active |-> TRUE]
<1>1. CASE /\ t.size < MaxSize
           /\ memory' = Append(others, back)
           /\ Answer(t.id, "accepted")
  <2>1. back \in Entry /\ back.id = t.id
    BY <1>1, BoundAssumption DEF Entry, Grown
  <2> HIDE DEF back
  <2>2. back.id \notin IdsOf(others)
    BY <2>1
  <2>3. /\ memory' \in Seq(Entry) /\ UniqueIds(memory')
        /\ IdsOf(memory') = IdsOf(others) \union {back.id}
    BY <1>1, <2>1, <2>2, AppendedTask
  <2> QED
    BY <1>1, <2>1, <2>3 DEF Answer
<1>2. CASE memory' = others /\ Answer(t.id, "rejected")
  BY <1>2 DEF Answer
<1> QED
  BY <1>1, <1>2 DEF TryResumeTask

LEMMA ResumeFromMemoryStep ==
  ASSUME ArchiveInv, NEW i \in 0 .. MaxId - 1, ResumeFromMemory(i)
  PROVE  Step
<1> DEFINE k == Min(Positions(i))
<1>1. /\ IF memory[k].active THEN Answer(i, "notDeactivated") /\ UNCHANGED memory
         ELSE TryResumeTask(memory[k], SwappedOut(k))
      /\ up' = up /\ issued' = issued /\ file' = file /\ faults' = faults
      /\ Positions(i) # {}
  BY DEF ResumeFromMemory
<1>2. k \in DOMAIN memory /\ memory[k].id = i
  <2>1. Positions(i) \in SUBSET Nat
    BY InvNow, LenProperties DEF Positions
  <2>2. k \in Positions(i)
    BY <1>1, <2>1, Smallest DEF Min
  <2> QED
    BY <2>2 DEF Positions
<1> HIDE DEF k
<1>3. i \in IdsOf(memory)
  BY <1>2 DEF IdsOf
<1>4. CASE memory[k].active
  <2>1. memory' = memory /\ answer'.status = "notDeactivated"
    BY <1>1, <1>4 DEF Answer
  <2>2. ArchiveInv'
    <3>1. \A j \in IdsOf(memory) : j < issued
      BY InvNow
    <3> QED
      BY <1>1, <2>1, <3>1, InvNow, InvNext
  <2>3. ListedIds' = ListedIds
    BY <1>1, <2>1, <2>2, Listed, ListedNext
  <2>4. Resumable
    BY <2>1 DEF Resumable
  <2> QED
    BY <2>2, <2>3, <2>4, SameListed
<1>5. CASE ~memory[k].active
  <2>1. /\ SwappedOut(k) \in Seq(Entry)
        /\ UniqueIds(SwappedOut(k))
        /\ IdsOf(SwappedOut(k)) = IdsOf(memory) \ {i}
    BY <1>2, SwappedOutProperties
  <2>2. memory[k].size \in Nat
    BY <1>2, BoundAssumption DEF ArchiveInv, TypeOK
  <2>3. /\ memory' \in Seq(Entry) /\ UniqueIds(memory')
        /\ answer'.id = i
        /\ \/ answer'.status = "accepted" /\ IdsOf(memory') = IdsOf(memory)
           \/ answer'.status = "rejected" /\ IdsOf(memory') = IdsOf(memory) \ {i}
    <3>1. TryResumeTask(memory[k], SwappedOut(k))
      BY <1>1, <1>5
    <3>2. memory[k].id \in 0 .. MaxId - 1 /\ memory[k].id \notin IdsOf(SwappedOut(k))
      BY <1>2, <2>1
    <3>3. /\ memory' \in Seq(Entry) /\ UniqueIds(memory')
          /\ answer'.id = i
          /\ \/ answer'.status = "accepted" /\ IdsOf(memory') = IdsOf(SwappedOut(k)) \union {i}
             \/ answer'.status = "rejected" /\ IdsOf(memory') = IdsOf(SwappedOut(k))
      BY <1>2, <2>1, <2>2, <3>1, <3>2, TryResumeProperties
    <3> QED
      BY <1>3, <2>1, <3>3
  <2>4. Covered(file.lines, IdsOf(memory'), faults)
    <3>1. IdsOf(memory') \subseteq IdsOf(memory)
      BY <2>3
    <3> QED
      BY <3>1, InvNow DEF Covered
  <2>5. ArchiveInv'
    <3>1. \A j \in IdsOf(memory') : j < issued
      BY <2>3, InvNow
    <3> QED
      BY <1>1, <2>3, <2>4, <3>1, InvNow, InvNext
  <2>6. /\ ListedIds = IdsOf(memory) \union IdsIn(file.lines)
        /\ ListedIds' = IdsOf(memory') \union IdsIn(file.lines)
    BY <1>1, <2>5, Listed, ListedNext
  <2>7. Resumable
    BY <1>3, <2>3, <2>6 DEF Resumable
  <2>8. ListedIds \subseteq ListedIds' \union Rejected /\ ListedIds' \subseteq ListedIds
    BY <2>3, <2>6 DEF Rejected
  <2> QED
    BY <2>5, <2>7, <2>8, SameListed
<1> QED
  BY <1>4, <1>5

LEMMA ResumeFromFileStep ==
  ASSUME ArchiveInv, NEW i \in 0 .. MaxId - 1, ResumeFromFile(i)
  PROVE  Step
<1> DEFINE decoded == Decoded(file.lines)
           n == Found(decoded, i)
           b == RemoveAt(decoded, n)
<1>1. /\ Positions(i) = {}
      /\ IF n = 0
         THEN Answer(i, "notFound") /\ UNCHANGED <<memory, file>>
         ELSE /\ TryResumeTask(decoded[n], memory)
              /\ file' = [lines |-> b, open |-> FALSE]
      /\ up' = up /\ issued' = issued /\ faults' = faults
  BY DEF ResumeFromFile
<1>2. i \notin IdsOf(memory)
  BY <1>1 DEF Positions, IdsOf
<1>3. /\ decoded \in Seq(Line) /\ Len(decoded) \in Nat
      /\ n \in 0 .. Len(decoded)
      /\ n = 0 => \A m \in 1 .. Len(decoded) : decoded[m].id # i
      /\ n # 0 => decoded[n].id = i
  <2>1. file.lines \in Seq(Line) /\ Readable(file.lines) \subseteq DOMAIN file.lines
    BY InvNow DEF Readable, Scanned
  <2>2. decoded \in Seq(Line)
    BY <2>1, PickProperties DEF Decoded
  <2> HIDE DEF decoded
  <2> QED
    BY <2>2, LenProperties, FoundProperties
<1> HIDE DEF n, b
<1>4. CASE n = 0
  <2>1. memory' = memory /\ file' = file /\ answer'.id = i /\ answer'.status = "notFound"
    BY <1>1, <1>4 DEF Answer
  <2>2. i \notin IdsIn(file.lines)
    <3>1. file.lines \in Seq(Line) /\ Readable(file.lines) \subseteq DOMAIN file.lines
      BY InvNow DEF Readable, Scanned
    <3>2. ASSUME NEW m \in Readable(file.lines)
          PROVE  file.lines[m].id # i
      <4>1. PICK j \in 1 .. Len(decoded) : decoded[j] = file.lines[m]
        BY <3>1, PickProperties DEF Decoded
      <4> QED
        BY <1>3, <1>4, <4>1
    <3> QED
      BY <3>2 DEF IdsIn
  <2>3. ArchiveInv'
    <3>1. \A j \in IdsOf(memory) : j < issued
      BY InvNow
    <3> QED
      BY <1>1, <2>1, <3>1, InvNow, InvNext
  <2>4. ListedIds' = ListedIds /\ i \notin ListedIds
    BY <1>2, <2>1, <2>2, <2>3, Listed, ListedNext
  <2>5. Resumable
    BY <2>1, <2>4 DEF Resumable
  <2> QED
    BY <2>3, <2>4, <2>5, SameListed
<1>5. CASE n # 0
  <2>1. n \in 1 .. Len(decoded) /\ decoded[n].id = i
    BY <1>3, <1>5
  <2>2. /\ TryResumeTask(decoded[n], memory)
        /\ file' = [lines |-> b, open |-> FALSE]
    BY <1>1, <1>5
  <2>3. /\ b \in Seq(Line)
        /\ Readable(b) = 1 .. Len(b)
    <3>1. /\ b \in Seq(Line)
          /\ \A m \in 1 .. Len(b) : b[m].size <= Limit /\ Decodable(b[m])
      BY <2>1, InvNow, TakenOut DEF b
    <3> QED
      BY <3>1, AllReadable
  <2>4. /\ decoded[n] \in Line /\ i \in IdsIn(file.lines) /\ i \in 0 .. issued - 1
        /\ IdsIn(b) \subseteq IdsIn(file.lines)
        /\ Covered(b, IdsOf(memory), faults)
        /\ Covered(b, IdsOf(memory) \union {i}, faults)
        /\ IdsIn(file.lines) \subseteq IdsIn(b) \union {i}
    <3>1. b = RemoveAt(decoded, n)
      BY DEF b
    <3> QED
      BY <2>1, <2>3, <3>1, Rewritten
  <2> HIDE DEF decoded
  <2>5. /\ memory' \in Seq(Entry) /\ UniqueIds(memory')
        /\ answer'.id = i
        /\ \/ answer'.status = "accepted" /\ IdsOf(memory') = IdsOf(memory) \union {i}
           \/ answer'.status = "rejected" /\ IdsOf(memory') = IdsOf(memory)
    <3>1. decoded[n].size \in Nat
      BY <2>4 DEF Line
    <3>2. memory \in Seq(Entry) /\ UniqueIds(memory) /\ decoded[n].id \notin IdsOf(memory)
          /\ decoded[n].id \in 0 .. MaxId - 1
      BY <1>2, <2>1, InvNow
    <3>3. /\ memory' \in Seq(Entry) /\ UniqueIds(memory')
          /\ answer'.id = decoded[n].id
          /\ \/ /\ answer'.status = "accepted"
                /\ IdsOf(memory') = IdsOf(memory) \union {decoded[n].id}
             \/ answer'.status = "rejected" /\ IdsOf(memory') = IdsOf(memory)
      BY <2>2, <3>1, <3>2, TryResumeProperties
    <3> QED
      BY <2>1, <3>3
  <2>6. Covered(file'.lines, IdsOf(memory'), faults)
    BY <2>2, <2>4, <2>5
  <2>7. ArchiveInv'
    <3>1. \A j \in IdsOf(memory') : j < issued
      BY <2>4, <2>5, InvNow
    <3>2. WellFormed(file')
      BY <2>2, <2>3 DEF WellFormed, File
    <3>3. \A m \in DOMAIN file'.lines : file'.lines[m].id < issued
      <4>1. DOMAIN b = Readable(b)
        BY <2>3, LenProperties
      <4>2. \A m \in Readable(b) : b[m].id \in 0 .. issued - 1
        BY <2>4, InvNow DEF IdsIn
      <4> QED
        BY <2>2, <4>1, <4>2, InvNow
    <3> QED
      BY <1>1, <2>5, <2>6, <3>1, <3>2, <3>3, InvNow, InvNext
  <2>8. /\ ListedIds = IdsOf(memory) \union IdsIn(file.lines)
        /\ ListedIds' = IdsOf(memory') \union IdsIn(b)
    BY <2>2, <2>7, Listed, ListedNext
  <2>9. Resumable
    BY <2>4, <2>5, <2>8 DEF Resumable
  <2>10. ListedIds \subseteq ListedIds' \union Rejected /\ ListedIds' \subseteq ListedIds
    BY <2>4, <2>5, <2>8 DEF Rejected
  <2> QED
    BY <2>7, <2>9, <2>10, SameListed
<1> QED
  BY <1>4, <1>5

(* In a step in which something fails only the lines may change. *)
LEMMA FaultStep ==
  ASSUME ArchiveInv, memory' = memory, issued' = issued, up' \in BOOLEAN,
         faults < MaxFaults, faults' = faults + 1, answer'.status \in {"none", "notFound"},
         WellFormed(file'), \A n \in DOMAIN file'.lines : file'.lines[n].id < issued,
         IdsIn(file'.lines) \subseteq IdsIn(file.lines),
         Covered(file'.lines, IdsOf(memory), faults)
  PROVE  Step
<1>1. faults' \in 0 .. MaxFaults /\ faults' \in Nat /\ faults' # faults /\ faults <= faults'
  BY InvNow
<1>2. file'.lines \in Seq(Line)
  BY DEF WellFormed, File
<1>3. Covered(file'.lines, IdsOf(memory'), faults')
  BY <1>1, <1>2, InvNow, CoveredByMore
<1>4. ArchiveInv'
  <2>1. \A i \in IdsOf(memory') : i < issued'
    BY InvNow
  <2> QED
    BY <1>1, <1>3, <2>1, InvNow, InvNext
<1>5. ListedIds' \subseteq ListedIds
  BY <1>4, Listed, ListedNext
<1> QED
  BY <1>1, <1>4, <1>5 DEF Step, LossExplained, Resumable, StaysLost

LEMMA TmpFileFailsStep ==
  ASSUME ArchiveInv, NEW i \in 0 .. MaxId - 1, TmpFileFails(i)
  PROVE  Step
BY InvNow, FaultStep DEF TmpFileFails, Answer

LEMMA NoTmpFileStep ==
  ASSUME ArchiveInv, NEW i \in 0 .. MaxId - 1, NoTmpFile(i)
  PROVE  Step
BY InvNow, FaultStep DEF NoTmpFile, NoAnswer

LEMMA CopyFileFailsStep ==
  ASSUME ArchiveInv, NEW i \in 0 .. MaxId - 1, CopyFileFails(i)
  PROVE  Step
<1> DEFINE decoded == Decoded(file.lines)
           n == Found(decoded, i)
           b == RemoveAt(decoded, n)
<1>1. /\ n # 0
      /\ \/ \E m \in DOMAIN b, units \in 0 .. MaxSize :
              /\ units <= b[m].size
              /\ file' = Appended([lines |-> SubSeq(b, 1, m - 1), open |-> FALSE],
                                  b[m], units)
         \/ file' = [lines |-> b, open |-> FALSE]
      /\ faults < MaxFaults /\ faults' = faults + 1
      /\ answer'.status = "notFound"
      /\ up' = up /\ issued' = issued /\ memory' = memory
  BY DEF CopyFileFails, Answer
<1>2. n \in 1 .. Len(decoded)
  <2>1. file.lines \in Seq(Line) /\ Readable(file.lines) \subseteq DOMAIN file.lines
    BY InvNow DEF Readable, Scanned
  <2>2. decoded \in Seq(Line)
    BY <2>1, PickProperties DEF Decoded
  <2> HIDE DEF decoded
  <2>3. n \in 0 .. Len(decoded) /\ Len(decoded) \in Nat
    BY <2>2, LenProperties, FoundProperties
  <2> QED
    BY <1>1, <2>3
<1>3. /\ b \in Seq(Line) /\ Len(b) \in Nat /\ DOMAIN b = 1 .. Len(b)
      /\ \A m \in 1 .. Len(b) : /\ b[m] \in Line /\ b[m].size <= Limit
                                /\ b[m].id # NoTask
  <2>1. b \in Seq(Line) /\ \A m \in 1 .. Len(b) : b[m].size <= Limit /\ Decodable(b[m])
    <3> HIDE DEF n
    <3> QED
      BY <1>2, InvNow, TakenOut
  <2> HIDE DEF b
  <2> QED
    BY <2>1, LenProperties, ElementOfSeq DEF Decodable
<1>4. Readable(b) = 1 .. Len(b)
  <2> HIDE DEF b
  <2> QED
    BY <1>3, AllReadable DEF Decodable
<1>5. ASSUME NEW a \in Seq(Line), \A m \in Readable(a) : m \in 1 .. Len(b) /\ a[m] = b[m]
      PROVE  /\ IdsIn(a) \subseteq IdsIn(file.lines)
             /\ Covered(a, IdsOf(memory), faults)
  <2>1. b = RemoveAt(Decoded(file.lines), n)
    OBVIOUS
  <2> HIDE DEF n, b
  <2> QED
    BY <1>2, <1>5, <2>1, Rewritten
<1> HIDE DEF decoded, n, b
<1>6. \A m \in 1 .. Len(b) : b[m].id < issued
  <2>1. IdsIn(b) \subseteq IdsIn(file.lines)
    BY <1>3, <1>4, <1>5
  <2>2. \A m \in 1 .. Len(b) : b[m].id \in 0 .. issued - 1
    BY <1>4, <2>1, InvNow DEF IdsIn
  <2> QED
    BY <2>2, InvNow
<1>7. /\ WellFormed(file')
      /\ \A m \in DOMAIN file'.lines : file'.lines[m].id < issued
      /\ \A m \in Readable(file'.lines) : m \in 1 .. Len(b) /\ file'.lines[m] = b[m]
  <2>1. CASE file' = [lines |-> b, open |-> FALSE]
    BY <2>1, <1>3, <1>4, <1>6 DEF WellFormed, File
  <2>2. ASSUME NEW m \in DOMAIN b, NEW units \in 0 .. MaxSize, units <= b[m].size,
               file' = Appended([lines |-> SubSeq(b, 1, m - 1), open |-> FALSE], b[m], units)
        PROVE  /\ WellFormed(file')
               /\ \A k \in DOMAIN file'.lines : file'.lines[k].id < issued
               /\ \A k \in Readable(file'.lines) : k \in 1 .. Len(b) /\ file'.lines[k] = b[k]
    <3> DEFINE f == [lines |-> SubSeq(b, 1, m - 1), open |-> FALSE]
    <3>1. m \in 1 .. Len(b) /\ units \in Nat
      BY <1>3, BoundAssumption
    <3>2. /\ f.lines \in Seq(Line) /\ Len(f.lines) = m - 1
          /\ \A k \in 1 .. m - 1 : f.lines[k] = b[k]
      BY <1>3, <3>1, SubSeqProperties
    <3>3. WellFormed(f)
      BY <3>2 DEF WellFormed, File
    <3>4. /\ \A k \in 1 .. m - 1 : k \in 1 .. Len(b)
          /\ DOMAIN f.lines = 1 .. m - 1
          /\ Readable(f.lines) \subseteq 1 .. m - 1
      BY <1>3, <3>1, <3>2, LenProperties DEF Readable, Scanned
    <3> HIDE DEF f
    <3>5. /\ WellFormed(file')
          /\ \A k \in DOMAIN file'.lines :
               \/ file'.lines[k].id \in {NoTask, b[m].id}
               \/ k \in DOMAIN f.lines /\ file'.lines[k] = f.lines[k]
          /\ \A k \in Readable(file'.lines) :
               \/ k \in Readable(f.lines) /\ file'.lines[k] = f.lines[k]
               \/ k = Len(f.lines) + 1 /\ file'.lines[k] = b[m]
      <4> DEFINE line == b[m]
                 g == file'
      <4>1. g = Appended(f, line, units)
        BY <2>2 DEF f
      <4>2. line \in Line /\ line.id # NoTask
        BY <1>3, <3>1
      <4> HIDE DEF line, g
      <4>3. WellFormed(g)
        BY <3>1, <3>3, <4>1, <4>2, AppendedReads
      <4>4. \A k \in DOMAIN g.lines :
              \/ g.lines[k].id \in {NoTask, line.id}
              \/ k \in DOMAIN f.lines /\ g.lines[k] = f.lines[k]
        BY <3>1, <3>3, <4>1, <4>2, AppendedReads
      <4>5. \A k \in Readable(g.lines) :
              \/ k \in Readable(f.lines) /\ g.lines[k] = f.lines[k]
              \/ k = Len(f.lines) + 1 /\ g.lines[k] = line /\ line.size <= units
        BY <3>1, <3>3, <4>1, <4>2, AppendedReads, SMTT(40)
      <4> QED
        BY <4>3, <4>4, <4>5 DEF line, g
    <3>6. NoTask < issued
      BY InvNow DEF NoTask
    <3>7. \A k \in DOMAIN file'.lines : file'.lines[k].id < issued
      BY <1>6, <3>1, <3>2, <3>4, <3>5, <3>6
    <3>8. \A k \in Readable(file'.lines) : k \in 1 .. Len(b) /\ file'.lines[k] = b[k]
      BY <1>3, <3>1, <3>2, <3>4, <3>5
    <3> QED
      BY <3>5, <3>7, <3>8
  <2> QED
    BY <1>1, <2>1, <2>2
<1>8. file'.lines \in Seq(Line)
  BY <1>7 DEF WellFormed, File
<1> QED
  BY <1>1, <1>5, <1>7, <1>8, InvNow, FaultStep

LEMMA NextStep ==
  ASSUME ArchiveInv, Next
  PROVE  Step
BY TryRunTaskStep, DeactivateStep, TrimStep, ResumeFromMemoryStep, ResumeFromFileStep,
   TmpFileFailsStep, CopyFileFailsStep, NoTmpFileStep DEF Next

-----------------------------------------------------------------------------
(* The theorems *)

LEMMA InvInit ==
  Init => ArchiveInv
<1> SUFFICES ASSUME Init
             PROVE  ArchiveInv
  OBVIOUS
<1>1. /\ up = TRUE /\ issued = 0 /\ memory = <<>> /\ file = Empty
      /\ answer = NoAnswer /\ faults = 0
  BY DEF Init
<1>2. DOMAIN memory = {} /\ memory \in Seq(Entry)
  BY <1>1, EmptySeq
<1>3. /\ file.lines = <<>> /\ file.open = FALSE /\ file.lines \in Seq(Line)
      /\ DOMAIN file.lines = {} /\ file = [lines |-> file.lines, open |-> FALSE]
  BY <1>1, EmptySeq DEF Empty
<1>4. WellFormed(file)
  BY <1>3 DEF WellFormed, File
<1>5. TypeOK
  BY <1>1, <1>2, <1>3, BoundAssumption DEF TypeOK, NoAnswer
<1>6. Covered(file.lines, IdsOf(memory), faults)
  <2>1. Readable(file.lines) = {}
    BY <1>3 DEF Readable, Scanned
  <2>2. Cardinality({}) = 0
    BY FS_EmptySet
  <2> QED
    BY <1>1, <2>1, <2>2 DEF Covered
<1> QED
  BY <1>2, <1>4, <1>5, <1>6 DEF ArchiveInv, UniqueIds

(* Every reachable state satisfies the invariant. *)
LEMMA ArchiveInvariant ==
  Spec => []ArchiveInv
<1>1. ArchiveInv /\ [Next]_vars => ArchiveInv'
  <2> SUFFICES ASSUME ArchiveInv, [Next]_vars
               PROVE  ArchiveInv'
    OBVIOUS
  <2>1. CASE Next
    BY <2>1, NextStep DEF Step
  <2>2. CASE UNCHANGED vars
    BY <2>2 DEF vars, ArchiveInv, TypeOK, Positions
  <2> QED
    BY <2>1, <2>2
<1> QED
  BY <1>1, InvInit, PTL DEF Spec

(* Memory holds only tasks that have been handed out, the file only lines  *)
(* of such tasks and lines that cannot be decoded, and no more writes fail *)
(* than the bound allows.                                                  *)
THEOREM TypeCorrect ==
  Spec => []TypeOK
<1>1. ArchiveInv => TypeOK
  BY DEF ArchiveInv
<1> QED
  BY <1>1, ArchiveInvariant, PTL

(* Whatever writes fail and however often tasks are trimmed and resumed,   *)
(* list shows at most one task twice for each failed write                 *)
(* (scheduler.go:49, backend/commands.go:110).                             *)
THEOREM ListDoublesByFaults ==
  Spec => []DoubledByFaults
BY CoveredCounts, ArchiveInvariant, PTL

(* A step in which no write fails loses at most the unfinished line and    *)
(* the task written behind it, or lines at or behind one that is too long  *)
(* (scheduler.go:60 and 158).                                              *)
THEOREM ListLosesWithReason ==
  Spec => LossesExplained
<1>1. ArchiveInv /\ [Next]_vars => [LossExplained]_vars
  BY NextStep DEF Step
<1> QED
  BY <1>1, ArchiveInvariant, PTL DEF Spec, LossesExplained

(* The two loops over the file agree: resume finds a task exactly when     *)
(* list shows it (scheduler.go:89 and 159).                                *)
THEOREM ResumeFindsListed ==
  Spec => ListedIsResumable
<1>1. ArchiveInv /\ [Next]_vars => [Resumable]_vars
  BY NextStep DEF Step
<1> QED
  BY <1>1, ArchiveInvariant, PTL DEF Spec, ListedIsResumable, Resumable

(* No operation brings back a task that list has lost, also not one behind *)
(* a line that is too long when the file is rewritten (scheduler.go:182).  *)
THEOREM LostStaysLost ==
  Spec => LostForGood
<1>1. ArchiveInv /\ [Next]_vars => [StaysLost]_vars
  BY NextStep DEF Step
<1> QED
  BY <1>1, ArchiveInvariant, PTL DEF Spec, LostForGood, StaysLost

=============================================================================
