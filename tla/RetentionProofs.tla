-------------------------- MODULE RetentionProofs --------------------------
(* Proofs about Retention, and about what History reads back from it, for   *)
(* any sampling, bucket lengths, retention policies, row limit and number   *)
(* of events that satisfy RetentionAssumption and HistoryAssumption.        *)
EXTENDS History, FiniteSetTheorems, TLAPS

-----------------------------------------------------------------------------
(* Least elements: what stands in for induction.                           *)

\* A set of numbers that is not empty has a least one.
LEMMA LeastOf ==
  ASSUME NEW S \in SUBSET Nat, S # {}
  PROVE  \E n \in S : \A m \in S : n <= m
<1> DEFINE R == {p \in Nat \X Nat : p[1] < p[2]}
<1>1. IsWellFoundedOn(R, Nat)
  BY NatLessThanWellFounded, Zenon DEF OpToRel
<1>2. \E n \in S : \A m \in S : ~ (<<m, n>> \in R)
  <2> HIDE DEF R
  <2> QED
    BY <1>1, WFMin, Zenon
<1>3. \A m, n \in S : <<m, n>> \in R <=> m < n
  BY DEF R
<1>4. PICK n \in S : \A m \in S : ~ (<<m, n>> \in R)
  BY <1>2
<1>5. n \in Nat /\ \A m \in S : m \in Nat /\ ~ (m < n)
  BY <1>3, <1>4
<1>6. \A m \in S : n <= m
  BY <1>5
<1> QED
  BY <1>6

-----------------------------------------------------------------------------
(* Buckets.                                                                *)

\* A bucket's first tick is the last multiple of its length that is not later.
LEMMA Bucket ==
  ASSUME NEW L \in Nat \ {0}, NEW t \in Int
  PROVE  /\ t \div L \in Int
         /\ (t \div L) * L \in Int
         /\ (t \div L) * L <= t
         /\ t < (t \div L) * L + L
OBVIOUS

\* Different multiples of a length are that length apart.
LEMMA Multiples ==
  ASSUME NEW L \in Nat \ {0}, NEW j \in Int, NEW k \in Int, j * L < k * L
  PROVE  j * L + L <= k * L
<1>1. j < k
  OBVIOUS
<1>2. (j + 1) * L <= k * L
  BY <1>1
<1> QED
  BY <1>2

\* A tick is the first of its bucket if the length divides it.
LEMMA FirstOfBucket ==
  ASSUME NEW L \in Nat \ {0}, NEW t \in Int
  PROVE  t % L = 0 <=> (t \div L) * L = t
OBVIOUS

\* A short bucket lies in the long bucket of each of its ticks.
LEMMA Nested ==
  ASSUME NEW K \in Nat \ {0}, NEW L \in Nat \ {0}, NEW t \in Int, L % K = 0
  PROVE  /\ (((t \div K) * K) \div L) * L = (t \div L) * L
         /\ (t \div L) * L <= (t \div K) * K
<1> DEFINE q == L \div K
           a == t \div L
           m == t \div K
           c == (m * K) \div L
<1>1. L = q * K /\ q \in Int /\ a \in Int /\ m \in Int
  BY FirstOfBucket
<1>2. a * L <= t /\ t < a * L + L /\ m * K <= t /\ t < m * K + K
  BY Bucket
<1>3. a * L = (a * q) * K /\ a * q \in Int
  BY <1>1
<1>4. a * L <= m * K
  BY <1>1, <1>2, <1>3, Multiples
<1>5. c \in Int /\ c * L <= m * K /\ m * K < c * L + L
  BY <1>1, Bucket
<1>6. c * L = a * L
  BY <1>1, <1>2, <1>4, <1>5, Multiples
<1> QED
  BY <1>4, <1>6

\* What lies between the first tick of a bucket and another tick of it is in it.
LEMMA SameBucket ==
  ASSUME NEW L \in Nat \ {0}, NEW t \in Int, NEW c \in Int,
         (t \div L) * L <= c, c <= t
  PROVE  (c \div L) * L = (t \div L) * L
<1> DEFINE a == t \div L
           b == c \div L
<1>1. a \in Int /\ b \in Int
  BY Bucket
<1>2. a * L <= t /\ t < a * L + L /\ b * L <= c /\ c < b * L + L
  BY Bucket
<1>3. a * L <= c /\ a * L \in Int /\ b * L \in Int
  BY <1>1
<1> HIDE DEF a, b
<1>4. ~ (a * L < b * L)
  BY <1>1, <1>2, <1>3, Multiples
<1>5. ~ (b * L < a * L)
  BY <1>1, <1>2, <1>3, Multiples
<1>6. a * L = b * L
  BY <1>3, <1>4, <1>5
<1> QED
  BY <1>6 DEF a, b

\* A sample's buckets: where they are, and which contains which.
LEMMA BucketsOf ==
  ASSUME NEW s \in Samples
  PROVE  /\ s \in Nat /\ s <= MaxTime
         /\ MinuteOf(s) \in Minutes /\ FiveOf(s) \in Fives
         /\ FiveOf(s) \in Int /\ MinuteOf(s) \in Int
         /\ FiveOf(s) <= MinuteOf(s) /\ MinuteOf(s) <= s
         /\ FiveOf(MinuteOf(s)) = FiveOf(s)
<1>1. s \in 0..MaxTime /\ s \in Int
  BY RetentionAssumption
<1>2. /\ FiveOf(s) \in Int /\ MinuteOf(s) \in Int /\ MinuteOf(s) <= s
  BY <1>1, Bucket, RetentionAssumption DEF FiveOf, MinuteOf
<1>3. FiveOf(s) <= MinuteOf(s) /\ FiveOf(MinuteOf(s)) = FiveOf(s)
  BY <1>1, Nested, RetentionAssumption DEF FiveOf, MinuteOf
<1> QED
  BY <1>1, <1>2, <1>3, RetentionAssumption DEF Minutes, Fives

\* The buckets are numbers, and there are finitely many.
LEMMA BucketNumbers ==
  /\ Minutes \subseteq Nat /\ IsFiniteSet(Minutes)
  /\ Fives \subseteq Nat /\ IsFiniteSet(Fives)
  /\ IsFiniteSet(Samples)
<1>1. ASSUME NEW L \in Nat \ {0}, NEW t \in 0..MaxTime
      PROVE  (t \div L) * L \in Nat /\ (t \div L) * L <= MaxTime
  <2>1. t \div L \in Nat
    BY RetentionAssumption
  <2> QED
    BY <2>1, Bucket, RetentionAssumption
<1>2. \A b \in Minutes \cup Fives : b \in Nat /\ b <= MaxTime
  BY <1>1, RetentionAssumption DEF Minutes, Fives, MinuteOf, FiveOf
<1>3. \A b \in Samples : b \in Nat /\ b <= MaxTime
  BY RetentionAssumption
<1> QED
  BY <1>2, <1>3, FS_BoundedSetOfNaturals, RetentionAssumption

\* A cutoff that does not divide a sample's five-minute bucket, and is not before
\* the bucket, is after the sample.
LEMMA Undivided ==
  ASSUME NEW s \in Samples, NEW c \in Int, FiveOf(s) \notin Split(c), FiveOf(s) < c
  PROVE  s < c
<1> SUFFICES ASSUME c <= s PROVE FALSE
  BY BucketsOf
<1>1. FiveOf(c) = FiveOf(s)
  <2>1. s \in Int /\ FiveLen \in Nat \ {0} /\ (s \div FiveLen) * FiveLen <= c
    BY BucketsOf, RetentionAssumption DEF FiveOf
  <2> QED
    BY <2>1, SameBucket DEF FiveOf
<1>2. c % FiveLen # 0
  BY <1>1, FirstOfBucket, RetentionAssumption DEF FiveOf
<1> QED
  BY <1>1, <1>2, BucketsOf DEF Split

-----------------------------------------------------------------------------
(* Tables of rows.  A table is Sound if its rows count what they are        *)
(* aggregated from, and are aggregated from samples of their own bucket.    *)

Minutely == [s \in Samples |-> MinuteOf(s)]
Fively == [s \in Samples |-> FiveOf(s)]

Row == [n : Nat, of : SUBSET Samples]

Sound(rows, buckets, bucket) ==
  /\ rows \in [buckets -> Row]
  /\ \A b \in buckets : /\ rows[b].n = Cardinality(rows[b].of)
                        /\ \A s \in rows[b].of : bucket[s] = b

\* The samples that a table is aggregated from.
Held(rows, bucket) == {s \in Samples : s \in rows[bucket[s]].of}

\* A row is a count and a set of samples, and is absent if it has none.
LEMMA RowFacts ==
  ASSUME NEW buckets, NEW bucket, NEW rows, Sound(rows, buckets, bucket), NEW b \in buckets
  PROVE  /\ rows[b] \in Row
         /\ rows[b].n \in Nat /\ rows[b].of \subseteq Samples /\ IsFiniteSet(rows[b].of)
         /\ rows[b].n = Cardinality(rows[b].of)
         /\ rows[b] = NoRow <=> rows[b].of = {}
         /\ rows[b].n > 0 <=> rows[b].of # {}
<1>1. rows[b] \in Row /\ rows[b].n = Cardinality(rows[b].of)
  BY DEF Sound
<1>2. rows[b].n \in Nat /\ rows[b].of \subseteq Samples
      /\ rows[b] = [n |-> rows[b].n, of |-> rows[b].of]
  BY <1>1 DEF Row
<1>3. IsFiniteSet(rows[b].of)
  BY <1>2, BucketNumbers, FS_Subset
<1>4. rows[b].n = 0 <=> rows[b].of = {}
  BY <1>1, <1>3, FS_EmptySet
<1>5. rows[b] = NoRow <=> rows[b].of = {}
  BY <1>2, <1>4 DEF NoRow
<1> QED
  BY <1>1, <1>2, <1>3, <1>4, <1>5

\* The empty table is sound, and holds nothing.
LEMMA NoRowsSound ==
  ASSUME NEW buckets, NEW bucket
  PROVE  /\ Sound([b \in buckets |-> NoRow], buckets, bucket)
         /\ NoRow \in Row /\ NoRow.of = {} /\ NoRow.n = Cardinality(NoRow.of)
<1>1. NoRow \in Row /\ NoRow.of = {} /\ NoRow.n = 0
  BY DEF NoRow, Row
<1>2. NoRow.n = Cardinality(NoRow.of)
  BY <1>1, FS_EmptySet
<1> HIDE DEF NoRow
<1> QED
  BY <1>1, <1>2 DEF Sound

\* Choosing each row from one of several sound tables gives a sound table.
LEMMA ChosenSound ==
  ASSUME NEW buckets, NEW bucket, NEW rows, rows = [b \in buckets |-> rows[b]],
         \A b \in buckets :
           \E from : Sound(from, buckets, bucket) /\ rows[b] = from[b]
  PROVE  Sound(rows, buckets, bucket)
<1>1. ASSUME NEW b \in buckets
      PROVE  /\ rows[b] \in Row /\ rows[b].n = Cardinality(rows[b].of)
             /\ \A s \in rows[b].of : bucket[s] = b
  <2>1. PICK from : Sound(from, buckets, bucket) /\ rows[b] = from[b]
    OBVIOUS
  <2>2. /\ from[b] \in Row /\ from[b].n = Cardinality(from[b].of)
        /\ \A s \in from[b].of : bucket[s] = b
    BY <2>1 DEF Sound
  <2> QED
    BY <2>1, <2>2
<1> QED
  BY <1>1 DEF Sound

\* INSERT OR REPLACE, deletion and selection of rows keep a table sound.
LEMMA TablesSound ==
  ASSUME NEW buckets, NEW bucket, NEW rows, Sound(rows, buckets, bucket),
         NEW new, Sound(new, buckets, bucket), NEW c
  PROVE  /\ Sound(Replaced(rows, new), buckets, bucket)
         /\ Sound(Emptied(rows, c), buckets, bucket)
         /\ Sound(Archived(rows, c), buckets, bucket)
<1> DEFINE None == [b \in buckets |-> NoRow]
<1>1. DOMAIN rows = buckets /\ Sound(None, buckets, bucket) /\ \A b \in buckets : None[b] = NoRow
  BY NoRowsSound DEF Sound
<1> HIDE DEF None
<1>2. Sound(Replaced(rows, new), buckets, bucket)
  <2> DEFINE r == Replaced(rows, new)
  <2>1. r = [b \in buckets |-> r[b]] /\ \A b \in buckets : r[b] = new[b] \/ r[b] = rows[b]
    BY <1>1 DEF Replaced
  <2> HIDE DEF r
  <2> QED
    BY <2>1, ChosenSound DEF r
<1>3. Sound(Emptied(rows, c), buckets, bucket)
  <2> DEFINE r == Emptied(rows, c)
  <2>1. r = [b \in buckets |-> r[b]] /\ \A b \in buckets : r[b] = None[b] \/ r[b] = rows[b]
    BY <1>1 DEF Emptied
  <2> HIDE DEF r
  <2> QED
    BY <1>1, <2>1, ChosenSound DEF r
<1>4. Sound(Archived(rows, c), buckets, bucket)
  <2> DEFINE r == Archived(rows, c)
  <2>1. r = [b \in buckets |-> r[b]] /\ \A b \in buckets : r[b] = None[b] \/ r[b] = rows[b]
    BY <1>1 DEF Archived
  <2> HIDE DEF r
  <2> QED
    BY <1>1, <2>1, ChosenSound DEF r
<1> QED
  BY <1>2, <1>3, <1>4

-----------------------------------------------------------------------------
(* What a rollup computes.                                                 *)

\* GROUP BY minute: a row counts its samples, and the rows hold the raw samples
\* before the cutoff.
LEMMA MinuteRowsHold ==
  ASSUME raw \subseteq Samples
  PROVE  /\ Sound(MinuteRows, Minutes, Minutely)
         /\ Held(MinuteRows, Minutely) = {s \in raw : s < RawCutoff}
<1> DEFINE Of(b) == {s \in raw : s < RawCutoff /\ MinuteOf(s) = b}
<1>1. MinuteRows = [b \in Minutes |-> [n |-> Cardinality(Of(b)), of |-> Of(b)]]
  BY DEF MinuteRows
<1>2. ASSUME NEW b \in Minutes
      PROVE  Of(b) \subseteq Samples /\ Cardinality(Of(b)) \in Nat
             /\ \A s \in Of(b) : Minutely[s] = b
  <2>1. Of(b) \subseteq Samples /\ \A s \in Of(b) : Minutely[s] = b
    BY DEF Minutely
  <2> QED
    BY <2>1, BucketNumbers, FS_Subset, FS_CardinalityType
<1>3. ASSUME NEW s \in Samples
      PROVE  s \in MinuteRows[Minutely[s]].of <=> s \in raw /\ s < RawCutoff
  BY <1>1, BucketsOf DEF Minutely
<1> HIDE DEF Of
<1>4. Sound(MinuteRows, Minutes, Minutely)
  BY <1>1, <1>2 DEF Sound, Row
<1> QED
  BY <1>3, <1>4 DEF Held

\* The minute rows that a five-minute row is aggregated from.
Source(b) == {m \in Minutes : FiveOf(m) = b /\ m < MinuteCutoff /\ minute[m].n > 0}

\* SUM(samples): the counts of rows of different minutes add up to the number of
\* samples in them.
LEMMA SumOfCounts ==
  ASSUME Sound(minute, Minutes, Minutely), NEW b \in Fives
  PROVE  FiveRows[b].n = Cardinality(FiveRows[b].of)
<1> DEFINE M == Source(b)
           Of(s) == UNION {minute[m].of : m \in s}
           Some(s) == CHOOSE x \in s : TRUE
           Sum(f) == f = [s \in SUBSET M |->
                            IF s = {} THEN 0 ELSE minute[Some(s)].n + f[s \ {Some(s)}]]
           F == CHOOSE f : Sum(f)
           G == [s \in SUBSET M |-> Cardinality(Of(s))]
<1>1. FiveRows[b].n = F[M] /\ FiveRows[b].of = Of(M)
  BY DEF FiveRows, MapThenSumSet, MapThenFoldSet, Source
<1>2. M \subseteq Minutes /\ IsFiniteSet(M)
  BY BucketNumbers, FS_Subset DEF Source
<1> HIDE DEF M
<1>3. ASSUME NEW s \in SUBSET M, s # {}
      PROVE  /\ Some(s) \in s /\ s \ {Some(s)} \in SUBSET M
             /\ Cardinality(Of(s)) = minute[Some(s)].n + Cardinality(Of(s \ {Some(s)}))
  <2> DEFINE x == Some(s)
             A == minute[x].of
             B == Of(s \ {x})
  <2>1. x \in s
    BY <1>3
  <2> HIDE DEF x
  <2>2. Of(s) = A \cup B
    BY <2>1
  <2>3. A \cap B = {}
    BY <2>1, <1>2 DEF Sound
  <2>4. /\ A \subseteq Samples /\ B \subseteq Samples
        /\ minute[x].n = Cardinality(A)
    BY <2>1, <1>2, RowFacts
  <2> HIDE DEF A, B, Of
  <2>5. IsFiniteSet(A) /\ IsFiniteSet(B)
    BY <2>4, BucketNumbers, FS_Subset
  <2>6. Cardinality(A \cup B) = Cardinality(A) + Cardinality(B) - Cardinality(A \cap B)
    BY <2>5, FS_Union, Zenon
  <2>7. Cardinality(A) \in Nat /\ Cardinality(B) \in Nat
    BY <2>5, FS_CardinalityType
  <2>8. Cardinality(Of(s)) = minute[x].n + Cardinality(B)
    BY <2>2, <2>3, <2>4, <2>6, <2>7, FS_EmptySet
  <2> QED
    BY <2>1, <2>8 DEF x, B
<1>4. Of({}) = {}
  OBVIOUS
<1> HIDE DEF Of, Some
<1>5. Sum(G)
  BY <1>3, <1>4, FS_EmptySet
<1>6. Sum(F)
  BY <1>5
<1> HIDE DEF F
<1> DEFINE Bad == {s \in SUBSET M : F[s] # G[s]}
           Sizes == {k \in Nat : \E s \in Bad : Cardinality(s) = k}
<1>7. \A s \in SUBSET M : IsFiniteSet(s) /\ Cardinality(s) \in Nat
  BY <1>2, FS_Subset, FS_CardinalityType
<1>8. Sizes = {}
  <2> SUFFICES ASSUME Sizes # {} PROVE FALSE
    OBVIOUS
  <2>1. PICK k \in Sizes : \A j \in Sizes : k <= j
    BY LeastOf
  <2>2. PICK s \in Bad : Cardinality(s) = k
    BY <2>1
  <2>3. s # {}
    BY <2>2, <1>6, <1>4, FS_EmptySet
  <2>4. Cardinality(s \ {Some(s)}) = k - 1
    BY <1>3, <1>7, <2>2, <2>3, FS_RemoveElement
  <2>5. s \ {Some(s)} \notin Bad
    BY <1>7, <2>1, <2>4
  <2>6. F[s] = minute[Some(s)].n + F[s \ {Some(s)}]
    BY <1>6, <2>3
  <2> QED
    BY <1>3, <2>2, <2>3, <2>5, <2>6
<1>9. F[M] = Cardinality(Of(M))
  BY <1>7, <1>8
<1> QED
  BY <1>1, <1>9

\* GROUP BY five minutes: a row counts its samples, and the rows hold what the
\* minute rows before the cutoff do.
LEMMA FiveRowsHold ==
  ASSUME Sound(minute, Minutes, Minutely)
  PROVE  /\ Sound(FiveRows, Fives, Fively)
         /\ Held(FiveRows, Fively) = {s \in Held(minute, Minutely) : MinuteOf(s) < MinuteCutoff}
<1>1. ASSUME NEW b \in Fives
      PROVE  /\ FiveRows[b] = [n |-> FiveRows[b].n, of |-> FiveRows[b].of]
             /\ \A s : s \in FiveRows[b].of <=> \E m \in Source(b) : s \in minute[m].of
  <2>1. /\ FiveRows[b] = [n |-> FiveRows[b].n, of |-> FiveRows[b].of]
        /\ FiveRows[b].of = UNION {minute[m].of : m \in Source(b)}
    BY DEF FiveRows, Source
  <2>2. \A s : s \in UNION {minute[m].of : m \in Source(b)}
                  <=> \E m \in Source(b) : s \in minute[m].of
    OBVIOUS
  <2> QED
    BY <2>1, <2>2, Zenon
<1>0. ASSUME NEW m \in Minutes
      PROVE  /\ \A s \in minute[m].of : s \in Samples /\ MinuteOf(s) = m
             /\ minute[m].n > 0 <=> minute[m].of # {}
  <2>1. minute[m].of \subseteq Samples /\ (minute[m].n > 0 <=> minute[m].of # {})
    BY RowFacts, Zenon
  <2>2. \A s \in minute[m].of : Minutely[s] = m
    BY DEF Sound
  <2> QED
    BY <2>1, <2>2 DEF Minutely
<1>2. FiveRows = [b \in Fives |-> FiveRows[b]]
  BY DEF FiveRows
<1>3. ASSUME NEW b \in Fives
      PROVE  FiveRows[b].of \subseteq Samples /\ \A s \in FiveRows[b].of : Fively[s] = b
  <2> SUFFICES ASSUME NEW s \in FiveRows[b].of
               PROVE  s \in Samples /\ Fively[s] = b
    OBVIOUS
  <2>1. PICK m \in Source(b) : s \in minute[m].of
    BY <1>1
  <2>2. m \in Minutes /\ FiveOf(m) = b
    BY DEF Source
  <2>3. s \in Samples /\ MinuteOf(s) = m
    BY <2>1, <2>2, <1>0
  <2> QED
    BY <2>2, <2>3, BucketsOf DEF Fively
<1>4. \A b \in Fives : FiveRows[b] \in Row
  <2> TAKE b \in Fives
  <2>1. IsFiniteSet(FiveRows[b].of) /\ FiveRows[b].of \in SUBSET Samples
    BY <1>3, BucketNumbers, FS_Subset
  <2>2. FiveRows[b].n \in Nat
    BY <2>1, SumOfCounts, FS_CardinalityType
  <2>3. FiveRows[b] = [n |-> FiveRows[b].n, of |-> FiveRows[b].of]
    BY <1>1
  <2>4. [n |-> FiveRows[b].n, of |-> FiveRows[b].of] \in Row
    BY <2>1, <2>2 DEF Row
  <2> QED
    BY <2>3, <2>4
<1>5. Sound(FiveRows, Fives, Fively)
  BY <1>2, <1>3, <1>4, SumOfCounts DEF Sound
<1>6. ASSUME NEW s \in Samples
      PROVE  s \in FiveRows[Fively[s]].of <=>
               s \in minute[Minutely[s]].of /\ MinuteOf(s) < MinuteCutoff
  <2>1. FiveOf(s) \in Fives /\ MinuteOf(s) \in Minutes /\ FiveOf(MinuteOf(s)) = FiveOf(s)
    BY BucketsOf
  <2>2. \A m \in Minutes : s \in minute[m].of => m = MinuteOf(s) /\ minute[m].n > 0
    BY <1>0
  <2>3. s \in FiveRows[FiveOf(s)].of <=> \E m \in Source(FiveOf(s)) : s \in minute[m].of
    BY <1>1, <2>1
  <2> QED
    BY <2>1, <2>2, <2>3 DEF Source, Minutely, Fively
<1> QED
  BY <1>5, <1>6 DEF Held

-----------------------------------------------------------------------------
(* Types.                                                                  *)

\* TypeOK and NoDoubleCount, and that an archive file holds a sound table too.
Typed ==
  /\ now \in 0..MaxTime
  /\ accepted \subseteq Samples /\ raw \subseteq accepted
  /\ Sound(minute, Minutes, Minutely) /\ Sound(five, Fives, Fively)
  /\ \A f \in files : \/ f.tier = "1m" /\ Sound(f.rows, Minutes, Minutely)
                      \/ f.tier = "5m" /\ Sound(f.rows, Fives, Fively)
  /\ pc \in Steps
  /\ policy \in Policies
  /\ passed \in 0..MaxTime
  /\ disturbed \subseteq Fives
  /\ horizon \in 0..(MaxTime + 1)
  /\ events \in 0..MaxEvents

\* The cutoffs are in the past.
LEMMA Cutoffs ==
  ASSUME Typed
  PROVE  /\ RawCutoff \in Int /\ RawCutoff < now
         /\ MinuteCutoff \in Int /\ MinuteCutoff < now
         /\ FiveCutoff \in Int /\ FiveCutoff < now
         /\ now \in Nat /\ now <= MaxTime
<1>1. policy.raw \in RawAges /\ policy.minute \in MinuteAges /\ policy.five \in FiveAges
  BY DEF Typed, Policies
<1> QED
  BY <1>1, RetentionAssumption DEF Typed, RawCutoff, MinuteCutoff, FiveCutoff

\* Events are counted to their bound.
LEMMA EventCounted ==
  ASSUME events \in 0..MaxEvents, Event
  PROVE  events' \in 0..MaxEvents
BY RetentionAssumption DEF Event

\* The tables start empty.
LEMMA InitTyped ==
  ASSUME Init
  PROVE  Typed
<1>1. Sound(minute, Minutes, Minutely) /\ Sound(five, Fives, Fively)
  BY NoRowsSound DEF Init
<1> QED
  BY <1>1, RetentionAssumption DEF Init, Typed, Steps

\* Every step keeps the types: a rollup makes sound rows, and everything else
\* replaces, deletes or selects whole rows.
LEMMA NextTyped ==
  ASSUME Typed, [Next]_vars
  PROVE  Typed'
<1>1. raw \subseteq Samples /\ accepted \subseteq Samples
  BY DEF Typed
<1>2. ASSUME NEW s \in Samples, Store(s)
      PROVE  Typed'
  <2>1. events' \in 0..MaxEvents
    BY <1>2, EventCounted DEF Store, Typed
  <2>2. disturbed' \subseteq Fives
    BY <1>2, BucketsOf DEF Store, Typed
  <2>3. accepted' \subseteq Samples /\ raw' \subseteq accepted'
    BY <1>2 DEF Store, Typed
  <2> QED
    BY <1>2, <2>1, <2>2, <2>3 DEF Store, Typed
<1>3. CASE Tick
  <2>1. now' \in 0..MaxTime
    BY <1>3, RetentionAssumption DEF Tick, Typed
  <2> QED
    BY <1>3, <2>1 DEF Tick, Typed, tiers, observers
<1>4. CASE Begin
  <2>1. events' \in 0..MaxEvents /\ policy' \in Policies
    BY <1>4, EventCounted DEF Begin, Typed
  <2> QED
    BY <1>4, <2>1 DEF Begin, Typed, tiers, observers, Steps
<1>5. CASE Crash
  <2>1. events' \in 0..MaxEvents
    BY <1>5, EventCounted DEF Crash, Typed
  <2> QED
    BY <1>5, <2>1 DEF Crash, Typed, tiers, observers, Steps
<1>6. CASE Fail
  <2>1. events' \in 0..MaxEvents
    BY <1>6, EventCounted DEF Fail, Typed
  <2> QED
    BY <1>6, <2>1 DEF Fail, Typed, tiers, observers, Steps, AfterError
<1>7. CASE RollMinutes
  <2>1. Sound(minute, Minutes, Minutely)'
    BY <1>1, <1>7, MinuteRowsHold, TablesSound DEF RollMinutes, Typed
  <2>2. passed' \in 0..MaxTime
    BY <1>7, Cutoffs, RetentionAssumption DEF RollMinutes, Typed
  <2>3. disturbed' \subseteq Fives
    BY <1>7 DEF RollMinutes, Split, Typed
  <2> QED
    BY <1>7, <2>1, <2>2, <2>3 DEF RollMinutes, Typed, Steps
<1>8. CASE RollFives
  <2>1. Sound(five, Fives, Fively)'
    BY <1>8, FiveRowsHold, TablesSound DEF RollFives, Typed
  <2>2. disturbed' \subseteq Fives
    BY <1>8 DEF RollFives, Split, Typed
  <2> QED
    BY <1>8, <2>1, <2>2 DEF RollFives, Typed, Steps
<1>9. CASE WriteMinutes
  <2>1. Sound(Archived(minute, MinuteCutoff), Minutes, Minutely)
    BY TablesSound DEF Typed
  <2>2. disturbed' \subseteq Fives
    BY <1>9 DEF WriteMinutes, Typed
  <2>3. \A f \in files' : f \in files \/ f = [tier |-> "1m", rows |-> Archived(minute, MinuteCutoff)]
    BY <1>9 DEF WriteMinutes, Write
  <2>4. \A f \in files' : \/ f.tier = "1m" /\ Sound(f.rows, Minutes, Minutely)
                          \/ f.tier = "5m" /\ Sound(f.rows, Fives, Fively)
    BY <2>1, <2>3 DEF Typed
  <2> QED
    BY <1>9, <2>2, <2>4 DEF WriteMinutes, Write, Typed, Steps, tiers
<1>10. CASE WriteFives
  <2>1. Sound(Archived(five, FiveCutoff), Fives, Fively)
    BY TablesSound DEF Typed
  <2>2. \A f \in files' : f \in files \/ f = [tier |-> "5m", rows |-> Archived(five, FiveCutoff)]
    BY <1>10 DEF WriteFives, Write
  <2>3. \A f \in files' : \/ f.tier = "1m" /\ Sound(f.rows, Minutes, Minutely)
                          \/ f.tier = "5m" /\ Sound(f.rows, Fives, Fively)
    BY <2>1, <2>2 DEF Typed
  <2> QED
    BY <1>10, <2>3 DEF WriteFives, Write, Typed, Steps, tiers
<1>11. CASE DeleteMinutes
  <2>1. Sound(minute, Minutes, Minutely)'
    BY <1>11, TablesSound DEF DeleteMinutes, Typed
  <2> QED
    BY <1>11, <2>1 DEF DeleteMinutes, Typed, Steps, observers
<1>12. CASE DeleteFives
  <2>1. Sound(five, Fives, Fively)'
    BY <1>12, TablesSound DEF DeleteFives, Typed
  <2>2. horizon' \in 0..(MaxTime + 1)
    BY <1>12, Cutoffs, RetentionAssumption DEF DeleteFives, Typed
  <2> QED
    BY <1>12, <2>1, <2>2 DEF DeleteFives, Typed, Steps
<1>13. CASE NotArchived
  BY <1>13 DEF NotArchived, Typed, tiers, observers, Steps
<1>14. CASE ArchiveFails
  <2>1. events' \in 0..MaxEvents
    BY <1>14, EventCounted DEF ArchiveFails, Typed
  <2> QED
    BY <1>14, <2>1 DEF ArchiveFails, Typed, tiers, observers, Steps, AfterArchiveError
<1>15. CASE PruneRaw
  BY <1>15 DEF PruneRaw, Typed, observers, Steps
<1>16. CASE PruneMinutes
  <2>1. Sound(minute, Minutes, Minutely)'
    BY <1>16, TablesSound DEF PruneMinutes, Typed
  <2> QED
    BY <1>16, <2>1 DEF PruneMinutes, Typed, Steps, observers
<1>17. CASE PruneFives
  <2>1. Sound(five, Fives, Fively)'
    BY <1>17, TablesSound DEF PruneFives, Typed
  <2>2. horizon' \in 0..(MaxTime + 1)
    BY <1>17, Cutoffs, RetentionAssumption DEF PruneFives, Typed
  <2> QED
    BY <1>17, <2>1, <2>2 DEF PruneFives, Typed, Steps
<1>18. ASSUME NEW f \in files, Restore(f)
       PROVE  Typed'
  <2>1. events' \in 0..MaxEvents
    BY <1>18, EventCounted DEF Restore, Typed
  <2>2. Sound(minute, Minutes, Minutely)' /\ Sound(five, Fives, Fively)'
    BY <1>18, TablesSound DEF Restore, Typed
  <2> QED
    BY <1>18, <2>1, <2>2 DEF Restore, Typed, observers
<1>19. CASE UNCHANGED vars
  BY <1>19 DEF vars, tiers, observers, Typed
<1> QED
  BY <1>2, <1>3, <1>4, <1>5, <1>6, <1>7, <1>8, <1>9, <1>10, <1>11, <1>12, <1>13, <1>14,
     <1>15, <1>16, <1>17, <1>18, <1>19 DEF Next

\* Every variable keeps its type; a row holds samples of its own bucket only
\* (rollup.go: bucketExpr truncates a timestamp to its bucket).
THEOREM TypeCorrect == Spec => []TypeOK
<1>1. Typed => TypeOK
  <2> SUFFICES ASSUME Typed PROVE TypeOK
    OBVIOUS
  <2>1. DOMAIN minute = Minutes /\ DOMAIN five = Fives
    BY DEF Typed, Sound
  <2>2. ASSUME NEW b \in Minutes
        PROVE  minute[b].n \in Nat /\ \A s \in minute[b].of : s \in Samples /\ MinuteOf(s) = b
    <3>1. minute[b].n \in Nat /\ minute[b].of \subseteq Samples
      BY RowFacts, Zenon DEF Typed
    <3>2. \A s \in minute[b].of : Minutely[s] = b
      BY DEF Typed, Sound
    <3> QED
      BY <3>1, <3>2 DEF Minutely
  <2>3. ASSUME NEW b \in Fives
        PROVE  five[b].n \in Nat /\ \A s \in five[b].of : s \in Samples /\ FiveOf(s) = b
    <3>1. five[b].n \in Nat /\ five[b].of \subseteq Samples
      BY RowFacts, Zenon DEF Typed
    <3>2. \A s \in five[b].of : Fively[s] = b
      BY DEF Typed, Sound
    <3> QED
      BY <3>1, <3>2 DEF Fively
  <2> QED
    BY <2>1, <2>2, <2>3 DEF Typed, TypeOK
<1> QED
  BY <1>1, InitTyped, NextTyped, PTL DEF Spec

\* However often a pass is cut off and repeated, and whatever is restored, no row
\* counts a sample twice (rollup.go: INSERT OR REPLACE from a fresh aggregate).
THEOREM NothingCountedTwice == Spec => []NoDoubleCount
<1>1. Typed => NoDoubleCount
  BY DEF Typed, Sound, NoDoubleCount
<1> QED
  BY <1>1, InitTyped, NextTyped, PTL DEF Spec

-----------------------------------------------------------------------------
(* What tables hold.                                                       *)

\* What a table holds after INSERT OR REPLACE, and after a deletion.
LEMMA HeldAfter ==
  ASSUME NEW buckets, NEW bucket \in [Samples -> buckets],
         NEW rows, Sound(rows, buckets, bucket), NEW new, Sound(new, buckets, bucket),
         NEW c, NEW s \in Samples
  PROVE  /\ s \in Held(Replaced(rows, new), bucket) <=>
              IF new[bucket[s]].of = {} THEN s \in Held(rows, bucket)
                                        ELSE s \in Held(new, bucket)
         /\ s \in Held(Emptied(rows, c), bucket) <=>
              s \in Held(rows, bucket) /\ ~ (bucket[s] <= c)
<1>1. bucket[s] \in buckets /\ DOMAIN rows = buckets
  BY DEF Sound
<1>2. new[bucket[s]] = NoRow <=> new[bucket[s]].of = {}
  BY <1>1, RowFacts, Zenon
<1>3. NoRow.of = {}
  BY DEF NoRow
<1>4. Replaced(rows, new)[bucket[s]] =
        IF new[bucket[s]].of = {} THEN rows[bucket[s]] ELSE new[bucket[s]]
  BY <1>1, <1>2 DEF Replaced
<1>5. Emptied(rows, c)[bucket[s]] = IF bucket[s] <= c THEN NoRow ELSE rows[bucket[s]]
  BY <1>1 DEF Emptied
<1> QED
  BY <1>3, <1>4, <1>5 DEF Held

\* What an archive file holds, if there were no more than MaxRows rows to archive.
LEMMA ArchivedAll ==
  ASSUME NEW buckets \in SUBSET Nat, IsFiniteSet(buckets), NEW bucket,
         NEW rows, Sound(rows, buckets, bucket), NEW c \in Int,
         Cardinality({b \in Present(rows) : b <= c}) <= MaxRows, NEW b \in buckets
  PROVE  Archived(rows, c)[b] = IF b <= c THEN rows[b] ELSE NoRow
<1>1. DOMAIN rows = buckets
  BY DEF Sound
<1>2. CASE ~ (b <= c) \/ rows[b] = NoRow
  BY <1>1, <1>2 DEF Archived
<1>3. CASE b <= c /\ rows[b] # NoRow
  <2> DEFINE All == {o \in Present(rows) : o <= c}
             Before == {o \in Present(rows) : o < b}
  <2>0. Present(rows) \subseteq buckets /\ b \in Present(rows)
    BY <1>1, <1>3 DEF Present
  <2>1. Before \subseteq All /\ b \in All /\ b \notin Before /\ All \subseteq buckets
    <3>1. b \in Nat /\ b <= c /\ \A o \in Present(rows) : o \in Nat
      BY <1>3, <2>0
    <3>2. b \in All /\ b \notin Before /\ All \subseteq buckets
      BY <2>0, <3>1
    <3>3. ASSUME NEW o \in Present(rows), o < b PROVE o <= c
      BY <3>1, <3>3
    <3> QED
      BY <3>2, <3>3
  <2> HIDE DEF All, Before
  <2>2. IsFiniteSet(All) /\ IsFiniteSet(Before)
    BY <2>1, FS_Subset
  <2>3. /\ Cardinality(Before) <= Cardinality(All) /\ Cardinality(Before) # Cardinality(All)
        /\ Cardinality(Before) \in Nat /\ Cardinality(All) \in Nat
    BY <2>1, <2>2, FS_Subset, FS_CardinalityType
  <2>4. Cardinality(All) <= MaxRows /\ MaxRows \in Nat
    BY RetentionAssumption DEF All
  <2>5. Cardinality(Before) < MaxRows
    BY <2>3, <2>4
  <2>6. Cardinality({o \in Present(rows) : o < b}) < MaxRows
    BY <2>5 DEF Before
  <2> QED
    BY <1>1, <1>3, <2>6 DEF Archived
<1> QED
  BY <1>2, <1>3

\* A set of samples is whole if of each five-minute bucket that nothing disturbed
\* it holds every accepted sample or none.
Whole(set, all, except) ==
  \A s, t \in all : FiveOf(s) = FiveOf(t) /\ FiveOf(s) \notin except
                      => (s \in set <=> t \in set)

\* Replacing rows by whole ones adds to an undisturbed bucket and takes nothing
\* away from it.
LEMMA ReplacedByWhole ==
  ASSUME NEW buckets, NEW bucket \in [Samples -> buckets],
         \A s, t \in Samples : bucket[s] = bucket[t] => FiveOf(s) = FiveOf(t),
         NEW rows, Sound(rows, buckets, bucket), NEW new, Sound(new, buckets, bucket),
         NEW all \in SUBSET Samples, NEW except,
         Held(new, bucket) \subseteq all, Whole(Held(new, bucket), all, except)
  PROVE  /\ Held(Replaced(rows, new), bucket) \subseteq Held(rows, bucket) \cup Held(new, bucket)
         /\ \A s \in all : FiveOf(s) \notin except =>
              (s \in Held(Replaced(rows, new), bucket) <=>
                 s \in Held(rows, bucket) \/ s \in Held(new, bucket))
<1>1. \A s \in Samples :
        s \in Held(Replaced(rows, new), bucket) <=>
          IF new[bucket[s]].of = {} THEN s \in Held(rows, bucket) ELSE s \in Held(new, bucket)
  BY HeldAfter
<1>2. Held(Replaced(rows, new), bucket) \subseteq Samples
  BY DEF Held
<1>3. ASSUME NEW s \in all, FiveOf(s) \notin except, new[bucket[s]].of # {}
      PROVE  s \in Held(new, bucket)
  <2>1. PICK t : t \in new[bucket[s]].of
    BY <1>3
  <2>2. bucket[s] \in buckets
    OBVIOUS
  <2>3. new[bucket[s]].of \subseteq Samples /\ \A u \in new[bucket[s]].of : bucket[u] = bucket[s]
    <3>1. new[bucket[s]].of \subseteq Samples
      BY <2>2, RowFacts, Zenon
    <3> QED
      BY <2>2, <3>1 DEF Sound
  <2>4. t \in Held(new, bucket) /\ t \in all /\ FiveOf(t) = FiveOf(s)
    BY <2>1, <2>3 DEF Held
  <2> QED
    BY <1>3, <2>4 DEF Whole
<1>4. \A s \in Samples : new[bucket[s]].of = {} => s \notin Held(new, bucket)
  BY DEF Held
<1> QED
  BY <1>1, <1>2, <1>3, <1>4

-----------------------------------------------------------------------------
(* The inductive invariant of LossOnlyAtEdges.                             *)

InMinutes == Held(minute, Minutely)
InFives == Held(five, Fively)
InFile(f) == IF f.tier = "1m" THEN Held(f.rows, Minutely) ELSE Held(f.rows, Fively)

AfterRollMinutes == Steps \ {"idle", "rollMinutes"}
AfterRollFives == AfterRollMinutes \ {"rollFives"}

\* What no rollup was due for is still raw.
Waiting == \A s \in accepted : s < passed \/ s \in raw

\* Only what a rollup was due for is in a rollup table or in a file.
RolledUp ==
  LET Past == {s \in accepted : s < passed}
  IN  InMinutes \subseteq Past /\ InFives \subseteq Past /\ \A f \in files : InFile(f) \subseteq Past

\* Nothing splits an undisturbed five-minute bucket.
Wholes ==
  /\ Whole(raw, accepted, disturbed)
  /\ Whole(InMinutes, accepted, disturbed)
  /\ Whole(InFives, accepted, disturbed)
  /\ \A f \in files : Whole(InFile(f), accepted, disturbed)

\* The buckets that a cutoff of the pass divides count as disturbed.
Edges ==
  /\ \A s \in Samples : FiveOf(s) \notin disturbed /\ FiveOf(s) < passed => s < passed
  /\ pc \in AfterRollMinutes => RawCutoff <= passed /\ Split(RawCutoff) \subseteq disturbed
  /\ pc \in AfterRollFives => Split(MinuteCutoff) \subseteq disturbed
  /\ pc = "deleteMinutes" => {FiveOf(MinuteCutoff)} \cap Fives \subseteq disturbed

\* A sample that no cutoff and no delay put at risk.
Clean(s) == s \in accepted /\ FiveOf(s) \notin disturbed /\ FiveOf(s) >= horizon

\* It is in some tier; and what the pass is about to prune it has rolled up.
Safe ==
  \A s \in Samples : Clean(s) =>
    /\ s \in raw \cup InMinutes \cup InFives
    /\ pc \in AfterRollMinutes /\ s < RawCutoff => s \in InMinutes \cup InFives
    /\ pc \in AfterRollFives /\ s < MinuteCutoff =>
         s \in InFives \/ (s \in raw /\ ~ (s < RawCutoff))

KeptInv == Typed /\ Waiting /\ RolledUp /\ Wholes /\ Edges /\ Safe

\* A pass that archives finds no more rows than ArchiveTier reads (maxRangeRows).
Fits ==
  policy.archive =>
    /\ pc = "writeMinutes" => Cardinality({b \in Present(minute) : b <= MinuteCutoff}) <= MaxRows
    /\ pc = "writeFives" => Cardinality({b \in Present(five) : b <= FiveCutoff}) <= MaxRows

\* A cutoff that divides no bucket of the archive is after the samples of any
\* bucket that it is not before.
LEMMA UndividedByArchive ==
  ASSUME NEW s \in Samples, NEW c \in Int, FiveOf(s) \notin {FiveOf(c)} \cap Fives, FiveOf(s) <= c
  PROVE  s < c
<1> SUFFICES ASSUME c <= s PROVE FALSE
  BY BucketsOf
<1>1. FiveOf(c) = FiveOf(s)
  <2>1. s \in Int /\ FiveLen \in Nat \ {0} /\ (s \div FiveLen) * FiveLen <= c
    BY BucketsOf, RetentionAssumption DEF FiveOf
  <2> QED
    BY <2>1, SameBucket DEF FiveOf
<1> QED
  BY <1>1, BucketsOf

\* Nothing is stored and nothing is disturbed at the start.
LEMMA InitKept ==
  ASSUME Init
  PROVE  KeptInv
<1>1. Typed
  BY InitTyped
<1>2. InMinutes = {} /\ InFives = {}
  BY BucketsOf DEF Init, InMinutes, InFives, Held, Minutely, Fively, NoRow
<1>3. \A s \in Samples : FiveOf(s) < 0 => FALSE
  BY BucketsOf, BucketNumbers
<1> QED
  BY <1>1, <1>2, <1>3 DEF Init, KeptInv, Waiting, RolledUp, Wholes, Whole, Edges, Safe, Clean,
     AfterRollMinutes, AfterRollFives

\* A sample that arrives in time is raw with all of its bucket; one that is late
\* disturbs its bucket.
LEMMA StoreKeeps ==
  ASSUME KeptInv, NEW s \in Samples, Store(s), Typed'
  PROVE  KeptInv'
<1>1. /\ Typed /\ Waiting /\ RolledUp /\ Wholes /\ Edges /\ Safe
      /\ accepted \subseteq Samples
  BY DEF KeptInv, Typed
<1>2. /\ accepted' = accepted \cup {s} /\ raw' = raw \cup {s} /\ disturbed \subseteq disturbed'
      /\ UNCHANGED <<now, minute, five, files, pc, policy, passed, horizon>>
      /\ s < passed => FiveOf(s) \in disturbed'
  BY DEF Store
<1>3. /\ InMinutes' = InMinutes /\ InFives' = InFives /\ \A f \in files : InFile(f)' = InFile(f)
      /\ RawCutoff' = RawCutoff /\ MinuteCutoff' = MinuteCutoff
  BY <1>2 DEF InMinutes, InFives, InFile, RawCutoff, MinuteCutoff
<1>4. passed \in Int /\ \A t \in Samples : t \in Int /\ FiveOf(t) \in Int /\ FiveOf(t) <= t
  BY BucketsOf DEF Typed, KeptInv
<1>5. ASSUME NEW t \in accepted', FiveOf(t) = FiveOf(s), FiveOf(t) \notin disturbed'
      PROVE  ~ (t < passed)
  <2>1. ~ (s < passed) /\ FiveOf(s) \notin disturbed
    BY <1>2, <1>5
  <2>2. ~ (FiveOf(s) < passed)
    BY <1>1, <2>1 DEF Edges
  <2> QED
    BY <1>1, <1>2, <1>4, <1>5, <2>2
<1>6. Waiting'
  BY <1>1, <1>2 DEF Waiting
<1>7. RolledUp'
  BY <1>1, <1>2, <1>3 DEF RolledUp
<1>8. \A t \in accepted' : FiveOf(t) = FiveOf(s) /\ FiveOf(t) \notin disturbed' => t \in raw'
  BY <1>2, <1>5, <1>6 DEF Waiting
<1>9. Whole(raw, accepted, disturbed)'
  BY <1>1, <1>2, <1>8 DEF Whole, Wholes
<1>10. ASSUME NEW X, Whole(X, accepted, disturbed), X \subseteq {t \in accepted : t < passed}
       PROVE  Whole(X, accepted', disturbed')
  BY <1>2, <1>5, <1>10 DEF Whole
<1>11. Whole(InMinutes, accepted', disturbed') /\ Whole(InFives, accepted', disturbed')
  BY <1>1, <1>10 DEF RolledUp, Wholes
<1>12. \A f \in files : Whole(InFile(f), accepted', disturbed')
  BY <1>1, <1>10 DEF RolledUp, Wholes
<1>13. Wholes'
  BY <1>2, <1>3, <1>9, <1>11, <1>12 DEF Wholes
<1>14. Edges'
  BY <1>1, <1>2, <1>3 DEF Edges
<1>15. Safe'
  <2> SUFFICES ASSUME NEW t \in Samples, Clean(t)'
               PROVE  /\ t \in (raw \cup InMinutes \cup InFives)'
                      /\ pc \in AfterRollMinutes /\ t < RawCutoff => t \in InMinutes \cup InFives
                      /\ pc \in AfterRollFives /\ t < MinuteCutoff =>
                           t \in InFives \/ (t \in raw' /\ ~ (t < RawCutoff))
    BY <1>2, <1>3 DEF Safe
  <2>1. CASE t = s
    <3>1. t \in raw' /\ ~ (t < passed)
      BY <1>2, <1>5, <2>1 DEF Clean
    <3>2. pc \in AfterRollMinutes => RawCutoff <= passed /\ RawCutoff \in Int
      BY <1>1, Cutoffs DEF Edges
    <3>3. AfterRollFives \subseteq AfterRollMinutes
      BY DEF AfterRollFives
    <3>4. pc \in AfterRollMinutes => ~ (t < RawCutoff)
      BY <1>4, <3>1, <3>2
    <3> QED
      BY <3>1, <3>3, <3>4
  <2>2. CASE t # s
    <3>1. Clean(t)
      BY <1>2, <2>2 DEF Clean
    <3> QED
      BY <1>1, <1>2, <1>3, <3>1 DEF Safe
  <2> QED
    BY <2>1, <2>2
<1> QED
  BY <1>6, <1>7, <1>13, <1>14, <1>15 DEF KeptInv

\* The rollup of the raw samples completes the rows of what it was due for.
LEMMA RollMinutesKeeps ==
  ASSUME KeptInv, RollMinutes, Typed'
  PROVE  KeptInv'
<1> DEFINE N == {s \in raw : s < RawCutoff}
<1>1. /\ Typed /\ Waiting /\ RolledUp /\ Wholes /\ Edges /\ Safe
      /\ accepted \subseteq Samples /\ raw \subseteq accepted
  BY DEF KeptInv, Typed
<1>2. /\ minute' = Replaced(minute, MinuteRows) /\ disturbed' = disturbed \cup Split(RawCutoff)
      /\ passed' = IF RawCutoff > passed THEN RawCutoff ELSE passed
      /\ pc = "rollMinutes" /\ pc' = "rollFives"
      /\ UNCHANGED <<now, raw, five, files, policy, accepted, horizon>>
  BY DEF RollMinutes
<1>3. /\ InFives' = InFives /\ \A f \in files : InFile(f)' = InFile(f)
      /\ RawCutoff' = RawCutoff /\ MinuteCutoff' = MinuteCutoff
  BY <1>2 DEF InFives, InFile, RawCutoff, MinuteCutoff
<1>4. /\ RawCutoff \in Int /\ passed \in Int /\ passed' \in Int
      /\ passed <= passed' /\ RawCutoff <= passed'
  BY <1>1, <1>2, Cutoffs DEF Typed
<1>5. \A s \in Samples : FiveOf(s) \notin disturbed' /\ FiveOf(s) < RawCutoff => s < RawCutoff
  BY <1>2, <1>4, Undivided
<1>6. \A t \in Samples : t \in Int /\ FiveOf(t) \in Int /\ FiveOf(t) <= t
  BY BucketsOf
<1>7. Whole(N, accepted, disturbed')
  BY <1>1, <1>2, <1>4, <1>5, <1>6 DEF Whole, Wholes
<1>8. Sound(MinuteRows, Minutes, Minutely) /\ Held(MinuteRows, Minutely) = N
  BY <1>1, MinuteRowsHold
<1>9. /\ InMinutes' \subseteq InMinutes \cup N
      /\ \A s \in accepted : FiveOf(s) \notin disturbed' =>
           (s \in InMinutes' <=> s \in InMinutes \/ s \in N)
  <2>1. Minutely \in [Samples -> Minutes]
    BY BucketsOf DEF Minutely
  <2>2. \A s, t \in Samples : Minutely[s] = Minutely[t] => FiveOf(s) = FiveOf(t)
    BY BucketsOf DEF Minutely
  <2>3. Sound(minute, Minutes, Minutely) /\ N \subseteq accepted
    BY <1>1 DEF Typed
  <2> HIDE DEF N
  <2>4. /\ Held(Replaced(minute, MinuteRows), Minutely)
             \subseteq Held(minute, Minutely) \cup Held(MinuteRows, Minutely)
        /\ \A s \in accepted : FiveOf(s) \notin disturbed' =>
             (s \in Held(Replaced(minute, MinuteRows), Minutely) <=>
                s \in Held(minute, Minutely) \/ s \in Held(MinuteRows, Minutely))
    BY <1>1, <1>7, <1>8, <2>1, <2>2, <2>3, ReplacedByWhole
  <2> QED
    BY <1>2, <1>8, <2>4 DEF InMinutes
<1>10. Waiting'
  BY <1>1, <1>2, <1>4, <1>6 DEF Waiting
<1>11. RolledUp'
  <2>1. N \subseteq {s \in accepted : s < passed'}
    BY <1>1, <1>4, <1>6
  <2>2. {s \in accepted : s < passed} \subseteq {s \in accepted : s < passed'}
    BY <1>1, <1>4, <1>6, <1>2
  <2> QED
    BY <1>1, <1>2, <1>3, <1>9, <2>1, <2>2 DEF RolledUp
<1>12. Wholes'
  BY <1>1, <1>2, <1>3, <1>7, <1>9 DEF Wholes, Whole
<1>13. Edges'
  <2>1. \A s \in Samples : FiveOf(s) \notin disturbed' /\ FiveOf(s) < passed' => s < passed'
    BY <1>1, <1>2, <1>5 DEF Edges
  <2> QED
    BY <1>2, <1>3, <1>4, <2>1 DEF Edges, AfterRollFives
<1>14. Safe'
  <2> SUFFICES ASSUME NEW t \in Samples, Clean(t)'
               PROVE  /\ t \in raw \cup InMinutes' \cup InFives
                      /\ t < RawCutoff => t \in InMinutes' \cup InFives
    BY <1>2, <1>3 DEF Safe, AfterRollFives
  <2>1. Clean(t) /\ t \in accepted /\ FiveOf(t) \notin disturbed'
    BY <1>2 DEF Clean
  <2> QED
    BY <1>1, <1>9, <2>1 DEF Safe
<1> QED
  BY <1>10, <1>11, <1>12, <1>13, <1>14 DEF KeptInv

\* The rollup of the minute rows completes the rows of what it was due for.
LEMMA RollFivesKeeps ==
  ASSUME KeptInv, RollFives, Typed'
  PROVE  KeptInv'
<1> DEFINE N == {s \in InMinutes : MinuteOf(s) < MinuteCutoff}
<1>1. /\ Typed /\ Waiting /\ RolledUp /\ Wholes /\ Edges /\ Safe
      /\ accepted \subseteq Samples /\ raw \subseteq accepted /\ InMinutes \subseteq accepted
  BY DEF KeptInv, Typed, RolledUp
<1>2. /\ five' = Replaced(five, FiveRows) /\ disturbed' = disturbed \cup Split(MinuteCutoff)
      /\ pc = "rollFives" /\ pc' = "writeMinutes"
      /\ UNCHANGED <<now, raw, minute, files, policy, accepted, passed, horizon>>
  BY DEF RollFives
<1>3. /\ InMinutes' = InMinutes /\ \A f \in files : InFile(f)' = InFile(f)
      /\ RawCutoff' = RawCutoff /\ MinuteCutoff' = MinuteCutoff
  BY <1>2 DEF InMinutes, InFile, RawCutoff, MinuteCutoff
<1>4. MinuteCutoff \in Int
  BY <1>1, Cutoffs
<1>5. \A s \in Samples : FiveOf(s) \notin disturbed' /\ FiveOf(s) < MinuteCutoff => s < MinuteCutoff
  BY <1>2, <1>4, Undivided
<1>6. \A t \in Samples : /\ t \in Int /\ FiveOf(t) \in Int /\ MinuteOf(t) \in Int
                         /\ FiveOf(t) <= MinuteOf(t) /\ MinuteOf(t) <= t
  BY BucketsOf
<1>7. Whole(N, accepted, disturbed')
  <2> SUFFICES ASSUME NEW s \in accepted, NEW t \in accepted, FiveOf(s) = FiveOf(t),
                      FiveOf(s) \notin disturbed', s \in N
               PROVE  t \in N
    BY DEF Whole
  <2>1. t \in InMinutes
    BY <1>1, <1>2 DEF Whole, Wholes
  <2>2. MinuteOf(t) < MinuteCutoff
    BY <1>1, <1>4, <1>5, <1>6
  <2> QED
    BY <2>1, <2>2
<1>8. Sound(FiveRows, Fives, Fively) /\ Held(FiveRows, Fively) = N
  BY <1>1, FiveRowsHold DEF Typed, InMinutes
<1>9. /\ InFives' \subseteq InFives \cup N
      /\ \A s \in accepted : FiveOf(s) \notin disturbed' =>
           (s \in InFives' <=> s \in InFives \/ s \in N)
  <2>1. Fively \in [Samples -> Fives]
    BY BucketsOf DEF Fively
  <2>2. \A s, t \in Samples : Fively[s] = Fively[t] => FiveOf(s) = FiveOf(t)
    BY DEF Fively
  <2>3. Sound(five, Fives, Fively) /\ N \subseteq accepted
    BY <1>1 DEF Typed
  <2> HIDE DEF N
  <2>4. /\ Held(Replaced(five, FiveRows), Fively)
             \subseteq Held(five, Fively) \cup Held(FiveRows, Fively)
        /\ \A s \in accepted : FiveOf(s) \notin disturbed' =>
             (s \in Held(Replaced(five, FiveRows), Fively) <=>
                s \in Held(five, Fively) \/ s \in Held(FiveRows, Fively))
    BY <1>1, <1>7, <1>8, <2>1, <2>2, <2>3, ReplacedByWhole
  <2> QED
    BY <1>2, <1>8, <2>4 DEF InFives
<1>10. Waiting'
  BY <1>1, <1>2 DEF Waiting
<1>11. RolledUp'
  BY <1>1, <1>2, <1>3, <1>9 DEF RolledUp
<1>12. Wholes'
  BY <1>1, <1>2, <1>3, <1>7, <1>9 DEF Wholes, Whole
<1>13. Edges'
  BY <1>1, <1>2, <1>3 DEF Edges, AfterRollMinutes, Steps
<1>14. Safe'
  <2> SUFFICES ASSUME NEW t \in Samples, Clean(t)'
               PROVE  /\ t \in raw \cup InMinutes \cup InFives'
                      /\ t < RawCutoff => t \in InMinutes \cup InFives'
                      /\ t < MinuteCutoff => t \in InFives' \/ (t \in raw /\ ~ (t < RawCutoff))
    BY <1>2, <1>3 DEF Safe
  <2>1. Clean(t) /\ t \in accepted /\ FiveOf(t) \notin disturbed'
    BY <1>2 DEF Clean
  <2>2. /\ t \in raw \cup InMinutes \cup InFives
        /\ t < RawCutoff => t \in InMinutes \cup InFives
    BY <1>1, <1>2, <2>1 DEF Safe, AfterRollMinutes, Steps
  <2>3. t \in InMinutes /\ t < MinuteCutoff => t \in N
    BY <1>4, <1>6
  <2> QED
    BY <1>9, <2>1, <2>2, <2>3
<1> QED
  BY <1>10, <1>11, <1>12, <1>13, <1>14 DEF KeptInv

\* A finished archive of minute rows holds whole buckets, apart from the bucket that
\* its cutoff divides, which counts as disturbed.
LEMMA WriteMinutesKeeps ==
  ASSUME KeptInv, Fits, WriteMinutes, Typed'
  PROVE  KeptInv'
<1> DEFINE file == [tier |-> "1m", rows |-> Archived(minute, MinuteCutoff)]
<1>1. /\ Typed /\ Waiting /\ RolledUp /\ Wholes /\ Edges /\ Safe
      /\ accepted \subseteq Samples /\ InMinutes \subseteq accepted
  BY DEF KeptInv, Typed, RolledUp
<1>2. /\ files' = files \cup {file}
      /\ disturbed' = disturbed \cup ({FiveOf(MinuteCutoff)} \cap Fives)
      /\ pc = "writeMinutes" /\ policy.archive /\ pc' = "deleteMinutes"
      /\ UNCHANGED <<now, raw, minute, five, policy, accepted, passed, horizon>>
  BY DEF WriteMinutes, Write, tiers
<1>3. /\ InMinutes' = InMinutes /\ InFives' = InFives
      /\ RawCutoff' = RawCutoff /\ MinuteCutoff' = MinuteCutoff
  BY <1>2 DEF InMinutes, InFives, RawCutoff, MinuteCutoff
<1>4. \A f : InFile(f)' = InFile(f)
  BY DEF InFile
<1>5. MinuteCutoff \in Int /\ \A s \in Samples :
        FiveOf(s) \notin disturbed' /\ FiveOf(s) <= MinuteCutoff => s < MinuteCutoff
  BY <1>1, <1>2, Cutoffs, UndividedByArchive
<1>6. InFile(file) = {s \in InMinutes : MinuteOf(s) <= MinuteCutoff}
  <2>1. \A b \in Minutes : Archived(minute, MinuteCutoff)[b] =
                             IF b <= MinuteCutoff THEN minute[b] ELSE NoRow
    BY <1>2, <1>5, BucketNumbers, ArchivedAll DEF Fits, KeptInv, Typed
  <2>2. \A s \in Samples : s \in Archived(minute, MinuteCutoff)[Minutely[s]].of <=>
                             s \in minute[Minutely[s]].of /\ MinuteOf(s) <= MinuteCutoff
    BY <2>1, BucketsOf DEF Minutely, NoRow
  <2>3. file.tier = "1m" /\ file.rows = Archived(minute, MinuteCutoff)
    OBVIOUS
  <2> HIDE DEF file
  <2> QED
    BY <2>2, <2>3 DEF InFile, InMinutes, Held
<1>7. Whole(InFile(file), accepted, disturbed')
  <2> SUFFICES ASSUME NEW s \in accepted, NEW t \in accepted, FiveOf(s) = FiveOf(t),
                      FiveOf(s) \notin disturbed', s \in InMinutes, MinuteOf(s) <= MinuteCutoff
               PROVE  t \in InMinutes /\ MinuteOf(t) <= MinuteCutoff
    BY <1>6 DEF Whole
  <2>1. t \in InMinutes
    BY <1>1, <1>2 DEF Whole, Wholes
  <2>2. MinuteOf(t) <= MinuteCutoff
    <3>1. /\ FiveOf(s) \in Int /\ MinuteOf(s) \in Int /\ FiveOf(s) <= MinuteOf(s)
          /\ MinuteOf(t) \in Int /\ t \in Int /\ MinuteOf(t) <= t
      BY <1>1, BucketsOf
    <3> QED
      BY <1>1, <1>5, <3>1
  <2> QED
    BY <2>1, <2>2
<1>8. RolledUp'
  BY <1>1, <1>2, <1>3, <1>4, <1>6 DEF RolledUp
<1>9. Wholes'
  <2>1. \A X : Whole(X, accepted, disturbed) => Whole(X, accepted, disturbed')
    BY <1>2 DEF Whole
  <2> HIDE DEF file
  <2>2. \A f \in files' : Whole(InFile(f), accepted, disturbed')
    BY <1>1, <1>2, <1>7, <2>1 DEF Wholes
  <2> QED
    BY <1>1, <1>2, <1>3, <1>4, <2>1, <2>2 DEF Wholes
<1>10. Waiting' /\ Edges'
  BY <1>1, <1>2, <1>3 DEF Waiting, Edges, AfterRollMinutes, AfterRollFives, Steps
<1>11. Safe'
  BY <1>1, <1>2, <1>3 DEF Safe, Clean, AfterRollMinutes, AfterRollFives, Steps
<1> QED
  BY <1>8, <1>9, <1>10, <1>11 DEF KeptInv

\* A finished archive of five-minute rows holds whole buckets.
LEMMA WriteFivesKeeps ==
  ASSUME KeptInv, Fits, WriteFives, Typed'
  PROVE  KeptInv'
<1> DEFINE file == [tier |-> "5m", rows |-> Archived(five, FiveCutoff)]
<1>1. /\ Typed /\ Waiting /\ RolledUp /\ Wholes /\ Edges /\ Safe
      /\ accepted \subseteq Samples /\ InFives \subseteq accepted
  BY DEF KeptInv, Typed, RolledUp
<1>2. /\ files' = files \cup {file}
      /\ pc = "writeFives" /\ policy.archive /\ pc' = "deleteFives"
      /\ UNCHANGED <<now, raw, minute, five, policy, accepted, passed, horizon, disturbed>>
  BY DEF WriteFives, Write, tiers
<1>3. /\ InMinutes' = InMinutes /\ InFives' = InFives
      /\ RawCutoff' = RawCutoff /\ MinuteCutoff' = MinuteCutoff
  BY <1>2 DEF InMinutes, InFives, RawCutoff, MinuteCutoff
<1>4. \A f : InFile(f)' = InFile(f)
  BY DEF InFile
<1>6. InFile(file) = {s \in InFives : FiveOf(s) <= FiveCutoff}
  <2>1. \A b \in Fives : Archived(five, FiveCutoff)[b] =
                             IF b <= FiveCutoff THEN five[b] ELSE NoRow
    BY <1>1, <1>2, BucketNumbers, ArchivedAll, Cutoffs DEF Fits, Typed
  <2>2. \A s \in Samples : s \in Archived(five, FiveCutoff)[Fively[s]].of <=>
                             s \in five[Fively[s]].of /\ FiveOf(s) <= FiveCutoff
    BY <2>1, BucketsOf DEF Fively, NoRow
  <2>3. file.tier # "1m" /\ file.rows = Archived(five, FiveCutoff)
    OBVIOUS
  <2> HIDE DEF file
  <2> QED
    BY <2>2, <2>3 DEF InFile, InFives, Held
<1>7. Whole(InFile(file), accepted, disturbed)
  BY <1>1, <1>6 DEF Whole, Wholes
<1>8. RolledUp'
  BY <1>1, <1>2, <1>3, <1>4, <1>6 DEF RolledUp
<1>9. Wholes'
  <2> HIDE DEF file
  <2>2. \A f \in files' : Whole(InFile(f), accepted, disturbed)
    BY <1>1, <1>2, <1>7 DEF Wholes
  <2> QED
    BY <1>1, <1>2, <1>3, <1>4, <2>2 DEF Wholes
<1>10. Waiting' /\ Edges'
  BY <1>1, <1>2, <1>3 DEF Waiting, Edges, AfterRollMinutes, AfterRollFives, Steps
<1>11. Safe'
  BY <1>1, <1>2, <1>3 DEF Safe, Clean, AfterRollMinutes, AfterRollFives, Steps
<1> QED
  BY <1>8, <1>9, <1>10, <1>11 DEF KeptInv

\* Deletion by bucket, from either tier.
LEMMA EmptiedHold ==
  ASSUME Typed, NEW c
  PROVE  /\ Held(Emptied(minute, c), Minutely) = {s \in InMinutes : ~ (MinuteOf(s) <= c)}
         /\ Held(Emptied(five, c), Fively) = {s \in InFives : ~ (FiveOf(s) <= c)}
<1>1. Minutely \in [Samples -> Minutes] /\ Fively \in [Samples -> Fives]
  BY BucketsOf DEF Minutely, Fively
<1>2. Sound(minute, Minutes, Minutely) /\ Sound(five, Fives, Fively)
  BY DEF Typed
<1>3. \A s \in Samples : s \in Held(Emptied(minute, c), Minutely) <=>
                           s \in Held(minute, Minutely) /\ ~ (Minutely[s] <= c)
  BY <1>1, <1>2, HeldAfter
<1>4. \A s \in Samples : s \in Held(Emptied(five, c), Fively) <=>
                           s \in Held(five, Fively) /\ ~ (Fively[s] <= c)
  BY <1>1, <1>2, HeldAfter
<1>5. /\ Held(Emptied(minute, c), Minutely) \subseteq Samples /\ InMinutes \subseteq Samples
      /\ Held(Emptied(five, c), Fively) \subseteq Samples /\ InFives \subseteq Samples
  BY DEF Held, InMinutes, InFives
<1>6. \A s \in Samples : Minutely[s] = MinuteOf(s) /\ Fively[s] = FiveOf(s)
  BY DEF Minutely, Fively
<1> QED
  BY <1>3, <1>4, <1>5, <1>6 DEF InMinutes, InFives

\* Minute rows are deleted, by the archiver or by PruneTiers, after they were rolled
\* up into five-minute rows, in the same pass and up to the same cutoff.
LEMMA MinutesDeletedKeeps ==
  ASSUME KeptInv, Typed', NEW c \in Int, minute' = Emptied(minute, c),
         \A s \in accepted : FiveOf(s) \notin disturbed /\ FiveOf(s) <= c => s < MinuteCutoff /\ s <= c,
         pc \in AfterRollFives, pc' \in AfterRollFives \ {"deleteMinutes"},
         UNCHANGED <<now, raw, five, files, policy, accepted, observers>>
  PROVE  KeptInv'
<1>1. /\ Typed /\ Waiting /\ RolledUp /\ Wholes /\ Edges /\ Safe
      /\ accepted \subseteq Samples /\ InMinutes \subseteq accepted
      /\ UNCHANGED <<passed, disturbed, horizon>>
  BY DEF KeptInv, Typed, RolledUp, observers
<1>2. /\ InFives' = InFives /\ \A f \in files : InFile(f)' = InFile(f)
      /\ RawCutoff' = RawCutoff /\ MinuteCutoff' = MinuteCutoff
  BY DEF InFives, InFile, RawCutoff, MinuteCutoff
<1>3. InMinutes' = {s \in InMinutes : ~ (MinuteOf(s) <= c)}
  BY <1>1, EmptiedHold DEF InMinutes
<1>4. \A s \in Samples : /\ s \in Int /\ FiveOf(s) \in Int /\ MinuteOf(s) \in Int
                         /\ FiveOf(s) <= MinuteOf(s) /\ MinuteOf(s) <= s
  BY BucketsOf
<1>5. ASSUME NEW s \in accepted, FiveOf(s) \notin disturbed, MinuteOf(s) <= c
      PROVE  s < MinuteCutoff /\ s <= c
  BY <1>1, <1>4, <1>5
<1>6. Whole(InMinutes', accepted, disturbed)
  <2> SUFFICES ASSUME NEW s \in accepted, NEW t \in accepted, FiveOf(s) = FiveOf(t),
                      FiveOf(s) \notin disturbed, s \in InMinutes', t \notin InMinutes'
               PROVE  FALSE
    BY DEF Whole
  <2>1. t \in InMinutes
    BY <1>1, <1>3 DEF Whole, Wholes
  <2>2. MinuteOf(t) <= c
    BY <1>3, <2>1
  <2>3. FiveOf(s) <= c
    BY <1>1, <1>4, <2>2
  <2>4. s <= c
    BY <2>3
  <2> QED
    BY <1>1, <1>3, <1>4, <2>4
<1>7. Waiting' /\ RolledUp' /\ Wholes'
  BY <1>1, <1>2, <1>3, <1>6 DEF Waiting, RolledUp, Wholes
<1>8. Edges'
  BY <1>1, <1>2 DEF Edges, AfterRollFives
<1>9. Safe'
  <2> SUFFICES ASSUME NEW s \in Samples, Clean(s)
               PROVE  /\ s \in raw \cup InMinutes' \cup InFives
                      /\ s < RawCutoff => s \in InMinutes' \cup InFives
                      /\ s < MinuteCutoff => s \in InFives \/ (s \in raw /\ ~ (s < RawCutoff))
    BY <1>1, <1>2 DEF Safe, Clean
  <2>1. /\ s \in raw \cup InMinutes \cup InFives
        /\ s < RawCutoff => s \in InMinutes \cup InFives
        /\ s < MinuteCutoff => s \in InFives \/ (s \in raw /\ ~ (s < RawCutoff))
    BY <1>1 DEF Safe, AfterRollFives
  <2>2. s \in InMinutes => s \in InMinutes' \/ s < MinuteCutoff
    BY <1>3, <1>5 DEF Clean
  <2> QED
    BY <2>1, <2>2
<1> QED
  BY <1>7, <1>8, <1>9 DEF KeptInv

\* The archiver deletes up to and including its cutoff.
LEMMA DeleteMinutesKeeps ==
  ASSUME KeptInv, DeleteMinutes, Typed'
  PROVE  KeptInv'
<1>1. Typed /\ Edges /\ accepted \subseteq Samples /\ MinuteCutoff \in Int
  BY Cutoffs DEF KeptInv, Typed
<1>2. {FiveOf(MinuteCutoff)} \cap Fives \subseteq disturbed
  BY <1>1 DEF Edges, DeleteMinutes
<1>3. \A s \in Samples : FiveOf(s) \notin disturbed /\ FiveOf(s) <= MinuteCutoff => s < MinuteCutoff
  BY <1>1, <1>2, UndividedByArchive
<1>4. \A s \in Samples : s \in Int
  BY BucketsOf
<1>5. \A s \in accepted : FiveOf(s) \notin disturbed /\ FiveOf(s) <= MinuteCutoff
                            => s < MinuteCutoff /\ s <= MinuteCutoff
  BY <1>1, <1>3, <1>4
<1> QED
  BY <1>1, <1>5, MinutesDeletedKeeps DEF DeleteMinutes, AfterRollFives, AfterRollMinutes, Steps

\* PruneTiers deletes what is before its cutoff.
LEMMA PruneMinutesKeeps ==
  ASSUME KeptInv, PruneMinutes, Typed'
  PROVE  KeptInv'
<1>1. Typed /\ Edges /\ accepted \subseteq Samples /\ MinuteCutoff \in Int
  BY Cutoffs DEF KeptInv, Typed
<1>2. Split(MinuteCutoff) \subseteq disturbed
  BY <1>1 DEF Edges, PruneMinutes, AfterRollFives, AfterRollMinutes, Steps
<1>3. \A s \in Samples : FiveOf(s) \notin disturbed /\ FiveOf(s) < MinuteCutoff => s < MinuteCutoff
  BY <1>1, <1>2, Undivided
<1>4. \A s \in Samples : s \in Int /\ FiveOf(s) \in Int
  BY BucketsOf
<1>5. \A s \in accepted : FiveOf(s) \notin disturbed /\ FiveOf(s) <= MinuteCutoff - 1
                            => s < MinuteCutoff /\ s <= MinuteCutoff - 1
  BY <1>1, <1>3, <1>4
<1>6. MinuteCutoff - 1 \in Int
  BY <1>1
<1> QED
  BY <1>1, <1>5, <1>6, MinutesDeletedKeeps DEF PruneMinutes, AfterRollFives, AfterRollMinutes, Steps

\* Five-minute rows are deleted whole, and their buckets then count as gone.
LEMMA FivesDeletedKeeps ==
  ASSUME KeptInv, Typed', NEW c \in Int, five' = Emptied(five, c),
         horizon' \in Int, horizon <= horizon', c < horizon',
         pc \in AfterRollFives, pc' \in {"idle"} \cup (AfterRollFives \ {"deleteMinutes"}),
         UNCHANGED <<now, raw, minute, files, policy, accepted, passed, disturbed>>
  PROVE  KeptInv'
<1>1. /\ Typed /\ Waiting /\ RolledUp /\ Wholes /\ Edges /\ Safe
      /\ accepted \subseteq Samples /\ InFives \subseteq accepted /\ horizon \in Int
  BY DEF KeptInv, Typed, RolledUp
<1>2. /\ InMinutes' = InMinutes /\ \A f \in files : InFile(f)' = InFile(f)
      /\ RawCutoff' = RawCutoff /\ MinuteCutoff' = MinuteCutoff
  BY DEF InMinutes, InFile, RawCutoff, MinuteCutoff
<1>3. InFives' = {s \in InFives : ~ (FiveOf(s) <= c)}
  BY <1>1, EmptiedHold DEF InFives
<1>4. Whole(InFives', accepted, disturbed)
  BY <1>1, <1>3 DEF Whole, Wholes
<1>5. Waiting' /\ RolledUp' /\ Wholes'
  BY <1>1, <1>2, <1>3, <1>4 DEF Waiting, RolledUp, Wholes
<1>6. Edges'
  BY <1>1, <1>2 DEF Edges, AfterRollFives, AfterRollMinutes
<1>7. Safe'
  <2> SUFFICES ASSUME NEW s \in Samples, Clean(s)'
               PROVE  /\ s \in raw \cup InMinutes \cup InFives'
                      /\ s < RawCutoff => s \in InMinutes \cup InFives'
                      /\ s < MinuteCutoff => s \in InFives' \/ (s \in raw /\ ~ (s < RawCutoff))
    BY <1>1, <1>2 DEF Safe
  <2>1. FiveOf(s) \in Int
    BY BucketsOf
  <2>2. Clean(s) /\ ~ (FiveOf(s) <= c)
    BY <1>1, <2>1 DEF Clean
  <2>3. /\ s \in raw \cup InMinutes \cup InFives
        /\ s < RawCutoff => s \in InMinutes \cup InFives
        /\ s < MinuteCutoff => s \in InFives \/ (s \in raw /\ ~ (s < RawCutoff))
    BY <1>1, <2>2 DEF Safe, AfterRollFives
  <2> QED
    BY <1>3, <2>2, <2>3
<1> QED
  BY <1>5, <1>6, <1>7 DEF KeptInv

\* So they are by the archiver and by PruneTiers.
LEMMA FivesKeep ==
  ASSUME KeptInv, DeleteFives \/ PruneFives, Typed'
  PROVE  KeptInv'
<1>1. Typed /\ FiveCutoff \in Int /\ FiveCutoff - 1 \in Int /\ horizon \in Int /\ horizon' \in Int
  BY Cutoffs DEF KeptInv, Typed
<1>2. CASE DeleteFives
  <2>1. horizon <= horizon' /\ FiveCutoff < horizon'
    BY <1>1, <1>2 DEF DeleteFives
  <2> QED
    BY <1>1, <1>2, <2>1, FivesDeletedKeeps DEF DeleteFives, AfterRollFives, AfterRollMinutes, Steps
<1>3. CASE PruneFives
  <2>1. horizon <= horizon' /\ FiveCutoff - 1 < horizon'
    BY <1>1, <1>3 DEF PruneFives
  <2> QED
    BY <1>1, <1>3, <2>1, FivesDeletedKeeps DEF PruneFives, AfterRollFives, AfterRollMinutes, Steps
<1> QED
  BY <1>2, <1>3

\* Raw samples are pruned after they were rolled up, in the same pass.
LEMMA PruneRawKeeps ==
  ASSUME KeptInv, PruneRaw, Typed'
  PROVE  KeptInv'
<1>1. /\ Typed /\ Waiting /\ RolledUp /\ Wholes /\ Edges /\ Safe
      /\ accepted \subseteq Samples /\ raw \subseteq accepted
  BY DEF KeptInv, Typed
<1>2. /\ raw' = {s \in raw : s >= RawCutoff} /\ pc = "pruneRaw" /\ pc' = "pruneMinutes"
      /\ UNCHANGED <<now, minute, five, files, policy, accepted, passed, disturbed, horizon>>
  BY DEF PruneRaw, observers
<1>3. /\ InMinutes' = InMinutes /\ InFives' = InFives /\ \A f \in files : InFile(f)' = InFile(f)
      /\ RawCutoff' = RawCutoff /\ MinuteCutoff' = MinuteCutoff
  BY <1>2 DEF InMinutes, InFives, InFile, RawCutoff, MinuteCutoff
<1>4. /\ RawCutoff \in Int /\ passed \in Int
      /\ RawCutoff <= passed /\ Split(RawCutoff) \subseteq disturbed
  BY <1>1, <1>2, Cutoffs DEF Edges, Typed, AfterRollMinutes, Steps
<1>5. \A s \in Samples : s \in Int /\ FiveOf(s) \in Int /\ FiveOf(s) <= s
  BY BucketsOf
<1>6. \A s \in Samples : FiveOf(s) \notin disturbed /\ FiveOf(s) < RawCutoff => s < RawCutoff
  BY <1>4, Undivided
<1>7. Whole(raw', accepted, disturbed)
  <2> SUFFICES ASSUME NEW s \in accepted, NEW t \in accepted, FiveOf(s) = FiveOf(t),
                      FiveOf(s) \notin disturbed, s \in raw', t \notin raw'
               PROVE  FALSE
    BY DEF Whole
  <2>1. t \in raw
    BY <1>1, <1>2 DEF Whole, Wholes
  <2>2. t < RawCutoff
    BY <1>1, <1>2, <1>4, <1>5, <2>1
  <2>3. s < RawCutoff
    BY <1>1, <1>4, <1>5, <1>6, <2>2
  <2> QED
    BY <1>1, <1>2, <1>4, <1>5, <2>3
<1>8. Waiting'
  BY <1>1, <1>2, <1>4, <1>5 DEF Waiting
<1>9. RolledUp' /\ Wholes' /\ Edges'
  BY <1>1, <1>2, <1>3, <1>7 DEF RolledUp, Wholes, Edges, AfterRollFives, AfterRollMinutes, Steps
<1>10. Safe'
  <2> SUFFICES ASSUME NEW s \in Samples, Clean(s)
               PROVE  /\ s \in raw' \cup InMinutes \cup InFives
                      /\ s < RawCutoff => s \in InMinutes \cup InFives
                      /\ s < MinuteCutoff => s \in InFives \/ (s \in raw' /\ ~ (s < RawCutoff))
    BY <1>2, <1>3 DEF Safe, Clean
  <2>1. /\ s \in raw \cup InMinutes \cup InFives
        /\ s < RawCutoff => s \in InMinutes \cup InFives
        /\ s < MinuteCutoff => s \in InFives \/ (s \in raw /\ ~ (s < RawCutoff))
    BY <1>1, <1>2 DEF Safe, AfterRollFives, AfterRollMinutes, Steps
  <2>2. s \in raw /\ ~ (s < RawCutoff) => s \in raw'
    BY <1>2, <1>4, <1>5
  <2> QED
    BY <2>1, <2>2
<1> QED
  BY <1>8, <1>9, <1>10 DEF KeptInv

\* A restored archive brings back whole buckets and takes nothing away.
LEMMA RestoreKeeps ==
  ASSUME KeptInv, NEW f \in files, Restore(f), Typed'
  PROVE  KeptInv'
<1>1. /\ Typed /\ Waiting /\ RolledUp /\ Wholes /\ Edges /\ Safe
      /\ accepted \subseteq Samples /\ InFile(f) \subseteq accepted
      /\ Whole(InFile(f), accepted, disturbed)
  BY DEF KeptInv, Typed, RolledUp, Wholes
<1>2. UNCHANGED <<now, raw, files, pc, policy, accepted, passed, disturbed, horizon>>
  BY DEF Restore, observers
<1>3. /\ \A g \in files : InFile(g)' = InFile(g)
      /\ RawCutoff' = RawCutoff /\ MinuteCutoff' = MinuteCutoff
  BY <1>2 DEF InFile, RawCutoff, MinuteCutoff
<1>4. /\ InMinutes' \subseteq InMinutes \cup InFile(f)
      /\ InFives' \subseteq InFives \cup InFile(f)
      /\ \A s \in accepted : FiveOf(s) \notin disturbed =>
           /\ s \in InMinutes' <=> s \in InMinutes \/ (f.tier = "1m" /\ s \in InFile(f))
           /\ s \in InFives' <=> s \in InFives \/ (f.tier # "1m" /\ s \in InFile(f))
  <2>1. CASE f.tier = "1m"
    <3>1. minute' = Replaced(minute, f.rows) /\ InFives' = InFives
          /\ InFile(f) = Held(f.rows, Minutely)
      BY <2>1 DEF Restore, InFives, InFile
    <3>2. Minutely \in [Samples -> Minutes]
      BY BucketsOf DEF Minutely
    <3>3. \A s, t \in Samples : Minutely[s] = Minutely[t] => FiveOf(s) = FiveOf(t)
      BY BucketsOf DEF Minutely
    <3>4. Sound(minute, Minutes, Minutely) /\ Sound(f.rows, Minutes, Minutely)
      BY <1>1, <2>1 DEF Typed
    <3>5. /\ Held(Replaced(minute, f.rows), Minutely)
               \subseteq Held(minute, Minutely) \cup Held(f.rows, Minutely)
          /\ \A s \in accepted : FiveOf(s) \notin disturbed =>
               (s \in Held(Replaced(minute, f.rows), Minutely) <=>
                  s \in Held(minute, Minutely) \/ s \in Held(f.rows, Minutely))
      BY <1>1, <3>1, <3>2, <3>3, <3>4, ReplacedByWhole
    <3> QED
      BY <2>1, <3>1, <3>5 DEF InMinutes
  <2>2. CASE f.tier # "1m"
    <3>1. five' = Replaced(five, f.rows) /\ InMinutes' = InMinutes
          /\ InFile(f) = Held(f.rows, Fively)
      BY <2>2 DEF Restore, InMinutes, InFile
    <3>2. Fively \in [Samples -> Fives]
      BY BucketsOf DEF Fively
    <3>3. \A s, t \in Samples : Fively[s] = Fively[t] => FiveOf(s) = FiveOf(t)
      BY DEF Fively
    <3>4. Sound(five, Fives, Fively) /\ Sound(f.rows, Fives, Fively)
      BY <1>1, <2>2 DEF Typed
    <3>5. /\ Held(Replaced(five, f.rows), Fively)
               \subseteq Held(five, Fively) \cup Held(f.rows, Fively)
          /\ \A s \in accepted : FiveOf(s) \notin disturbed =>
               (s \in Held(Replaced(five, f.rows), Fively) <=>
                  s \in Held(five, Fively) \/ s \in Held(f.rows, Fively))
      BY <1>1, <3>1, <3>2, <3>3, <3>4, ReplacedByWhole
    <3> QED
      BY <2>2, <3>1, <3>5 DEF InFives
  <2> QED
    BY <2>1, <2>2
<1>5. Waiting' /\ Edges'
  BY <1>1, <1>2, <1>3 DEF Waiting, Edges
<1>6. RolledUp'
  BY <1>1, <1>2, <1>3, <1>4 DEF RolledUp
<1>7. Whole(InMinutes', accepted, disturbed) /\ Whole(InFives', accepted, disturbed)
  BY <1>1, <1>4 DEF Whole, Wholes
<1>8. Wholes'
  BY <1>1, <1>2, <1>3, <1>7 DEF Wholes
<1>9. Safe'
  BY <1>1, <1>2, <1>3, <1>4 DEF Safe, Clean
<1> QED
  BY <1>5, <1>6, <1>8, <1>9 DEF KeptInv

\* A step that moves no sample keeps the invariant, whether time passes between
\* passes, a pass begins or ends, or it goes on without archiving.
LEMMA QuietKeeps ==
  ASSUME KeptInv, Tick \/ Begin \/ Crash \/ Fail \/ NotArchived \/ ArchiveFails \/ UNCHANGED vars,
         Typed'
  PROVE  KeptInv'
<1>1. Typed /\ Waiting /\ RolledUp /\ Wholes /\ Edges /\ Safe
  BY DEF KeptInv
<1>2. UNCHANGED <<raw, minute, five, files, accepted, passed, disturbed, horizon>>
  BY DEF Tick, Begin, Crash, Fail, NotArchived, ArchiveFails, vars, tiers, observers
<1>3. InMinutes' = InMinutes /\ InFives' = InFives /\ \A f \in files : InFile(f)' = InFile(f)
  BY <1>2 DEF InMinutes, InFives, InFile
<1>4. \/ pc' \in {"idle", "rollMinutes"}
      \/ /\ UNCHANGED <<now, policy>>
         /\ pc' = pc \/ (pc \in AfterRollFives /\ pc' \in {"writeFives", "pruneRaw"})
  BY DEF Tick, Begin, Crash, Fail, NotArchived, ArchiveFails, vars, tiers, observers,
     AfterError, AfterArchiveError, AfterRollFives, AfterRollMinutes, Steps
<1>5. \/ pc' \notin AfterRollMinutes
      \/ /\ RawCutoff' = RawCutoff /\ MinuteCutoff' = MinuteCutoff
         /\ pc' = pc \/ (pc \in AfterRollFives /\ pc' # "deleteMinutes")
  BY <1>4 DEF RawCutoff, MinuteCutoff, AfterRollMinutes
<1>6. AfterRollFives \subseteq AfterRollMinutes /\ "deleteMinutes" \in AfterRollMinutes
  BY DEF AfterRollFives, AfterRollMinutes, Steps
<1>7. Waiting' /\ RolledUp' /\ Wholes'
  BY <1>1, <1>2, <1>3 DEF Waiting, RolledUp, Wholes
<1>8. Edges'
  BY <1>1, <1>2, <1>5, <1>6 DEF Edges
<1>9. Safe'
  BY <1>1, <1>2, <1>3, <1>5, <1>6 DEF Safe, Clean
<1> QED
  BY <1>7, <1>8, <1>9 DEF KeptInv

\* Every step keeps the invariant while the rows to archive fit.
LEMMA NextKept ==
  ASSUME KeptInv, Fits, [Next]_vars
  PROVE  KeptInv'
<1>1. Typed'
  BY NextTyped DEF KeptInv
<1> QED
  BY <1>1, StoreKeeps, RollMinutesKeeps, RollFivesKeeps, WriteMinutesKeeps, WriteFivesKeeps,
     DeleteMinutesKeeps, FivesKeep, PruneRawKeeps, PruneMinutesKeeps, RestoreKeeps, QuietKeeps
  DEF Next

\* What is inside the retention stays queryable wherever a pass fails, is cut off
\* or is repeated, and whatever is restored (rollup.go, archive.go), as long as no
\* pass has more rows to archive than it reads.
THEOREM LostOnlyAtEdges == Spec /\ []Fits => []LossOnlyAtEdges
<1>1. KeptInv => LossOnlyAtEdges
  <2> SUFFICES ASSUME KeptInv, NEW s \in accepted, FiveOf(s) \notin disturbed,
                      ~ (FiveOf(s) < horizon)
               PROVE  s \in Queryable
    BY DEF LossOnlyAtEdges
  <2>1. s \in Samples /\ horizon \in Int /\ FiveOf(s) \in Int
    BY BucketsOf DEF KeptInv, Typed
  <2>2. s \in raw \cup InMinutes \cup InFives
    BY <2>1 DEF KeptInv, Safe, Clean
  <2>3. s \in InMinutes => s \in UNION {minute[b].of : b \in Minutes}
    BY <2>1, BucketsOf DEF InMinutes, Held, Minutely
  <2>4. s \in InFives => s \in UNION {five[b].of : b \in Fives}
    BY <2>1, BucketsOf DEF InFives, Held, Fively
  <2> QED
    BY <2>2, <2>3, <2>4 DEF Queryable
<1>2. KeptInv /\ Fits /\ [Next]_vars => KeptInv'
  BY NextKept
<1> QED
  BY <1>1, <1>2, InitKept, PTL DEF Spec

-----------------------------------------------------------------------------
(* The archiver.                                                           *)

\* What the archiver is about to delete is in a file as it is.
Filed ==
  /\ pc = "deleteMinutes" =>
       \A b \in Present(minute) : b <= MinuteCutoff => InSomeFile("1m", b, minute[b])
  /\ pc = "deleteFives" =>
       \A b \in Present(five) : b <= FiveCutoff => InSomeFile("5m", b, five[b])

\* INSERT OR REPLACE leaves every row that it does not bring as it is.
LEMMA ReplacedRows ==
  ASSUME NEW buckets, NEW rows \in [buckets -> Row], NEW new
  PROVE  /\ Present(rows) \subseteq Present(Replaced(rows, new))
         /\ \A b \in Present(Replaced(rows, new)) :
              \/ b \in Present(rows) /\ Replaced(rows, new)[b] = rows[b]
              \/ Replaced(rows, new)[b] = new[b]
BY DEF Present, Replaced

\* Between the file and the deletion a table changes only by a restore, which
\* brings rows that are in a file.
LEMMA FiledKeeps ==
  ASSUME Typed, Filed, Fits, [Next]_vars
  PROVE  Filed'
<1>1. minute \in [Minutes -> Row] /\ five \in [Fives -> Row]
  BY DEF Typed, Sound
<1>2. CASE WriteMinutes
  <2> DEFINE file == [tier |-> "1m", rows |-> Archived(minute, MinuteCutoff)]
  <2>1. /\ file \in files' /\ pc = "writeMinutes" /\ policy.archive /\ pc' = "deleteMinutes"
        /\ UNCHANGED <<now, policy, minute>>
    BY <1>2 DEF WriteMinutes, Write, tiers
  <2>2. \A b \in Minutes : b <= MinuteCutoff => file.rows[b] = minute[b]
    <3>1. \A b \in Minutes : b <= MinuteCutoff => Archived(minute, MinuteCutoff)[b] = minute[b]
      BY <2>1, BucketNumbers, ArchivedAll, Cutoffs DEF Typed, Fits
    <3> QED
      BY <3>1
  <2>3. Present(minute) \subseteq Minutes /\ MinuteCutoff' = MinuteCutoff /\ file.tier = "1m"
    BY <1>1, <2>1 DEF Present, MinuteCutoff
  <2> HIDE DEF file
  <2> QED
    BY <2>1, <2>2, <2>3 DEF Filed, InSomeFile
<1>3. CASE WriteFives
  <2> DEFINE file == [tier |-> "5m", rows |-> Archived(five, FiveCutoff)]
  <2>1. /\ file \in files' /\ pc = "writeFives" /\ policy.archive /\ pc' = "deleteFives"
        /\ UNCHANGED <<now, policy, five>>
    BY <1>3 DEF WriteFives, Write, tiers
  <2>2. \A b \in Fives : b <= FiveCutoff => file.rows[b] = five[b]
    <3>1. \A b \in Fives : b <= FiveCutoff => Archived(five, FiveCutoff)[b] = five[b]
      BY <2>1, BucketNumbers, ArchivedAll, Cutoffs DEF Typed, Fits
    <3> QED
      BY <3>1
  <2>3. Present(five) \subseteq Fives /\ FiveCutoff' = FiveCutoff /\ file.tier = "5m"
    BY <1>1, <2>1 DEF Present, FiveCutoff
  <2> HIDE DEF file
  <2> QED
    BY <2>1, <2>2, <2>3 DEF Filed, InSomeFile
<1>4. ASSUME NEW f \in files, Restore(f)
      PROVE  Filed'
  <2>1. UNCHANGED <<now, files, pc, policy>>
    BY <1>4 DEF Restore
  <2>2. MinuteCutoff' = MinuteCutoff /\ FiveCutoff' = FiveCutoff
    BY <2>1 DEF MinuteCutoff, FiveCutoff
  <2>3. CASE f.tier = "1m"
    <3>1. minute' = Replaced(minute, f.rows) /\ five' = five
      BY <1>4, <2>3 DEF Restore
    <3>2. \A b \in Present(minute') : \/ b \in Present(minute) /\ minute'[b] = minute[b]
                                      \/ minute'[b] = f.rows[b]
      BY <1>1, <3>1, ReplacedRows
    <3> QED
      BY <2>1, <2>2, <2>3, <3>1, <3>2 DEF Filed, InSomeFile
  <2>4. CASE f.tier # "1m"
    <3>1. five' = Replaced(five, f.rows) /\ minute' = minute /\ f.tier = "5m"
      BY <1>4, <2>4 DEF Restore, Typed
    <3>2. \A b \in Present(five') : \/ b \in Present(five) /\ five'[b] = five[b]
                                    \/ five'[b] = f.rows[b]
      BY <1>1, <3>1, ReplacedRows
    <3> QED
      BY <2>1, <2>2, <3>1, <3>2 DEF Filed, InSomeFile
  <2> QED
    BY <2>3, <2>4
<1>5. ASSUME NEW s \in Samples, Store(s)
      PROVE  Filed'
  BY <1>5 DEF Store, Filed, InSomeFile, MinuteCutoff, FiveCutoff
<1>6. CASE UNCHANGED vars
  BY <1>6 DEF vars, tiers, Filed, InSomeFile, MinuteCutoff, FiveCutoff
<1>7. CASE \/ Tick \/ Begin \/ Crash \/ Fail \/ NotArchived \/ ArchiveFails
           \/ RollMinutes \/ RollFives \/ DeleteMinutes \/ DeleteFives
           \/ PruneRaw \/ PruneMinutes \/ PruneFives
  <2>1. pc' \notin {"deleteMinutes", "deleteFives"}
    BY <1>7 DEF Tick, Begin, Crash, Fail, NotArchived, ArchiveFails, RollMinutes, RollFives,
       DeleteMinutes, DeleteFives, PruneRaw, PruneMinutes, PruneFives, AfterError, AfterArchiveError
  <2> QED
    BY <2>1 DEF Filed
<1> QED
  BY <1>2, <1>3, <1>4, <1>5, <1>6, <1>7 DEF Next

\* The archiver deletes a row only after a file holds it as it is (archive.go), as
\* long as there are no more rows to archive than it reads.
THEOREM FileBeforeDelete == Spec /\ []Fits => ArchivedBeforeDeleted
<1> DEFINE Step ==
      /\ pc = "deleteMinutes" =>
           \A b \in Present(minute) \ Present(minute') : InSomeFile("1m", b, minute[b])
      /\ pc = "deleteFives" =>
           \A b \in Present(five) \ Present(five') : InSomeFile("5m", b, five[b])
<1>1. Init => Typed /\ Filed
  BY InitTyped DEF Init, Filed
<1>2. Typed /\ Filed /\ Fits /\ [Next]_vars => Typed' /\ Filed'
  BY NextTyped, FiledKeeps
<1>3. Typed /\ Filed /\ [Next]_vars => [Step]_vars
  <2> SUFFICES ASSUME Typed, Filed, Next
               PROVE  Step
    OBVIOUS
  <2>1. minute \in [Minutes -> Row] /\ five \in [Fives -> Row]
    BY DEF Typed, Sound
  <2>2. CASE DeleteMinutes
    <3>1. \A b \in Present(minute) : b \notin Present(minute') => b <= MinuteCutoff
      BY <2>1, <2>2 DEF DeleteMinutes, Present, Emptied
    <3> QED
      BY <2>2, <3>1 DEF DeleteMinutes, Filed
  <2>3. CASE DeleteFives
    <3>1. \A b \in Present(five) : b \notin Present(five') => b <= FiveCutoff
      BY <2>1, <2>3 DEF DeleteFives, Present, Emptied
    <3> QED
      BY <2>3, <3>1 DEF DeleteFives, Filed
  <2>4. ASSUME NEW f \in files, Restore(f)
        PROVE  Step
    <3>1. Present(minute) \subseteq Present(minute') /\ Present(five) \subseteq Present(five')
      BY <2>1, <2>4, ReplacedRows DEF Restore
    <3> QED
      BY <3>1
  <2>5. CASE \/ Tick \/ Begin \/ Crash \/ Fail \/ NotArchived \/ ArchiveFails
             \/ RollMinutes \/ RollFives \/ WriteMinutes \/ WriteFives
             \/ PruneRaw \/ PruneMinutes \/ PruneFives \/ \E s \in Samples : Store(s)
    <3>1. pc \in {"deleteMinutes", "deleteFives"} => minute' = minute /\ five' = five
      BY <2>5 DEF Tick, Begin, Crash, Fail, NotArchived, ArchiveFails, RollMinutes, RollFives,
         WriteMinutes, WriteFives, Write, PruneRaw, PruneMinutes, PruneFives, Store, tiers
    <3> QED
      BY <3>1
  <2> QED
    BY <2>2, <2>3, <2>4, <2>5 DEF Next
<1> QED
  BY <1>1, <1>2, <1>3, PTL DEF Spec, ArchivedBeforeDeleted

-----------------------------------------------------------------------------
(* What is read back.                                                      *)

\* A window that holds something has an oldest part.
LEMMA OldestFirst ==
  ASSUME NEW in \in SUBSET Nat, in # {}
  PROVE  \E r \in in : Rank(r, in) = 0
<1>1. PICK r \in in : \A o \in in : r <= o
  BY LeastOf
<1>2. \A o \in in : o \in Nat /\ ~ (o < r)
  BY <1>1
<1>3. {o \in in : o < r} = {}
  BY <1>2
<1> QED
  BY <1>3, FS_EmptySet DEF Rank

\* A limit that a request may name is still positive when it is clamped.
LEMMA LimitClamped ==
  ASSUME NEW limit \in Nat \ {0}
  PROVE  Clamped(limit) \in Nat \ {0}
BY RetentionAssumption DEF Clamped

\* However a window is decimated, its oldest raw sample is in the answer.
LEMMA RawAnswered ==
  ASSUME raw \subseteq Samples, NEW q, q.limit \in Nat \ {0},
         NEW s \in raw, q.from <= s, s <= q.to
  PROVE  QueryRange(q) # {}
<1> DEFINE in == Within(raw, q)
           c == Clamped(q.limit)
           stride == (Cardinality(in) + c - 1) \div c
<1>1. in \subseteq Samples /\ s \in in
  BY DEF Within
<1>2. in \in SUBSET Nat /\ IsFiniteSet(in)
  BY <1>1, BucketNumbers, BucketsOf, FS_Subset
<1>3. c \in Nat \ {0}
  BY LimitClamped
<1> HIDE DEF in, c
<1>4. Cardinality(in) \in Nat /\ Cardinality(in) # 0
  BY <1>1, <1>2, FS_CardinalityType, FS_EmptySet
<1>5. stride \in Nat \ {0}
  <2>1. Cardinality(in) + c - 1 >= c /\ Cardinality(in) + c - 1 \in Nat
    BY <1>3, <1>4
  <2>2. ASSUME NEW a \in Nat, NEW d \in Nat \ {0}, a >= d PROVE a \div d \in Nat \ {0}
    BY <2>2
  <2> QED
    BY <1>3, <2>1, <2>2
<1> HIDE DEF stride
<1>6. PICK r \in in : Rank(r, in) = 0
  BY <1>1, <1>2, OldestFirst
<1>7. Rank(r, in) % stride = 0
  BY <1>5, <1>6
<1> QED
  BY <1>6, <1>7 DEF QueryRange, in, c, stride

\* However few rows are asked for, the oldest of a window is in the answer.
LEMMA RollupAnswered ==
  ASSUME NEW rows, DOMAIN rows \subseteq Nat,
         \A o \in DOMAIN rows : rows[o] = NoRow <=> rows[o].of = {},
         NEW q, q.limit \in Nat \ {0},
         NEW b \in DOMAIN rows, rows[b].of # {}, q.from <= b, b <= q.to
  PROVE  \E o \in RollupsRange(rows, q) : rows[o].of # {}
<1> DEFINE in == Within(Present(rows), q)
<1>1. in \in SUBSET Nat /\ b \in in /\ \A o \in in : rows[o].of # {}
  BY DEF Within, Present
<1> HIDE DEF in
<1>2. PICK r \in in : Rank(r, in) = 0
  BY <1>1, OldestFirst
<1>3. r \in RollupsRange(rows, q)
  BY <1>2, LimitClamped DEF RollupsRange, in
<1> QED
  BY <1>1, <1>3

\* So it is in both tiers.
LEMMA TiersAnswered ==
  ASSUME Sound(minute, Minutes, Minutely), Sound(five, Fives, Fively),
         NEW q, q.limit \in Nat \ {0}
  PROVE  /\ \A b \in Minutes : minute[b].of # {} /\ q.from <= b /\ b <= q.to
              => \E o \in RollupsRange(minute, q) : minute[o].of # {}
         /\ \A b \in Fives : five[b].of # {} /\ q.from <= b /\ b <= q.to
              => \E o \in RollupsRange(five, q) : five[o].of # {}
<1>1. /\ DOMAIN minute = Minutes /\ DOMAIN minute \subseteq Nat
      /\ DOMAIN five = Fives /\ DOMAIN five \subseteq Nat
  BY BucketNumbers DEF Sound
<1>2. \A o \in Minutes : minute[o] = NoRow <=> minute[o].of = {}
  BY RowFacts, Zenon
<1>3. \A o \in Fives : five[o] = NoRow <=> five[o].of = {}
  BY RowFacts, Zenon
<1>4. ASSUME NEW b \in Minutes, minute[b].of # {}, q.from <= b, b <= q.to
      PROVE  \E o \in RollupsRange(minute, q) : minute[o].of # {}
  BY <1>1, <1>2, <1>4, RollupAnswered
<1>5. ASSUME NEW b \in Fives, five[b].of # {}, q.from <= b, b <= q.to
      PROVE  \E o \in RollupsRange(five, q) : five[o].of # {}
  BY <1>1, <1>3, <1>5, RollupAnswered
<1> QED
  BY <1>4, <1>5

\* The tier that a request resolves to if it names none.
LEMMA ResolvedTier ==
  ASSUME NEW q, q.resolution = "auto"
  PROVE  /\ q.from > RawCutoff + Hour /\ q.to - q.from <= Hour => Resolved(q) = "raw"
         /\ ~ (q.from > RawCutoff + Hour /\ q.to - q.from <= Hour) =>
              Resolved(q) = IF q.to - q.from <= MinuteSpan THEN "1m" ELSE "5m"
BY DEF Resolved

\* handleMetrics answers something if the tier or the fallback has something.
LEMMA MetricsAnswer ==
  ASSUME NEW q,
         \/ Resolved(q) = "raw" /\ QueryRange(q) # {}
         \/ Resolved(q) = "1m" /\ \E b \in RollupsRange(minute, q) : minute[b].of # {}
         \/ Resolved(q) = "5m" /\ \E b \in RollupsRange(five, q) : five[b].of # {}
         \/ Resolved(q) # "raw" /\ q.to > RawCutoff /\ QueryRange(Covered(q)) # {}
  PROVE  Metrics(q).of # {}
<1> DEFINE first == IF Resolved(q) = "raw" THEN RawAnswer(q) ELSE RollupAnswer(q, Resolved(q))
           fallback == RawAnswer(Covered(q))
<1>1. Metrics(q) = IF Resolved(q) # "raw" /\ first.of = {} /\ q.to > RawCutoff /\ fallback.of # {}
                   THEN fallback ELSE first
  BY DEF Metrics
<1>2. fallback.of = QueryRange(Covered(q))
  BY DEF RawAnswer
<1>3. Resolved(q) = "raw" => first.of = QueryRange(q)
  BY DEF RawAnswer
<1>4. Resolved(q) = "1m" => first.of = UNION {minute[b].of : b \in RollupsRange(minute, q)}
  BY DEF RollupAnswer
<1>5. Resolved(q) = "5m" => first.of = UNION {five[b].of : b \in RollupsRange(five, q)}
  BY DEF RollupAnswer
<1> HIDE DEF first, fallback
<1>6. first.of # {} \/ (Resolved(q) # "raw" /\ q.to > RawCutoff /\ fallback.of # {})
  BY <1>2, <1>3, <1>4, <1>5
<1> QED
  BY <1>1, <1>6

\* No sample is stored before it is taken.
Timely == \A s \in accepted : s <= now

\* A read from a tick on returns a row unless as many rows as its limit come before it.
LEMMA ExportedRow ==
  ASSUME NEW buckets \in SUBSET Nat, IsFiniteSet(buckets), NEW bucket,
         NEW rows, Sound(rows, buckets, bucket), NEW b \in buckets, rows[b].of # {}, b <= now,
         now \in Nat, NEW from \in 0..b, NEW tier, NEW limit \in Nat \ {0},
         ~(Cardinality({o \in Present(rows) : from <= o /\ o < b}) >= Clamped(limit))
  PROVE  b \in RollupsRange(rows, Asked(from, now, tier, limit))
<1> DEFINE q == Asked(from, now, tier, limit)
           in == Within(Present(rows), q)
           before == {o \in Present(rows) : from <= o /\ o < b}
<1>1. q.from = from /\ q.to = now /\ q.limit = limit
  BY DEF Asked
<1> HIDE DEF q
<1>2. DOMAIN rows = buckets /\ rows[b] # NoRow
  <2>1. rows \in [buckets -> Row]
    BY DEF Sound
  <2> QED
    BY <2>1, RowFacts
<1>3. b \in in /\ Present(rows) \subseteq buckets
  BY <1>1, <1>2 DEF Within, Present
<1>4. {o \in in : o < b} = before
  <2>1. ASSUME NEW o \in Present(rows)
        PROVE  (q.from <= o /\ o <= q.to /\ o < b) <=> (from <= o /\ o < b)
    <3>1. o \in Nat /\ b \in Nat
      BY <1>3
    <3> QED
      BY <1>1, <3>1
  <2> QED
    BY <2>1 DEF Within
<1>5. Cardinality(before) \in Nat
  BY <1>3, FS_Subset, FS_CardinalityType
<1>6. Clamped(limit) \in Nat
  BY LimitClamped
<1>7. ~(Cardinality(before) >= Clamped(limit))
  OBVIOUS
<1> HIDE DEF in, before
<1>8. Rank(b, in) < Clamped(q.limit)
  BY <1>1, <1>4, <1>5, <1>6, <1>7 DEF Rank
<1> QED
  BY <1>3, <1>8 DEF RollupsRange, in, q

\* A sample is stored when it has been taken.
LEMMA TimelyKept ==
  ASSUME Typed, Timely, [Next]_vars
  PROVE  Timely'
<1>1. now \in Int /\ accepted \subseteq Samples /\ now' \in Int
  <2>1. now \in Int /\ accepted \subseteq Samples
    BY DEF Typed
  <2>2. Typed'
    BY NextTyped
  <2> QED
    BY <2>1, <2>2 DEF Typed
<1>2. ASSUME NEW s \in Samples, Store(s) PROVE Timely'
  BY <1>1, <1>2 DEF Store, Timely
<1>3. CASE Tick
  BY <1>1, <1>3, BucketsOf DEF Tick, Timely
<1>4. CASE UNCHANGED <<now, accepted>>
  BY <1>4 DEF Timely
<1> QED
  BY <1>2, <1>3, <1>4 DEF Next, vars, Begin, Crash, Fail, RollMinutes, RollFives, Write, WriteMinutes,
     DeleteMinutes, WriteFives, DeleteFives, NotArchived, ArchiveFails, PruneRaw, PruneMinutes,
     PruneFives, Restore, observers

\* What is not raw any more a rollup has come to, and a pass prunes nothing else.
RawInTime == Waiting /\ (pc \in AfterRollMinutes => RawCutoff <= passed)

\* No step breaks that, however much there is to archive.
LEMMA RawInTimeKept ==
  ASSUME Typed, RawInTime, [Next]_vars
  PROVE  RawInTime'
<1>1. /\ passed \in Int /\ RawCutoff \in Int /\ \A s \in accepted : s \in Int
  BY Cutoffs, BucketsOf DEF Typed
<1>2. \A s \in accepted : s < passed \/ s \in raw
  BY DEF RawInTime, Waiting
<1>3. ASSUME NEW s \in Samples, Store(s) PROVE RawInTime'
  BY <1>2, <1>3 DEF Store, RawInTime, Waiting, RawCutoff
<1>4. CASE RollMinutes
  <2>1. /\ UNCHANGED <<raw, accepted, now, policy>>
        /\ passed' = IF RawCutoff > passed THEN RawCutoff ELSE passed
    BY <1>4 DEF RollMinutes
  <2>2. passed <= passed' /\ RawCutoff <= passed' /\ RawCutoff' = RawCutoff /\ passed' \in Int
    BY <1>1, <2>1 DEF RawCutoff
  <2>3. Waiting'
    BY <1>1, <1>2, <2>1, <2>2 DEF Waiting
  <2> QED
    BY <2>2, <2>3 DEF RawInTime
<1>5. CASE PruneRaw
  <2>1. /\ UNCHANGED <<accepted, passed, now, policy>> /\ pc \in AfterRollMinutes
        /\ raw' = {s \in raw : s >= RawCutoff}
    BY <1>5 DEF PruneRaw, observers, AfterRollMinutes, Steps
  <2>2. RawCutoff <= passed /\ RawCutoff' = RawCutoff
    BY <2>1 DEF RawInTime, RawCutoff
  <2>3. Waiting'
    BY <1>1, <1>2, <2>1, <2>2 DEF Waiting
  <2> QED
    BY <2>1, <2>2, <2>3 DEF RawInTime
<1>6. CASE UNCHANGED <<raw, accepted, passed, now, policy>> /\ (pc' \in AfterRollMinutes => pc \in AfterRollMinutes)
  BY <1>6 DEF RawInTime, Waiting, RawCutoff
<1>7. CASE Tick \/ Begin \/ Crash \/ Fail \/ NotArchived \/ ArchiveFails \/ UNCHANGED vars
  <2>1. UNCHANGED <<raw, accepted, passed>>
    BY <1>7 DEF Tick, Begin, Crash, Fail, NotArchived, ArchiveFails, vars, tiers, observers
  <2>2. \/ pc' \in {"idle", "rollMinutes"}
        \/ UNCHANGED <<now, policy>> /\ (pc' \in AfterRollMinutes => pc \in AfterRollMinutes)
    BY <1>7 DEF Tick, Begin, Crash, Fail, NotArchived, ArchiveFails, vars, AfterError,
       AfterArchiveError, AfterRollMinutes, Steps
  <2> QED
    BY <2>1, <2>2 DEF RawInTime, Waiting, RawCutoff, AfterRollMinutes
<1>8. CASE RollFives \/ WriteMinutes \/ WriteFives \/ DeleteMinutes \/ DeleteFives \/ PruneMinutes
           \/ PruneFives \/ \E f \in files : Restore(f)
  <2>1. UNCHANGED <<raw, accepted, passed, now, policy>>
    BY <1>8 DEF RollFives, Write, WriteMinutes, WriteFives, DeleteMinutes, DeleteFives, PruneMinutes,
       PruneFives, Restore, tiers, observers
  <2>2. pc' \in AfterRollMinutes => pc \in AfterRollMinutes
    BY <1>8 DEF RollFives, Write, WriteMinutes, WriteFives, DeleteMinutes, DeleteFives, PruneMinutes,
       PruneFives, Restore, AfterRollMinutes, Steps
  <2> QED
    BY <1>6, <2>1, <2>2
<1> QED
  BY <1>3, <1>4, <1>5, <1>7, <1>8 DEF Next

\* What a window over a fresh sample, or over one in a rollup tier, is answered.
LEMMA AnsweredNow ==
  ASSUME Typed, Waiting, Timely, NEW s \in accepted
  PROVE  /\ Fresh(s) => \A from \in 0..s, to \in {s, now} : Nonempty(from, to)
         /\ InMinuteTier(s) =>
              \A from \in 0..MinuteOf(s) : from <= RawCutoff + Hour =>
                \A to \in s..(from + MinuteSpan) : Nonempty(from, to)
         /\ InFiveTier(s) =>
              \A from \in 0..FiveOf(s) : \A to \in {from + MinuteSpan + 1, now} :
                s <= to /\ to - from > MinuteSpan => Nonempty(from, to)
<1>1. /\ Typed /\ s \in Samples /\ raw \subseteq Samples /\ passed \in Int
      /\ Sound(minute, Minutes, Minutely) /\ Sound(five, Fives, Fively)
  BY DEF Typed
<1>2. /\ s \in Nat /\ now \in Nat /\ RawCutoff \in Int /\ s <= now
      /\ MinuteOf(s) \in Minutes /\ FiveOf(s) \in Fives
      /\ MinuteOf(s) \in Int /\ FiveOf(s) \in Int /\ FiveOf(s) <= MinuteOf(s) /\ MinuteOf(s) <= s
  BY <1>1, BucketsOf, Cutoffs DEF Timely
<1>3. Hour \in Nat /\ MinuteSpan \in Nat /\ Hour <= MinuteSpan /\ Limits \subseteq Nat \ {0}
  BY HistoryAssumption
<1>5. ASSUME Fresh(s), NEW from \in 0..s, NEW to \in {s, now}, NEW limit \in Limits
      PROVE  Metrics(Asked(from, to, "auto", limit)).of # {}
  <2> DEFINE q == Asked(from, to, "auto", limit)
  <2>1. /\ q.resolution = "auto" /\ q.from = from /\ q.to = to /\ q.limit \in Nat \ {0}
        /\ Covered(q).from = (IF from < RawCutoff THEN RawCutoff ELSE from)
        /\ Covered(q).to = to /\ Covered(q).limit \in Nat \ {0}
    BY <1>3 DEF Asked, Covered
  <2> HIDE DEF q
  <2>2. s \in raw
    BY <1>2, <1>1, <1>5 DEF Waiting, Fresh
  <2>3. QueryRange(q) # {}
    BY <1>1, <1>2, <2>1, <2>2, RawAnswered
  <2>4. QueryRange(Covered(q)) # {}
    <3>1. Covered(q).from <= s /\ s <= Covered(q).to
      BY <1>2, <1>5, <2>1 DEF Fresh
    <3> QED
      BY <1>1, <2>1, <2>2, <3>1, RawAnswered
  <2>5. q.to > RawCutoff
    BY <1>2, <1>5, <2>1 DEF Fresh
  <2>6. Metrics(q).of # {}
    BY <2>3, <2>4, <2>5, MetricsAnswer
  <2> QED
    BY <2>6 DEF q
<1>6. ASSUME InMinuteTier(s), NEW from \in 0..MinuteOf(s), from <= RawCutoff + Hour,
             NEW to \in s..(from + MinuteSpan), NEW limit \in Limits
      PROVE  Metrics(Asked(from, to, "auto", limit)).of # {}
  <2> DEFINE q == Asked(from, to, "auto", limit)
  <2>1. q.resolution = "auto" /\ q.from = from /\ q.to = to /\ q.limit \in Nat \ {0}
    BY <1>3 DEF Asked
  <2> HIDE DEF q
  <2>2. minute[MinuteOf(s)].of # {} /\ q.from <= MinuteOf(s) /\ MinuteOf(s) <= q.to
    BY <1>2, <1>6, <2>1 DEF InMinuteTier
  <2>3. \E b \in RollupsRange(minute, q) : minute[b].of # {}
    BY <1>1, <1>2, <2>1, <2>2, TiersAnswered
  <2>4. Resolved(q) = "1m"
    <3>1. ~ (q.from > RawCutoff + Hour) /\ q.to - q.from <= MinuteSpan
      BY <1>2, <1>3, <1>6, <2>1
    <3> QED
      BY <2>1, <3>1, ResolvedTier
  <2>5. Metrics(q).of # {}
    BY <2>3, <2>4, MetricsAnswer
  <2> QED
    BY <2>5 DEF q
<1>7. ASSUME InFiveTier(s), NEW from \in 0..FiveOf(s), NEW to \in {from + MinuteSpan + 1, now},
             s <= to, to - from > MinuteSpan, NEW limit \in Limits
      PROVE  Metrics(Asked(from, to, "auto", limit)).of # {}
  <2> DEFINE q == Asked(from, to, "auto", limit)
  <2>1. q.resolution = "auto" /\ q.from = from /\ q.to = to /\ q.limit \in Nat \ {0}
    BY <1>3 DEF Asked
  <2> HIDE DEF q
  <2>2. five[FiveOf(s)].of # {} /\ q.from <= FiveOf(s) /\ FiveOf(s) <= q.to
    BY <1>2, <1>3, <1>7, <2>1 DEF InFiveTier
  <2>3. \E b \in RollupsRange(five, q) : five[b].of # {}
    BY <1>1, <1>2, <2>1, <2>2, TiersAnswered
  <2>4. Resolved(q) = "5m"
    <3>1. ~ (q.to - q.from <= Hour) /\ ~ (q.to - q.from <= MinuteSpan)
      BY <1>2, <1>3, <1>7, <2>1
    <3> QED
      BY <2>1, <3>1, ResolvedTier
  <2>5. Metrics(q).of # {}
    BY <2>3, <2>4, MetricsAnswer
  <2> QED
    BY <2>5 DEF q
<1> QED
  BY <1>5, <1>6, <1>7 DEF Nonempty

\* The limit that an export reads with, and what it asks for.
LEMMA ExportAsks ==
  ASSUME NEW limit \in Nat \ {0}, NEW from, NEW tier \in {"1m", "5m"}
  PROVE  /\ ExportLimit(limit) \in Nat \ {0}
         /\ Export(Asked(from, now, tier, limit)) =
              RollupAnswer(Asked(from, now, tier, ExportLimit(limit)), tier)
<1>1. ExportLimit(limit) \in Nat \ {0}
  BY HistoryAssumption DEF ExportLimit
<1>2. [Asked(from, now, tier, limit) EXCEPT !.limit = ExportLimit(@)] =
        Asked(from, now, tier, ExportLimit(limit))
  BY DEF Asked
<1>3. Asked(from, now, tier, ExportLimit(limit)).resolution = tier
  BY DEF Asked
<1> QED
  BY <1>1, <1>2, <1>3 DEF Export

\* What is kept and no longer raw is within reach of the exports of a rollup tier.
LEMMA ExportedNow ==
  ASSUME KeptInv, Timely, NEW s \in accepted, Kept(s)
  PROVE  Exported(s)
<1>1. /\ Typed /\ s \in Samples /\ horizon \in Int
      /\ Sound(minute, Minutes, Minutely) /\ Sound(five, Fives, Fively)
  BY DEF KeptInv, Typed
<1>2. /\ s \in Nat /\ now \in Nat /\ s <= now
      /\ MinuteOf(s) \in Minutes /\ FiveOf(s) \in Fives
      /\ MinuteOf(s) <= now /\ FiveOf(s) <= now
  <2>1. /\ s \in Nat /\ now \in Nat /\ s <= now
        /\ MinuteOf(s) \in Int /\ FiveOf(s) \in Int /\ FiveOf(s) <= MinuteOf(s) /\ MinuteOf(s) <= s
    BY <1>1, BucketsOf, Cutoffs DEF Timely
  <2> QED
    BY <1>1, <2>1, BucketsOf
<1>3. s \in InMinutes \cup InFives
  BY <1>1 DEF KeptInv, Safe, Clean, Kept
<1>4. Limits \subseteq Nat \ {0}
  BY HistoryAssumption
<1>5. CASE s \in InMinutes
  <2>1. s \in minute[MinuteOf(s)].of
    BY <1>1, <1>5 DEF InMinutes, Held, Minutely
  <2>2. RowOf(s, "1m") = MinuteOf(s)
    BY DEF RowOf
  <2>3. ASSUME NEW limit \in Limits, NEW from \in 0..MinuteOf(s),
               ~(Cardinality(Ahead(s, "1m", from)) >= Clamped(ExportLimit(limit)))
        PROVE  s \in Export(Asked(from, now, "1m", limit)).of
    <3> DEFINE q == Asked(from, now, "1m", ExportLimit(limit))
    <3>1. Ahead(s, "1m", from) = {o \in Present(minute) : from <= o /\ o < MinuteOf(s)}
      BY <2>2 DEF Ahead
    <3>2. ExportLimit(limit) \in Nat \ {0}
      BY <1>4, ExportAsks
    <3>3. MinuteOf(s) \in RollupsRange(minute, q)
      BY <1>1, <1>2, <2>1, <2>3, <3>1, <3>2, ExportedRow, BucketNumbers
    <3>4. Export(Asked(from, now, "1m", limit)) = RollupAnswer(q, "1m")
      BY <1>4, ExportAsks
    <3> HIDE DEF q
    <3> QED
      BY <2>1, <3>3, <3>4 DEF RollupAnswer
  <2> QED
    BY <2>2, <2>3 DEF Exported
<1>6. CASE s \in InFives
  <2>1. s \in five[FiveOf(s)].of
    BY <1>1, <1>6 DEF InFives, Held, Fively
  <2>2. RowOf(s, "5m") = FiveOf(s)
    BY DEF RowOf
  <2>3. ASSUME NEW limit \in Limits, NEW from \in 0..FiveOf(s),
               ~(Cardinality(Ahead(s, "5m", from)) >= Clamped(ExportLimit(limit)))
        PROVE  s \in Export(Asked(from, now, "5m", limit)).of
    <3> DEFINE q == Asked(from, now, "5m", ExportLimit(limit))
    <3>1. Ahead(s, "5m", from) = {o \in Present(five) : from <= o /\ o < FiveOf(s)}
      BY <2>2 DEF Ahead
    <3>2. ExportLimit(limit) \in Nat \ {0}
      BY <1>4, ExportAsks
    <3>3. FiveOf(s) \in RollupsRange(five, q)
      BY <1>1, <1>2, <2>1, <2>3, <3>1, <3>2, ExportedRow, BucketNumbers
    <3>4. Export(Asked(from, now, "5m", limit)) = RollupAnswer(q, "5m")
      BY <1>4, ExportAsks
    <3> HIDE DEF q
    <3> QED
      BY <2>1, <3>3, <3>4 DEF RollupAnswer
  <2> QED
    BY <2>2, <2>3 DEF Exported
<1> QED
  BY <1>3, <1>5, <1>6

\* A window over a stored sample is not answered empty by the tier that the server
\* picks (timerange.go, metrics_range.go), between whatever steps of a pass, and
\* however many rows there are.
THEOREM WindowsAnswered == Spec => []Windows
<1>1. Init => Typed /\ RawInTime /\ Timely
  BY InitTyped DEF Init, RawInTime, Waiting, Timely, AfterRollMinutes
<1>2. Typed /\ RawInTime /\ Timely /\ [Next]_vars => Typed' /\ RawInTime' /\ Timely'
  BY NextTyped, RawInTimeKept, TimelyKept
<1>3. Typed /\ RawInTime /\ Timely => Windows
  BY AnsweredNow DEF Windows, RawInTime
<1> QED
  BY <1>1, <1>2, <1>3, PTL DEF Spec

\* And no kept sample is out of reach of the exports of the rollup tiers (export.go),
\* however many rows there are and whatever limits, if no pass had more rows to archive
\* than it reads.
THEOREM TiersAnswer == Spec /\ []Fits => []Answered
<1>1. Init => KeptInv /\ Timely
  <2>1. Init => Timely
    BY DEF Init, Timely
  <2> QED
    BY <2>1, InitKept
<1>2. KeptInv /\ Timely /\ Fits /\ [Next]_vars => KeptInv' /\ Timely'
  BY NextKept, TimelyKept DEF KeptInv
<1>3. KeptInv /\ Timely => Exports
  BY ExportedNow DEF Exports
<1>4. Exports /\ Windows => Answered
  BY DEF Answered
<1> QED
  BY <1>1, <1>2, <1>3, <1>4, WindowsAnswered, PTL DEF Spec
=============================================================================
