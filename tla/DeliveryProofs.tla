--------------------------- MODULE DeliveryProofs ---------------------------
(* Proofs about Delivery for any capacity, batch size and number of samples *)
(* and faults that satisfy DeliveryAssumption.                              *)
EXTENDS Delivery, SequenceTheorems, FiniteSetTheorems, TLAPS

-----------------------------------------------------------------------------
(* The parts of a spool file.                                              *)

\* Slack is at least one sample.
LEMMA SlackType == Slack \in Nat \ {0}
BY DeliveryAssumption DEF Slack

\* Oldest takes a head of the file.
LEMMA OldestHead ==
  ASSUME NEW S, NEW s \in Seq(S), NEW n \in Nat
  PROVE  /\ Oldest(n, s) \in Seq(S)
         /\ Len(Oldest(n, s)) <= Len(s)
         /\ \A i \in 1..Len(Oldest(n, s)) : Oldest(n, s)[i] = s[i]
<1> DEFINE m == IF n < Len(s) THEN n ELSE Len(s)
<1>1. m \in Nat /\ m <= Len(s)
  BY LenProperties
<1>2. \A i \in 1..m : s[i] \in S
  BY <1>1, ElementOfSeq, LenProperties
<1>3. /\ SubSeq(s, 1, m) \in Seq(S)
      /\ Len(SubSeq(s, 1, m)) = IF 1 <= m THEN m - 1 + 1 ELSE 0
      /\ \A i \in 1..m - 1 + 1 : SubSeq(s, 1, m)[i] = s[1 + i - 1]
  BY <1>1, <1>2, SubSeqProperties
<1>4. Len(SubSeq(s, 1, m)) = m
  BY <1>1, <1>3
<1>5. \A i \in 1..m : SubSeq(s, 1, m)[i] = s[i]
  BY <1>1, <1>3
<1>6. Oldest(n, s) = SubSeq(s, 1, m)
  BY DEF Oldest
<1> QED
  BY <1>1, <1>3, <1>4, <1>5, <1>6

\* Dropping the oldest n keeps the rest, in order, whichever way it is written.
LEMMA WithoutRest ==
  ASSUME NEW S, NEW s \in Seq(S), NEW n \in Nat, n <= Len(s)
  PROVE  /\ Without(n, s) \in Seq(S)
         /\ Without(n, s) = SubSeq(s, n + 1, Len(s))
         /\ Len(Without(n, s)) <= Len(s)
<1>1. Len(s) \in Nat /\ \A i \in n + 1..Len(s) : s[i] \in S
  BY ElementOfSeq, LenProperties
<1>2. /\ SubSeq(s, n + 1, Len(s)) \in Seq(S)
      /\ Len(SubSeq(s, n + 1, Len(s))) = IF n + 1 <= Len(s) THEN Len(s) - (n + 1) + 1 ELSE 0
  BY <1>1, SubSeqProperties
<1>3. n >= Len(s) => SubSeq(s, n + 1, Len(s)) = <<>>
  BY <1>1, SubSeqEmpty
<1>4. Without(n, s) = SubSeq(s, n + 1, Len(s))
  BY <1>3 DEF Without
<1> QED
  BY <1>1, <1>2, <1>4

\* Compaction keeps the newest n and no more.
LEMMA NewestTail ==
  ASSUME NEW S, NEW s \in Seq(S), NEW n \in Nat
  PROVE  /\ Newest(n, s) \in Seq(S)
         /\ Len(Newest(n, s)) <= n
<1>1. CASE Len(s) > n
  <2>1. Len(s) \in Nat /\ \A i \in Len(s) - n + 1..Len(s) : s[i] \in S
    BY <1>1, ElementOfSeq, LenProperties
  <2>2. /\ SubSeq(s, Len(s) - n + 1, Len(s)) \in Seq(S)
        /\ Len(SubSeq(s, Len(s) - n + 1, Len(s)))
             = IF Len(s) - n + 1 <= Len(s) THEN Len(s) - (Len(s) - n + 1) + 1 ELSE 0
    BY <2>1, SubSeqProperties
  <2>3. Newest(n, s) = SubSeq(s, Len(s) - n + 1, Len(s))
    BY <1>1 DEF Newest
  <2> QED
    BY <2>1, <2>2, <2>3
<1>2. CASE ~(Len(s) > n)
  BY <1>2, LenProperties DEF Newest
<1> QED
  BY <1>1, <1>2

-----------------------------------------------------------------------------
(* What each side does to the other's state.                               *)

\* A batch served, early or late: the database only gains, only samples of the
\* batch, and an ok answers for all of them.
LEMMA Served ==
  ASSUME TypeOK, NEW batch \in Seq(1..collected), NEW status, Ingest(batch, status)
  PROVE  /\ copies' \in [Samples -> Nat]
         /\ refused' \subseteq Samples
         /\ evaluated' \in 0..MaxSamples
         /\ faults' \in {faults, faults + 1}
         /\ faults' \in 0..MaxFaults
         /\ \A s \in Samples : copies'[s] >= copies[s]
         /\ \A s \in Samples \ 1..collected : copies'[s] = copies[s]
         /\ refused \subseteq refused'
         /\ refused' \subseteq refused \cup 1..collected
         /\ status = "ok" =>
              \A i \in 1..Len(batch) : copies'[batch[i]] > 0 \/ batch[i] \in refused'
<1>1. Range(batch) \subseteq 1..collected /\ 1..collected \subseteq Samples
  BY RangeOfSeq, DeliveryAssumption DEF TypeOK, Samples
<1>2. \A i \in 1..Len(batch) : batch[i] \in Range(batch)
  BY RangeEquality
<1>3. ASSUME NEW stored \in SUBSET Valid(batch), Save(batch, stored)
      PROVE  /\ copies' \in [Samples -> Nat]
             /\ refused' \subseteq Samples
             /\ evaluated' \in 0..MaxSamples
             /\ \A s \in Samples : copies'[s] >= copies[s]
             /\ \A s \in Samples \ 1..collected : copies'[s] = copies[s]
             /\ refused \subseteq refused'
             /\ refused' \subseteq refused \cup 1..collected
             /\ \A i \in 1..Len(batch) : copies'[batch[i]] > 0 \/ batch[i] \in refused'
  <2>1. stored \subseteq 1..collected /\ Valid(batch) \subseteq 1..collected
    BY <1>1, <1>3 DEF Valid
  <2>2. copies' \in [Samples -> Nat]
    BY <1>3 DEF Save, TypeOK
  <2>3. \A s \in Samples : copies'[s] = IF s \in stored THEN copies[s] + 1 ELSE copies[s]
    BY <1>3 DEF Save
  <2>4. \A s \in Samples : copies[s] \in Nat
    BY DEF TypeOK
  <2>5. refused' = refused \cup (Range(batch) \ stored)
    BY <1>3 DEF Save
  <2>6. evaluated' \in 0..MaxSamples
    BY <1>1, <1>3, <2>1 DEF Save, TypeOK, Samples
  <2>7. \A i \in 1..Len(batch) : copies'[batch[i]] > 0 \/ batch[i] \in refused'
    BY <1>1, <1>2, <2>3, <2>4, <2>5
  <2>8. /\ \A s \in Samples : copies'[s] >= copies[s]
        /\ \A s \in Samples \ 1..collected : copies'[s] = copies[s]
    <3>1. ASSUME NEW s \in Samples
          PROVE  /\ copies'[s] >= copies[s]
                 /\ s \notin 1..collected => copies'[s] = copies[s]
      <4>1. copies[s] \in Nat /\ copies'[s] = IF s \in stored THEN copies[s] + 1 ELSE copies[s]
        BY <2>3, <2>4
      <4>2. CASE s \in stored
        BY <2>1, <4>1, <4>2
      <4>3. CASE s \notin stored
        BY <4>1, <4>3
      <4> QED
        BY <4>2, <4>3
    <3> QED
      BY <3>1
  <2>9. /\ refused' \subseteq Samples
        /\ refused \subseteq refused'
        /\ refused' \subseteq refused \cup 1..collected
    BY <1>1, <2>5 DEF TypeOK
  <2> QED
    BY <2>2, <2>6, <2>7, <2>8, <2>9
<1>4. faults' \in {faults, faults + 1} /\ faults' \in 0..MaxFaults
  BY DeliveryAssumption DEF Ingest, Fault, TypeOK
<1>5. CASE UNCHANGED serverVars /\ status # "ok"
  <2>1. copies' = copies /\ refused' = refused /\ evaluated' = evaluated
    BY <1>5 DEF serverVars
  <2>2. \A s \in Samples : copies[s] \in Nat
    BY DEF TypeOK
  <2> QED
    BY <1>4, <1>5, <2>1, <2>2 DEF TypeOK
<1>6. CASE \E stored \in SUBSET Valid(batch) : Save(batch, stored)
  BY <1>3, <1>4, <1>6
<1> QED
  BY <1>5, <1>6 DEF Ingest

\* The sample on a line of its own, and the file after an Enqueue.
LEMMA Spooled ==
  ASSUME IInv, Collect
  PROVE  /\ collected' \in 0..MaxSamples
         /\ 1..collected \subseteq 1..collected'
         /\ file \in Seq(1..collected')
         /\ Written \in Seq(1..collected')
         /\ Len(Written) = Len(file) + 1
         /\ Newest(Capacity, Written) \in Seq(1..collected')
         /\ Len(Newest(Capacity, Written)) <= Capacity
         /\ Len(file) \in Nat
         /\ Known \in Nat /\ Known <= Len(file) /\ Len(file) <= Known + faults
<1>1. collected \in Nat /\ collected' = collected + 1 /\ collected' \in 0..MaxSamples
  BY DeliveryAssumption DEF IInv, TypeOK, Collect
<1>2. file \in Seq(1..collected)
  BY DEF IInv, OnlyCollected
<1>3. 1..collected \subseteq 1..collected' /\ collected + 1 \in 1..collected'
  BY <1>1
<1>4. file \in Seq(1..collected')
  BY <1>2, <1>3, SeqMonotonic
<1>5. Written \in Seq(1..collected') /\ Len(Written) = Len(file) + 1
  BY <1>3, <1>4, AppendProperties DEF Written
<1>6. /\ Newest(Capacity, Written) \in Seq(1..collected')
      /\ Len(Newest(Capacity, Written)) <= Capacity
  BY <1>5, NewestTail, DeliveryAssumption
<1>7. Known \in Nat /\ Known <= Len(file) /\ Len(file) <= Known + faults
  BY <1>2, LenProperties, DeliveryAssumption
     DEF Known, IInv, TypeOK, CountAgrees, Unknown
<1> QED
  BY <1>1, <1>2, <1>3, <1>4, <1>5, <1>6, <1>7, LenProperties

-----------------------------------------------------------------------------
(* The invariant.                                                          *)

\* The end of a call leaves no batch, and at most one more request that may be
\* served late.
LEMMA CallEnds ==
  ASSUME IInv, EndCall
  PROVE  /\ sending' = <<>> /\ answer' = "none"
         /\ late' \subseteq [no : 0..MaxFaults, batch : Seq(Samples)]
         /\ \A m \in late' : m.batch \in Seq(1..collected)
         /\ \A S : sending' \in Seq(S) /\ Len(sending') = 0
<1>1. [no |-> faults, batch |-> sending] \in [no : 0..MaxFaults, batch : Seq(Samples)]
  BY DEF IInv, TypeOK
<1>2. sending \in Seq(1..collected)
  BY DEF IInv, OnlyCollected
<1>3. late \subseteq [no : 0..MaxFaults, batch : Seq(Samples)]
  BY DEF IInv, TypeOK
<1>4. \A m \in late : m.batch \in Seq(1..collected)
  BY DEF IInv, OnlyCollected
<1> QED
  BY <1>1, <1>2, <1>3, <1>4, EmptySeq DEF EndCall

\* The inductive invariant holds with an empty spool and an empty server.
LEMMA InitInv == Init => IInv
<1> SUFFICES ASSUME Init PROVE IInv
  OBVIOUS
<1>1. \A S : <<>> \in Seq(S) /\ Len(<<>>) = 0
  BY EmptySeq
<1>2. TypeOK
  <2>1. copies \in [Samples -> Nat]
    BY DEF Init
  <2>2. /\ collected \in 0..MaxSamples /\ evaluated \in 0..MaxSamples
        /\ faults \in 0..MaxFaults
    BY DeliveryAssumption DEF Init
  <2>3. file \in Seq(Samples) /\ sending \in Seq(Samples)
    BY <1>1 DEF Init
  <2> QED
    BY <2>1, <2>2, <2>3 DEF Init, TypeOK, Answers
<1>3. Bounded
  BY <1>1, SlackType, DeliveryAssumption DEF Init, Bounded
<1>4. CountAgrees /\ BatchIsHead /\ AnswerHolds /\ OnlyCollected
  BY <1>1 DEF Init, CountAgrees, BatchIsHead, AnswerHolds, OnlyCollected
<1> QED
  BY <1>2, <1>3, <1>4 DEF IInv

\* Appending a sample, failing to, or failing to compact.
LEMMA EnqueueInv ==
  ASSUME IInv, Enqueue \/ EnqueueFails \/ CompactFails
  PROVE  IInv'
<1>1. Collect
  BY DEF Enqueue, EnqueueFails, CompactFails
<1>2. UNCHANGED <<sending, answer, late, admitted, serverVars>> /\ sending = <<>>
  BY <1>1 DEF Collect
<1>3. faults' \in 0..MaxFaults /\ faults' \in {faults, faults + 1}
  BY DeliveryAssumption DEF Enqueue, EnqueueFails, CompactFails, Fault, IInv, TypeOK
<1>4. file' \in Seq(1..collected')
  BY <1>1, Spooled DEF Enqueue, EnqueueFails, CompactFails
<1>5. 1..collected' \subseteq Samples /\ bad' \subseteq Samples
  BY <1>1, Spooled, DeliveryAssumption DEF Collect, IInv, TypeOK, Samples
<1>6. Len(file) \in Nat /\ Len(Written) = Len(file) + 1 /\ Known \in Nat
      /\ Known <= Len(file) /\ Len(file) <= Known + faults
      /\ Len(Newest(Capacity, Written)) \in Nat /\ Len(Newest(Capacity, Written)) <= Capacity
  BY <1>1, Spooled, LenProperties
<1>7. /\ count' \in Nat \cup {Unknown} /\ torn' \in BOOLEAN
      /\ CountAgrees' /\ Bounded'
  <2> DEFINE limit == Capacity + Slack
  <2>1. limit \in Nat /\ Capacity \in Nat /\ Capacity < limit /\ faults \in Nat /\ Unknown = -1
        /\ Len(file) <= limit + faults
    BY SlackType, DeliveryAssumption DEF IInv, TypeOK, Bounded, Unknown
  <2>2. CASE Enqueue
    <3>1. Overflows <=> Known + 1 > limit
      BY DEF Overflows
    <3>2. /\ file' = IF Known + 1 > limit THEN Newest(Capacity, Written) ELSE Written
          /\ count' = IF Known + 1 > limit THEN Len(file') ELSE Known + 1
          /\ torn' = FALSE /\ faults' = faults
      BY <2>2, <3>1 DEF Enqueue
    <3> HIDE DEF limit
    <3>3. /\ count' \in Nat
          /\ count' <= Len(file') /\ Len(file') <= count' + faults'
          /\ Len(file') <= limit + faults'
      <4>1. CASE Known + 1 > limit
        BY <1>6, <2>1, <3>2, <4>1
      <4>2. CASE ~(Known + 1 > limit)
        BY <1>6, <2>1, <3>2, <4>2
      <4> QED
        BY <4>1, <4>2
    <3> QED
      BY <3>2, <3>3 DEF limit, CountAgrees, Bounded, Slack
  <2>3. CASE EnqueueFails
    <3>1. /\ file' \in {file, Written} /\ torn' \in BOOLEAN
          /\ count' \in {Known, Unknown} /\ faults' = faults + 1
      BY <2>3 DEF EnqueueFails, Fault
    <3> HIDE DEF limit
    <3>2. /\ count' \in Nat \cup {Unknown}
          /\ count' # Unknown => count' <= Len(file') /\ Len(file') <= count' + faults'
          /\ Len(file') <= limit + faults'
      BY <1>6, <2>1, <3>1
    <3> QED
      BY <3>1, <3>2 DEF limit, CountAgrees, Bounded, Slack, Unknown
  <2>4. CASE CompactFails
    <3>1. /\ file' = Written /\ torn' = FALSE
          /\ count' \in {Known + 1, Unknown} /\ faults' = faults + 1
      BY <2>4 DEF CompactFails, Fault
    <3> HIDE DEF limit
    <3>2. /\ count' \in Nat \cup {Unknown}
          /\ count' # Unknown => count' <= Len(file') /\ Len(file') <= count' + faults'
          /\ Len(file') <= limit + faults'
      BY <1>6, <2>1, <3>1
    <3> QED
      BY <3>1, <3>2 DEF limit, CountAgrees, Bounded, Slack, Unknown
  <2> QED
    BY <2>2, <2>3, <2>4
<1>8. OnlyCollected'
  <2>1. \A s \in Seq(1..collected) : s \in Seq(1..collected')
    BY <1>1, Spooled, SeqMonotonic
  <2> QED
    BY <1>2, <1>4, <2>1 DEF IInv, OnlyCollected
<1>9. TypeOK'
  <2>1. file' \in Seq(Samples)
    BY <1>4, <1>5, SeqMonotonic
  <2> QED
    BY <1>1, <1>2, <1>3, <1>5, <1>7, <2>1, Spooled DEF IInv, TypeOK, serverVars
<1>10. BatchIsHead' /\ AnswerHolds'
  BY <1>2, <1>4, EmptySeq, LenProperties DEF IInv, BatchIsHead, AnswerHolds, serverVars
<1> QED
  BY <1>7, <1>8, <1>9, <1>10 DEF IInv

\* A flush puts the head of the spool on its way.
LEMMA FlushInv == ASSUME IInv, Flush PROVE IInv'
<1>1. /\ sending' = Oldest(BatchSize, file)
      /\ UNCHANGED <<agentVars, bad, answer, late, admitted, serverVars, faults>>
      /\ sending = <<>>
  BY DEF Flush
<1>2. /\ sending' \in Seq(1..collected)
      /\ Len(sending') <= Len(file)
      /\ \A i \in 1..Len(sending') : sending'[i] = file[i]
  BY <1>1, OldestHead, DeliveryAssumption DEF IInv, OnlyCollected
<1>3. sending' \in Seq(Samples)
  BY <1>1, OldestHead, DeliveryAssumption DEF IInv, TypeOK
<1>4. answer = "none"
  BY <1>1 DEF IInv, AnswerHolds
<1>5. UNCHANGED <<collected, file, torn, count, copies, refused, evaluated>>
  BY <1>1 DEF agentVars, serverVars
<1>6. TypeOK'
  BY <1>1, <1>3, <1>5 DEF IInv, TypeOK
<1>7. Bounded' /\ CountAgrees'
  BY <1>1, <1>5 DEF IInv, Bounded, CountAgrees
<1>8. BatchIsHead' /\ AnswerHolds' /\ OnlyCollected'
  BY <1>1, <1>2, <1>4, <1>5 DEF IInv, BatchIsHead, AnswerHolds, OnlyCollected
<1> QED
  BY <1>6, <1>7, <1>8 DEF IInv

\* An acknowledged batch leaves the spool.
LEMMA CommitFile ==
  ASSUME IInv
  PROVE  LET n == Len(sending)
         IN  /\ n \in Nat /\ n <= Len(file)
             /\ Committed(n) \in Seq(1..collected)
             /\ Committed(n) \in Seq(Samples)
             /\ Committed(n) = SubSeq(file, n + 1, Len(file))
             /\ CommittedCount(n) = Len(Committed(n))
             /\ Len(Committed(n)) \in Nat
             /\ Len(Committed(n)) <= Len(file)
<1> DEFINE n == Len(sending)
<1>1. n \in Nat /\ n <= Len(file) /\ file \in Seq(1..collected) /\ file \in Seq(Samples)
  BY LenProperties DEF IInv, BatchIsHead, OnlyCollected, TypeOK
<1>2. Committed(n) = Without(n, file) /\ CommittedCount(n) = Len(Committed(n))
  BY DEF Committed, CommittedCount
<1> HIDE DEF n
<1>3. /\ Without(n, file) \in Seq(1..collected)
      /\ Without(n, file) \in Seq(Samples)
      /\ Without(n, file) = SubSeq(file, n + 1, Len(file))
      /\ Len(Without(n, file)) <= Len(file)
  BY <1>1, WithoutRest
<1>4. Len(Without(n, file)) \in Nat
  BY <1>3, LenProperties
<1> QED
  BY <1>1, <1>2, <1>3, <1>4 DEF n

\* However a call ends, with the spool rewritten or left alone.
LEMMA EndInv ==
  ASSUME IInv, TakeReply \/ CommitFails \/ TimeOut \/ GiveUp \/ Crash
  PROVE  IInv'
<1>1. /\ EndCall
      /\ UNCHANGED <<collected, bad, admitted, serverVars>>
      /\ faults' \in {faults, faults + 1} /\ faults' \in 0..MaxFaults
      /\ \/ /\ UNCHANGED <<file, torn>>
            /\ count' \in {count, Unknown}
         \/ /\ file' = Committed(Len(sending))
            /\ count' = CommittedCount(Len(sending))
            /\ torn' = FALSE
  <2>1. faults \in 0..MaxFaults /\ MaxFaults \in Nat
    BY DeliveryAssumption DEF IInv, TypeOK
  <2>2. CASE TakeReply
    BY <2>1, <2>2 DEF TakeReply
  <2>3. CASE TimeOut
    BY <2>1, <2>3 DEF TimeOut, agentVars
  <2>4. CASE CommitFails \/ GiveUp \/ Crash
    <3>1. faults' = faults + 1 /\ faults < MaxFaults
      BY <2>4 DEF CommitFails, GiveUp, Crash, Fault
    <3>2. /\ EndCall
          /\ UNCHANGED <<collected, bad, admitted, serverVars, file, torn>>
          /\ count' \in {count, Unknown}
      BY <2>4 DEF CommitFails, GiveUp, Crash, agentVars
    <3> QED
      BY <2>1, <3>1, <3>2
  <2> QED
    BY <2>2, <2>3, <2>4
<1>2. faults \in Nat /\ Len(file) \in Nat /\ Capacity + Slack \in Nat
  BY SlackType, DeliveryAssumption, LenProperties DEF IInv, TypeOK
<1>3. /\ file' \in Seq(1..collected) /\ file' \in Seq(Samples) /\ torn' \in BOOLEAN
      /\ count' \in Nat \cup {Unknown}
      /\ Len(file') <= Len(file)
      /\ count' # Unknown => count' <= Len(file') /\ Len(file') <= count' + faults'
  <2>1. CASE UNCHANGED <<file, torn>> /\ count' \in {count, Unknown}
    <3>1. /\ count \in Nat \cup {Unknown}
          /\ count # Unknown => count <= Len(file) /\ Len(file) <= count + faults
      BY DEF IInv, CountAgrees, TypeOK
    <3>2. /\ file \in Seq(1..collected) /\ file \in Seq(Samples) /\ torn \in BOOLEAN
      BY DEF IInv, OnlyCollected, TypeOK
    <3> QED
      BY <1>1, <1>2, <2>1, <3>1, <3>2
  <2>2. CASE /\ file' = Committed(Len(sending))
             /\ count' = CommittedCount(Len(sending))
             /\ torn' = FALSE
    <3> DEFINE n == Len(sending)
    <3>1. /\ Committed(n) \in Seq(1..collected)
          /\ Committed(n) \in Seq(Samples)
          /\ CommittedCount(n) = Len(Committed(n))
          /\ Len(Committed(n)) \in Nat
          /\ Len(Committed(n)) <= Len(file)
      BY CommitFile
    <3>2. file' = Committed(n) /\ count' = CommittedCount(n) /\ torn' = FALSE
      BY <2>2
    <3>3. faults' \in Nat
      BY <1>1, <1>2
    <3> HIDE DEF n
    <3>4. torn' \in BOOLEAN
      BY <3>2
    <3>5. count' = Len(file') /\ Len(file') \in Nat /\ Len(file') <= Len(file)
      BY <3>1, <3>2
    <3>6. count' <= Len(file') /\ Len(file') <= count' + faults'
      BY <3>3, <3>5
    <3> QED
      BY <3>1, <3>2, <3>4, <3>5, <3>6
  <2> QED
    BY <1>1, <2>1, <2>2
<1>4. Len(file) <= Capacity + Slack + faults
  BY DEF IInv, Bounded
<1>5. Bounded' /\ CountAgrees'
  <2>1. Len(file') \in Nat
    BY <1>3, LenProperties
  <2>2. Len(file') <= Capacity + Slack + faults'
    BY <1>1, <1>2, <1>3, <1>4, <2>1
  <2> QED
    BY <1>3, <2>2 DEF Bounded, CountAgrees, Slack, Unknown
<1>6. /\ sending' = <<>> /\ answer' = "none"
      /\ late' \subseteq [no : 0..MaxFaults, batch : Seq(Samples)]
      /\ \A m \in late' : m.batch \in Seq(1..collected)
      /\ \A S : sending' \in Seq(S) /\ Len(sending') = 0
  BY <1>1, CallEnds
<1>7. TypeOK'
  BY <1>1, <1>3, <1>6 DEF IInv, TypeOK, serverVars, Answers
<1>8. BatchIsHead' /\ AnswerHolds' /\ OnlyCollected'
  <2>1. Len(file') \in Nat
    BY <1>3, LenProperties
  <2> QED
    BY <1>1, <1>3, <1>6, <2>1 DEF BatchIsHead, AnswerHolds, OnlyCollected
<1> QED
  BY <1>5, <1>7, <1>8 DEF IInv

\* A fault without a new sample disturbs no bound.
LEMMA FaultGrows ==
  ASSUME IInv, file' = file, count' \in {count, Unknown}, faults' \in {faults, faults + 1}
  PROVE  Bounded' /\ CountAgrees'
<1>1. faults \in Nat /\ Len(file) \in Nat /\ Capacity + Slack \in Nat
  BY SlackType, DeliveryAssumption, LenProperties DEF IInv, TypeOK
<1>2. /\ Len(file) <= Capacity + Slack + faults
      /\ count \in Nat \cup {Unknown}
      /\ count # Unknown => count <= Len(file) /\ Len(file) <= count + faults
  BY DEF IInv, Bounded, CountAgrees, TypeOK
<1>3. /\ Len(file) <= Capacity + Slack + faults'
      /\ count' # Unknown => count' <= Len(file) /\ Len(file) <= count' + faults'
  BY <1>1, <1>2
<1> QED
  BY <1>3 DEF Bounded, CountAgrees, Slack, Unknown

\* The server acts on the request under way.
LEMMA ServeCallInv == ASSUME IInv, ServeCall PROVE IInv'
<1>1. PICK status \in Answers : Ingest(sending, status) /\ answer' = status
  BY DEF ServeCall
<1>2. /\ sending # <<>>
      /\ UNCHANGED <<collected, file, torn, count, bad, sending, late, admitted>>
  BY DEF ServeCall, agentVars
<1>3. TypeOK /\ sending \in Seq(1..collected)
  BY DEF IInv, OnlyCollected
<1>4. /\ copies' \in [Samples -> Nat] /\ refused' \subseteq Samples
      /\ evaluated' \in 0..MaxSamples
      /\ faults' \in {faults, faults + 1} /\ faults' \in 0..MaxFaults
      /\ status = "ok" =>
           \A i \in 1..Len(sending) : copies'[sending[i]] > 0 \/ sending[i] \in refused'
  BY <1>1, <1>3, Served
<1>5. TypeOK'
  BY <1>1, <1>2, <1>4 DEF IInv, TypeOK
<1>6. Bounded' /\ CountAgrees'
  BY <1>2, <1>4, FaultGrows
<1>7. BatchIsHead' /\ AnswerHolds' /\ OnlyCollected'
  BY <1>1, <1>2, <1>4 DEF IInv, BatchIsHead, AnswerHolds, OnlyCollected
<1> QED
  BY <1>5, <1>6, <1>7 DEF IInv

\* The server acts on a request the agent gave up on.
LEMMA ServeLateInv == ASSUME IInv, ServeLate PROVE IInv'
<1>1. PICK m \in late : (\E status \in Answers : Ingest(m.batch, status)) /\ late' = late \ {m}
  BY DEF ServeLate
<1>2. PICK status \in Answers : Ingest(m.batch, status)
  BY <1>1
<1>3. UNCHANGED <<collected, file, torn, count, bad, sending, answer, admitted>>
  BY DEF ServeLate, agentVars
<1>4. TypeOK /\ m.batch \in Seq(1..collected)
  BY DEF IInv, OnlyCollected
<1>5. /\ copies' \in [Samples -> Nat] /\ refused' \subseteq Samples
      /\ evaluated' \in 0..MaxSamples
      /\ faults' \in {faults, faults + 1} /\ faults' \in 0..MaxFaults
      /\ \A s \in Samples : copies'[s] >= copies[s]
      /\ refused \subseteq refused'
  BY <1>2, <1>4, Served
<1>6. TypeOK'
  BY <1>1, <1>3, <1>5 DEF IInv, TypeOK
<1>7. Bounded' /\ CountAgrees'
  BY <1>3, <1>5, FaultGrows
<1>8. AnswerHolds'
  <2>1. ASSUME answer = "ok", NEW i \in 1..Len(sending)
        PROVE  copies'[sending[i]] > 0 \/ sending[i] \in refused'
    <3>1. sending[i] \in Samples
      BY ElementOfSeq DEF IInv, TypeOK
    <3>2. copies[sending[i]] > 0 \/ sending[i] \in refused
      BY <2>1 DEF IInv, AnswerHolds
    <3>3. copies[sending[i]] \in Nat /\ copies'[sending[i]] \in Nat
      BY <1>5, <3>1 DEF IInv, TypeOK
    <3> QED
      BY <1>5, <3>1, <3>2, <3>3
  <2> QED
    BY <1>3, <2>1 DEF IInv, AnswerHolds
<1>9. BatchIsHead' /\ OnlyCollected'
  BY <1>1, <1>3 DEF IInv, BatchIsHead, OnlyCollected
<1> QED
  BY <1>6, <1>7, <1>8, <1>9 DEF IInv

\* A lost request, and what happens around the two programs.
LEMMA SurroundingsInv ==
  ASSUME IInv, Lose \/ Revoke \/ Rejoin \/ Ripen
  PROVE  IInv'
<1>1. /\ UNCHANGED <<collected, file, torn, sending, late, copies, refused, evaluated>>
      /\ count' \in {count, Unknown}
      /\ answer' = answer \/ (sending # <<>> /\ answer' = "lost")
      /\ bad' \subseteq bad
      /\ admitted' \in {admitted, TRUE, FALSE}
      /\ faults' \in {faults, faults + 1} /\ faults' \in 0..MaxFaults
  <2>1. faults \in 0..MaxFaults /\ MaxFaults \in Nat
    BY DeliveryAssumption DEF IInv, TypeOK
  <2>2. CASE Lose
    <3>1. faults' = faults + 1 /\ faults < MaxFaults
      BY <2>2 DEF Lose, Fault
    <3> QED
      BY <2>1, <2>2, <3>1 DEF Lose, agentVars, serverVars
  <2>3. CASE Revoke \/ Rejoin
    BY <2>1, <2>3 DEF Revoke, Rejoin, agentVars, serverVars
  <2>4. CASE Ripen
    BY <2>1, <2>4 DEF Ripen, agentVars, serverVars
  <2> QED
    BY <2>2, <2>3, <2>4
<1>2. TypeOK'
  BY <1>1 DEF IInv, TypeOK, Answers
<1>3. Bounded' /\ CountAgrees'
  BY <1>1, FaultGrows
<1>4. BatchIsHead' /\ AnswerHolds' /\ OnlyCollected'
  BY <1>1 DEF IInv, BatchIsHead, AnswerHolds, OnlyCollected
<1> QED
  BY <1>2, <1>3, <1>4 DEF IInv

\* No step breaks the invariant.
LEMMA NextInv == ASSUME IInv, [Next]_vars PROVE IInv'
<1>1. CASE Enqueue \/ EnqueueFails \/ CompactFails
  BY <1>1, EnqueueInv
<1>2. CASE Flush
  BY <1>2, FlushInv
<1>3. CASE TakeReply \/ CommitFails \/ TimeOut \/ GiveUp \/ Crash
  BY <1>3, EndInv
<1>4. CASE ServeCall
  BY <1>4, ServeCallInv
<1>5. CASE ServeLate
  BY <1>5, ServeLateInv
<1>6. CASE Lose \/ Revoke \/ Rejoin \/ Ripen
  BY <1>6, SurroundingsInv
<1>7. CASE UNCHANGED vars
  BY <1>7 DEF vars, IInv, TypeOK, Bounded, CountAgrees, BatchIsHead, AnswerHolds,
              OnlyCollected, Slack, Samples, Answers, Unknown
<1> QED
  BY <1>1, <1>2, <1>3, <1>4, <1>5, <1>6, <1>7 DEF Next

\* Whatever fails, the spool, the request and the database stay consistent.
THEOREM Consistent == Spec => []IInv
<1>1. Init => IInv
  BY InitInv
<1>2. IInv /\ [Next]_vars => IInv'
  BY NextInv
<1> QED
  BY <1>1, <1>2, PTL DEF Spec

\* Every variable keeps its type.
THEOREM TypeCorrect == Spec => []TypeOK
<1>1. IInv => TypeOK
  BY DEF IInv
<1> QED
  BY <1>1, Consistent, PTL

\* The spool file never outgrows its capacity by more than its slack and one
\* sample for every failure.
THEOREM SpoolBounded == Spec => []Bounded
<1>1. IInv => Bounded
  BY DEF IInv
<1> QED
  BY <1>1, Consistent, PTL

-----------------------------------------------------------------------------
(* Refinement of Relay.                                                    *)

\* What the server does to the database is a step of Serve.
LEMMA KeptGrows ==
  ASSUME TypeOK,
         copies' \in [Samples -> Nat],
         \A s \in Samples : copies'[s] >= copies[s],
         \A s \in Samples \ 1..collected : copies'[s] = copies[s]
  PROVE  Kept \subseteq Kept' /\ Kept' \subseteq Kept \cup 1..collected
<1>1. ASSUME NEW s \in Samples, copies[s] > 0
      PROVE  copies'[s] > 0
  BY <1>1 DEF TypeOK
<1>2. ASSUME NEW s \in Samples, copies'[s] > 0, s \notin 1..collected
      PROVE  copies[s] > 0
  BY <1>2
<1>3. Samples' = Samples
  BY DEF Samples
<1> QED
  BY <1>1, <1>2, <1>3 DEF Kept

\* An appended sample is taken, with or without compaction, or missed because
\* something failed.
LEMMA EnqueueTakes ==
  ASSUME IInv, Enqueue \/ EnqueueFails \/ CompactFails
  PROVE  Abstract!Next
<1>1. /\ Collect
      /\ collected' = collected + 1
      /\ UNCHANGED serverVars
  BY DEF Enqueue, EnqueueFails, CompactFails, Collect
<1>2. UNCHANGED <<Kept, refused>>
  BY <1>1 DEF serverVars, Kept, Samples
<1>3. Written = Append(file, collected + 1)
  BY DEF Written
<1>4. Len(Written) \in Nat /\ Len(Written) = Len(file) + 1 /\ Len(file) \in Nat
  BY <1>1, Spooled, LenProperties
<1>5. CASE Enqueue
  <2>1. file' = Written \/ file' = Newest(Capacity, Written)
    BY <1>5 DEF Enqueue
  <2>2. \/ file' = Written
        \/ /\ Len(Written) > Capacity
           /\ file' = SubSeq(Written, Len(Written) - Capacity + 1, Len(Written))
    BY <2>1 DEF Newest
  <2>3. faults' = faults
    BY <1>5 DEF Enqueue
  <2>4. Abstract!Take
    BY <1>1, <1>2, <1>3, <2>2, <2>3 DEF Abstract!Take, Abstract!MayFail
  <2> QED
    BY <2>4 DEF Abstract!Next
<1>6. CASE EnqueueFails
  <2>1. faults' = faults + 1 /\ file' \in {file, Written}
    BY <1>6 DEF EnqueueFails, Fault
  <2>2. CASE file' = file
    BY <1>1, <1>2, <2>1, <2>2 DEF Abstract!Miss, Abstract!Next
  <2>3. CASE file' = Written
    <3>1. Abstract!Take
      BY <1>1, <1>2, <1>3, <2>1, <2>3 DEF Abstract!Take, Abstract!MayFail
    <3> QED
      BY <3>1 DEF Abstract!Next
  <2> QED
    BY <2>1, <2>2, <2>3
<1>7. CASE CompactFails
  <2>1. faults' = faults + 1 /\ file' = Written
    BY <1>7 DEF CompactFails, Fault
  <2>2. Abstract!Take
    BY <1>1, <1>2, <1>3, <2>1 DEF Abstract!Take, Abstract!MayFail
  <2> QED
    BY <2>2 DEF Abstract!Next
<1> QED
  BY <1>5, <1>6, <1>7

\* A step that leaves spool and database alone is a stutter or a mere failure.
LEMMA Idles ==
  ASSUME UNCHANGED <<collected, file, serverVars>>, faults' \in {faults, faults + 1}
  PROVE  Abstract!Serve
<1>1. UNCHANGED <<collected, file, Kept, refused>>
  BY DEF serverVars, Kept, Samples
<1> QED
  BY <1>1 DEF Abstract!Serve, Abstract!MayFail

\* An acknowledged batch is retired: every sample of it is kept or refused.
LEMMA AcknowledgedRetires ==
  ASSUME IInv, TakeReply, Acknowledged
  PROVE  Abstract!Retire
<1> DEFINE n == Len(sending)
<1>1. /\ sending # <<>>
      /\ \A i \in 1..n : copies[sending[i]] > 0 \/ sending[i] \in refused
      /\ \A i \in 1..n : sending[i] = file[i]
      /\ n <= Len(file)
  BY DEF IInv, AnswerHolds, BatchIsHead, Acknowledged
<1>2. \A i \in 1..n : sending[i] \in Samples
  BY ElementOfSeq DEF IInv, TypeOK
<1>3. n \in 1..Len(file)
  BY <1>1, EmptySeq, LenProperties DEF IInv, TypeOK
<1>4. \A i \in 1..n : file[i] \in Kept \cup refused
  BY <1>1, <1>2 DEF Kept
<1>5. file' = Committed(n) /\ Committed(n) = SubSeq(file, n + 1, Len(file))
  BY CommitFile DEF TakeReply
<1>6. UNCHANGED <<collected, Kept, refused>> /\ faults' = faults
  BY DEF TakeReply, serverVars, Kept, Samples
<1> HIDE DEF n
<1> QED
  BY <1>3, <1>4, <1>5, <1>6 DEF Abstract!Retire, Abstract!MayFail

\* Serving a request, early or late.
LEMMA ServingServes ==
  ASSUME IInv, NEW batch \in Seq(1..collected), NEW status, Ingest(batch, status),
         UNCHANGED agentVars
  PROVE  Abstract!Serve
<1>1. TypeOK
  BY DEF IInv
<1>2. /\ copies' \in [Samples -> Nat]
      /\ \A s \in Samples : copies'[s] >= copies[s]
      /\ \A s \in Samples \ 1..collected : copies'[s] = copies[s]
      /\ refused \subseteq refused'
      /\ refused' \subseteq refused \cup 1..collected
      /\ faults' \in {faults, faults + 1}
  BY <1>1, Served
<1>3. Kept \subseteq Kept' /\ Kept' \subseteq Kept \cup 1..collected
  BY <1>1, <1>2, KeptGrows
<1>4. UNCHANGED <<collected, file>>
  BY DEF agentVars
<1> QED
  BY <1>2, <1>3, <1>4 DEF Abstract!Serve, Abstract!MayFail

\* Every step of the program is a step of Relay or a stutter.
LEMMA StepRelays ==
  ASSUME IInv, [Next]_vars
  PROVE  [Abstract!Next]_(Abstract!vars)
<1>1. CASE Enqueue \/ EnqueueFails \/ CompactFails
  BY <1>1, EnqueueTakes
<1>2. CASE Flush
  BY <1>2, Idles DEF Flush, agentVars, Abstract!Next
<1>3. CASE TakeReply
  <2>1. CASE Acknowledged
    BY <1>3, <2>1, AcknowledgedRetires DEF Abstract!Next
  <2>2. CASE ~Acknowledged
    BY <1>3, <2>2, Idles DEF TakeReply, Abstract!Next
  <2> QED
    BY <2>1, <2>2
<1>4. CASE CommitFails \/ TimeOut \/ GiveUp \/ Crash
  BY <1>4, Idles DEF CommitFails, TimeOut, GiveUp, Crash, Fault, agentVars, Abstract!Next
<1>5. CASE ServeCall
  <2>1. PICK status \in Answers : Ingest(sending, status)
    BY <1>5 DEF ServeCall
  <2>2. sending \in Seq(1..collected) /\ UNCHANGED agentVars
    BY <1>5 DEF ServeCall, IInv, OnlyCollected
  <2> QED
    BY <2>1, <2>2, ServingServes DEF Abstract!Next
<1>6. CASE ServeLate
  <2>1. PICK m \in late : \E status \in Answers : Ingest(m.batch, status)
    BY <1>6 DEF ServeLate
  <2>2. m.batch \in Seq(1..collected) /\ UNCHANGED agentVars
    BY <1>6, <2>1 DEF ServeLate, IInv, OnlyCollected
  <2> QED
    BY <2>1, <2>2, ServingServes DEF Abstract!Next
<1>7. CASE Lose \/ Revoke \/ Rejoin \/ Ripen
  BY <1>7, Idles DEF Lose, Revoke, Rejoin, Ripen, Fault, agentVars, Abstract!Next
<1>8. CASE UNCHANGED vars
  BY <1>8 DEF vars, Abstract!vars, Kept, Samples
<1> QED
  BY <1>1, <1>2, <1>3, <1>4, <1>5, <1>6, <1>7, <1>8 DEF Next

\* The program implements Relay: no failure makes a sample leave the spool
\* unaccounted for.
THEOREM Implements == Spec => ImplementsRelay
<1>1. Init => Abstract!Init
  <2>1. Init => Kept = {}
    BY DEF Init, Kept
  <2> QED
    BY <2>1 DEF Init, Abstract!Init
<1>2. IInv /\ [Next]_vars => [Abstract!Next]_(Abstract!vars)
  BY StepRelays
<1> QED
  BY <1>1, <1>2, Consistent, PTL DEF Spec, ImplementsRelay, Abstract!Spec

-----------------------------------------------------------------------------
(* The order of samples in the spool.                                      *)

Ascending(s) == \A i, j \in 1..Len(s) : i < j => s[i] < s[j]

\* The head of s has come to x: it has x among its first BatchSize, or is past it.
Reached(x, s) == \/ \A i \in 1..Len(s) : x < s[i]
                 \/ \E i \in 1..Len(s) : i <= BatchSize /\ s[i] = x

\* Dropping the oldest leaves the order, and what the head has come to.
LEMMA TailOrdered ==
  ASSUME NEW s \in Seq(Nat), NEW n \in Nat, n <= Len(s), Ascending(s)
  PROVE  LET t == SubSeq(s, n + 1, Len(s))
         IN  /\ t \in Seq(Nat)
             /\ Len(t) = Len(s) - n
             /\ \A i \in 1..Len(t) : i + n \in 1..Len(s) /\ t[i] = s[i + n]
             /\ Ascending(t)
             /\ \A x \in Nat : Reached(x, s) => Reached(x, t)
<1> DEFINE t == SubSeq(s, n + 1, Len(s))
<1>1. Len(s) \in Nat /\ \A i \in 1..Len(s) : s[i] \in Nat
  BY ElementOfSeq, LenProperties
<1>2. /\ t \in Seq(Nat)
      /\ Len(t) = IF n + 1 <= Len(s) THEN Len(s) - (n + 1) + 1 ELSE 0
      /\ \A i \in 1..Len(s) - (n + 1) + 1 : t[i] = s[n + 1 + i - 1]
  <2>1. \A i \in n + 1..Len(s) : s[i] \in Nat
    BY <1>1
  <2> QED
    BY <1>1, <2>1, SubSeqProperties
<1>3. Len(t) = Len(s) - n
  BY <1>1, <1>2
<1>4. \A i \in 1..Len(t) : i + n \in 1..Len(s) /\ t[i] = s[i + n]
  BY <1>1, <1>2, <1>3
<1> HIDE DEF t
<1>5. Ascending(t)
  <2> SUFFICES ASSUME NEW i \in 1..Len(t), NEW j \in 1..Len(t), i < j
               PROVE  t[i] < t[j]
    BY DEF Ascending
  <2>1. i + n < j + n /\ i + n \in 1..Len(s) /\ j + n \in 1..Len(s)
    BY <1>1, <1>3, <1>4
  <2> QED
    BY <1>4, <2>1 DEF Ascending
<1>6. ASSUME NEW x \in Nat, Reached(x, s)
      PROVE  Reached(x, t)
  <2>1. CASE \A i \in 1..Len(s) : x < s[i]
    BY <1>4, <2>1 DEF Reached
  <2>2. CASE \E i \in 1..Len(s) : i <= BatchSize /\ s[i] = x
    <3>1. PICK i \in 1..Len(s) : i <= BatchSize /\ s[i] = x
      BY <2>2
    <3>2. CASE i <= n
      <4>1. \A j \in 1..Len(t) : s[i] < s[j + n]
        BY <1>1, <1>3, <1>4, <3>2 DEF Ascending
      <4> QED
        BY <1>4, <3>1, <4>1 DEF Reached
    <3>3. CASE n < i
      <4>1. i - n \in 1..Len(t) /\ i - n <= BatchSize /\ (i - n) + n = i
        BY <1>1, <1>3, <3>1, <3>3, DeliveryAssumption
      <4>2. t[i - n] = x
        BY <1>4, <3>1, <4>1
      <4> QED
        BY <4>1, <4>2 DEF Reached
    <3> QED
      BY <1>1, <3>2, <3>3
  <2> QED
    BY <1>6, <2>1, <2>2 DEF Reached
<1> QED
  BY <1>2, <1>3, <1>4, <1>5, <1>6 DEF t

\* Appending a newer sample does, too.
LEMMA AppendOrdered ==
  ASSUME NEW s \in Seq(Nat), NEW e \in Nat, Ascending(s), \A i \in 1..Len(s) : s[i] < e
  PROVE  LET t == Append(s, e)
         IN  /\ t \in Seq(Nat)
             /\ Len(t) = Len(s) + 1 /\ t[Len(s) + 1] = e
             /\ \A i \in 1..Len(s) : t[i] = s[i]
             /\ Ascending(t)
             /\ \A x \in Nat : x < e /\ Reached(x, s) => Reached(x, t)
<1> DEFINE t == Append(s, e)
<1>1. Len(s) \in Nat /\ \A i \in 1..Len(s) : s[i] \in Nat
  BY ElementOfSeq, LenProperties
<1>2. /\ t \in Seq(Nat) /\ Len(t) = Len(s) + 1 /\ t[Len(s) + 1] = e
      /\ \A i \in 1..Len(s) : t[i] = s[i]
  BY AppendProperties
<1> HIDE DEF t
<1>3. Ascending(t)
  <2> SUFFICES ASSUME NEW i \in 1..Len(t), NEW j \in 1..Len(t), i < j
               PROVE  t[i] < t[j]
    BY DEF Ascending
  <2>1. i \in 1..Len(s)
    BY <1>1, <1>2
  <2>2. CASE j \in 1..Len(s)
    BY <1>2, <2>1, <2>2 DEF Ascending
  <2>3. CASE j = Len(s) + 1
    BY <1>2, <2>1, <2>3
  <2>4. Len(t) = Len(s) + 1
    BY <1>2
  <2>5. j \in 1..Len(s) \/ j = Len(s) + 1
    BY <1>1, <2>4
  <2> QED
    BY <2>2, <2>3, <2>5
<1>4. ASSUME NEW x \in Nat, x < e, Reached(x, s)
      PROVE  Reached(x, t)
  <2>1. \A i \in 1..Len(t) : i \in 1..Len(s) \/ i = Len(s) + 1
    BY <1>1, <1>2
  <2>2. 1..Len(s) \subseteq 1..Len(t)
    BY <1>1, <1>2
  <2>3. CASE \A i \in 1..Len(s) : x < s[i]
    BY <1>2, <1>4, <2>1, <2>3 DEF Reached
  <2>4. CASE \E i \in 1..Len(s) : i <= BatchSize /\ s[i] = x
    BY <1>2, <2>2, <2>4 DEF Reached
  <2> QED
    BY <1>4, <2>3, <2>4 DEF Reached
<1> QED
  BY <1>2, <1>3, <1>4 DEF t

\* The spool is in order, the batch under way is its head, and the head has come to
\* whatever was evaluated or may still be served late.
InOrder ==
  /\ Ascending(file)
  /\ sending # <<>> => sending = Oldest(BatchSize, file)
  /\ evaluated <= collected /\ evaluated \notin bad
  /\ Reached(evaluated, file)
  /\ \A m \in late : \A i \in 1..Len(m.batch) : Reached(m.batch[i], file)

\* What the invariant says of numbers.
LEMMA Numbers ==
  ASSUME IInv
  PROVE  /\ collected \in Nat /\ collected <= MaxSamples /\ 1..collected \subseteq Samples
         /\ file \in Seq(Nat) /\ Len(file) \in Nat /\ \A i \in 1..Len(file) : file[i] \in 1..collected
         /\ Len(sending) \in Nat /\ \A i \in 1..Len(sending) : sending[i] \in 1..collected
         /\ \A m \in late : Len(m.batch) \in Nat
                            /\ \A i \in 1..Len(m.batch) : m.batch[i] \in 1..collected
         /\ evaluated \in Nat /\ faults \in Nat
<1>1. collected \in Nat /\ collected <= MaxSamples /\ evaluated \in Nat /\ faults \in Nat
  BY DeliveryAssumption DEF IInv, TypeOK
<1>2. file \in Seq(1..collected) /\ sending \in Seq(1..collected)
      /\ \A m \in late : m.batch \in Seq(1..collected)
  BY DEF IInv, OnlyCollected
<1>3. file \in Seq(Nat)
  <2>1. 1..collected \subseteq Nat
    BY <1>1
  <2> QED
    BY <1>2, <2>1, SeqMonotonic
<1>4. ASSUME NEW s \in Seq(1..collected)
      PROVE  Len(s) \in Nat /\ \A i \in 1..Len(s) : s[i] \in 1..collected
  BY ElementOfSeq, LenProperties
<1>5. 1..collected \subseteq Samples
  BY <1>1, DeliveryAssumption DEF Samples
<1> QED
  BY <1>1, <1>2, <1>3, <1>4, <1>5

\* The spool changes at its ends only: the oldest go, a newer one comes.
LEMMA FileMoves ==
  ASSUME IInv, Ascending(file), [Next]_vars
  PROVE  /\ Ascending(file')
         /\ \A x \in 0..collected : Reached(x, file) => Reached(x, file')
<1>1. /\ file \in Seq(Nat) /\ Len(file) \in Nat /\ collected \in Nat
      /\ \A i \in 1..Len(file) : file[i] < collected + 1
  <2>1. \A i \in 1..Len(file) : file[i] \in 1..collected
    BY Numbers
  <2> QED
    BY <2>1, Numbers
<1>2. CASE Enqueue \/ EnqueueFails \/ CompactFails
  <2>1. Written = Append(file, collected + 1)
    BY DEF Written
  <2>2. /\ Written \in Seq(Nat) /\ Ascending(Written)
        /\ \A x \in Nat : x < collected + 1 /\ Reached(x, file) => Reached(x, Written)
    <3>1. collected + 1 \in Nat
      BY <1>1
    <3> QED
      BY <1>1, <2>1, <3>1, AppendOrdered
  <2>3. \A x \in 0..collected : Reached(x, file) => Reached(x, Written)
    <3>1. \A x \in 0..collected : x \in Nat /\ x < collected + 1
      BY <1>1
    <3> QED
      BY <2>2, <3>1
  <2> HIDE DEF Written
  <2>4. CASE file' = Written
    BY <2>2, <2>3, <2>4
  <2>5. CASE file' = file
    BY <2>5
  <2>6. CASE file' = Newest(Capacity, Written) /\ Len(Written) > Capacity
    <3> DEFINE n == Len(Written) - Capacity
    <3>1. n \in Nat /\ n <= Len(Written)
      BY <2>2, <2>6, LenProperties, DeliveryAssumption
    <3>2. file' = SubSeq(Written, n + 1, Len(Written))
      BY <2>6 DEF Newest
    <3> HIDE DEF n
    <3>3. Ascending(file') /\ \A x \in Nat : Reached(x, Written) => Reached(x, file')
      BY <2>2, <3>1, <3>2, TailOrdered
    <3> QED
      BY <1>1, <2>3, <3>3
  <2>7. file' = Written \/ file' = file \/ (file' = Newest(Capacity, Written) /\ Len(Written) > Capacity)
    <3>1. file' = Written \/ file' = file \/ file' = Newest(Capacity, Written)
      BY <1>2 DEF Enqueue, EnqueueFails, CompactFails
    <3>2. Newest(Capacity, Written) = Written \/ Len(Written) > Capacity
      BY DEF Newest
    <3> QED
      BY <3>1, <3>2
  <2> QED
    BY <2>4, <2>5, <2>6, <2>7
<1>3. CASE file' = Committed(Len(sending))
  <2> DEFINE n == Len(sending)
  <2>1. n \in Nat /\ n <= Len(file) /\ file' = SubSeq(file, n + 1, Len(file))
    BY <1>3, CommitFile
  <2> HIDE DEF n
  <2>2. Ascending(file') /\ \A x \in Nat : Reached(x, file) => Reached(x, file')
    BY <1>1, <2>1, TailOrdered
  <2> QED
    BY <1>1, <2>2
<1>4. CASE file' = file
  BY <1>4
<1>5. Next => \/ Enqueue \/ EnqueueFails \/ CompactFails
              \/ file' = Committed(Len(sending)) \/ file' = file
  BY DEF Next, Flush, TakeReply, CommitFails, TimeOut, GiveUp, Crash, ServeCall, ServeLate, Lose,
         Revoke, Rejoin, Ripen, agentVars
<1>6. UNCHANGED vars => file' = file
  BY DEF vars
<1> QED
  BY <1>2, <1>3, <1>4, <1>5, <1>6

\* The batch under way is what the head of the spool has come to.
LEMMA SendingReached ==
  ASSUME IInv, InOrder
  PROVE  /\ \A i \in 1..Len(sending) : Reached(sending[i], file)
         /\ \A i \in 1..Len(file) : i <= BatchSize /\ sending # <<>> => file[i] \in Range(sending)
<1>1. CASE sending = <<>>
  <2>1. Len(sending) = 0
    BY <1>1
  <2> QED
    BY <1>1, <2>1
<1>2. CASE sending # <<>>
  <2> DEFINE n == IF BatchSize < Len(file) THEN BatchSize ELSE Len(file)
  <2>1. Len(file) \in Nat /\ BatchSize \in Nat /\ file \in Seq(Nat)
    BY Numbers, DeliveryAssumption
  <2>2. sending = SubSeq(file, 1, n)
    BY <1>2 DEF InOrder, Oldest
  <2>3. n \in Nat /\ n <= Len(file) /\ n <= BatchSize
    BY <2>1
  <2>4. Len(sending) = n
    <3>1. \A i \in 1..n : file[i] \in Nat
      BY <2>1, <2>3, Numbers
    <3>2. Len(SubSeq(file, 1, n)) = IF 1 <= n THEN n - 1 + 1 ELSE 0
      BY <2>1, <2>3, <3>1, SubSeqProperties
    <3> QED
      BY <2>2, <2>3, <3>2
  <2>5. \A i \in 1..Len(sending) : sending[i] = file[i] /\ i \in 1..Len(file) /\ i <= BatchSize
    BY <2>1, <2>3, <2>4 DEF IInv, BatchIsHead
  <2>6. \A i \in 1..Len(file) : i <= BatchSize => i \in 1..Len(sending)
    BY <2>1, <2>4
  <2>7. \A i \in 1..Len(sending) : sending[i] \in Range(sending)
    BY RangeEquality DEF IInv, TypeOK
  <2> QED
    BY <2>5, <2>6, <2>7 DEF Reached
<1> QED
  BY <1>1, <1>2

\* A batch served, early or late: each of its samples at most once more in the
\* database, and none unless it is acknowledged; the newest valid one is evaluated.
LEMMA ServedOnce ==
  ASSUME TypeOK, NEW batch, NEW status, Ingest(batch, status)
  PROVE  /\ \A s \in Samples : copies'[s] = copies[s] \/ (copies'[s] = copies[s] + 1 /\ s \in Range(batch))
         /\ status # "ok" => copies' = copies
         /\ \/ evaluated' = evaluated
            \/ evaluated' \in Valid(batch) /\ \A s \in Valid(batch) : s <= evaluated'
         /\ faults' \in {faults, faults + 1}
<1>1. ASSUME NEW stored \in SUBSET Valid(batch), Save(batch, stored), status = Status(stored)
      PROVE  /\ \A s \in Samples :
                  copies'[s] = copies[s] \/ (copies'[s] = copies[s] + 1 /\ s \in Range(batch))
             /\ status # "ok" => copies' = copies
             /\ \/ evaluated' = evaluated
                \/ evaluated' \in Valid(batch) /\ \A s \in Valid(batch) : s <= evaluated'
  <2>1. copies' = [s \in Samples |-> IF s \in stored THEN copies[s] + 1 ELSE copies[s]]
    BY <1>1 DEF Save
  <2>2. stored \subseteq Range(batch)
    BY DEF Valid
  <2>3. copies = [s \in Samples |-> copies[s]]
    BY DEF TypeOK
  <2>4. status # "ok" => stored = {}
    BY <1>1 DEF Status
  <2>5. stored = {} => copies' = copies
    BY <2>1, <2>3
  <2>6. \A s \in Samples : copies'[s] = copies[s] \/ (copies'[s] = copies[s] + 1 /\ s \in Range(batch))
    BY <2>1, <2>2
  <2> QED
    BY <1>1, <2>4, <2>5, <2>6 DEF Save
<1>2. UNCHANGED serverVars => copies' = copies /\ evaluated' = evaluated
  BY DEF serverVars
<1>3. faults' \in {faults, faults + 1}
  BY DEF Ingest, Fault
<1> QED
  BY <1>1, <1>2, <1>3 DEF Ingest

\* No step disturbs the order.
LEMMA InOrderKept ==
  ASSUME IInv, InOrder, [Next]_vars
  PROVE  InOrder'
<1>1. /\ Ascending(file')
      /\ \A x \in 0..collected : Reached(x, file) => Reached(x, file')
  BY FileMoves DEF InOrder
<1>2. /\ evaluated \in 0..collected /\ evaluated \in Nat /\ collected \in Nat
      /\ \A m \in late : \A i \in 1..Len(m.batch) : m.batch[i] \in 0..collected
      /\ \A i \in 1..Len(sending) : sending[i] \in 0..collected
  <2>1. 1..collected \subseteq 0..collected /\ evaluated \in Nat /\ collected \in Nat
    BY Numbers
  <2>2. evaluated \in 0..collected
    BY <2>1 DEF InOrder
  <2> QED
    BY <2>1, <2>2, Numbers
<1>3. sending' # <<>> => sending' = Oldest(BatchSize, file')
  <2>1. CASE Flush
    BY <2>1 DEF Flush, agentVars
  <2>2. CASE sending' = <<>>
    BY <2>2
  <2>3. CASE sending' = sending /\ file' = file
    BY <2>3 DEF InOrder
  <2>4. CASE Enqueue \/ EnqueueFails \/ CompactFails
    BY <2>4 DEF Enqueue, EnqueueFails, CompactFails, Collect
  <2>5. Next => \/ Flush \/ sending' = <<>> \/ (sending' = sending /\ file' = file)
                \/ Enqueue \/ EnqueueFails \/ CompactFails
    BY DEF Next, TakeReply, CommitFails, TimeOut, GiveUp, Crash, EndCall, ServeCall, ServeLate, Lose,
           Revoke, Rejoin, Ripen, agentVars
  <2>6. UNCHANGED vars => sending' = sending /\ file' = file
    BY DEF vars
  <2> QED
    BY <2>1, <2>2, <2>3, <2>4, <2>5, <2>6
<1>4. /\ evaluated' <= collected' /\ evaluated' \notin bad'
      /\ Reached(evaluated', file')
  <2>1. ASSUME NEW batch, NEW status, Ingest(batch, status), batch \in Seq(1..collected),
               \A i \in 1..Len(batch) : Reached(batch[i], file),
               UNCHANGED <<collected, bad, file>>
        PROVE  /\ evaluated' <= collected' /\ evaluated' \notin bad'
               /\ Reached(evaluated', file')
    <3>1. CASE evaluated' = evaluated
      BY <2>1, <3>1 DEF InOrder
    <3>2. CASE evaluated' \in Valid(batch)
      <4>1. evaluated' \in Range(batch) /\ evaluated' \notin bad
        BY <3>2 DEF Valid
      <4>2. PICK i \in 1..Len(batch) : evaluated' = batch[i]
        BY <2>1, <4>1, RangeEquality
      <4>3. batch[i] \in 1..collected
        BY <2>1, ElementOfSeq
      <4> QED
        BY <1>2, <2>1, <4>1, <4>2, <4>3
    <3>3. TypeOK
      BY DEF IInv
    <3> QED
      BY <2>1, <3>1, <3>2, <3>3, ServedOnce
  <2>2. CASE ServeCall
    <3>1. PICK status \in Answers : Ingest(sending, status)
      BY <2>2 DEF ServeCall
    <3>2. sending \in Seq(1..collected) /\ UNCHANGED <<collected, bad, file>>
      BY <2>2 DEF ServeCall, agentVars, IInv, OnlyCollected
    <3> QED
      BY <2>1, <3>1, <3>2, SendingReached
  <2>3. CASE ServeLate
    <3>1. PICK m \in late : \E status \in Answers : Ingest(m.batch, status)
      BY <2>3 DEF ServeLate
    <3>2. m.batch \in Seq(1..collected) /\ UNCHANGED <<collected, bad, file>>
      BY <2>3 DEF ServeLate, agentVars, IInv, OnlyCollected
    <3>3. \A i \in 1..Len(m.batch) : Reached(m.batch[i], file)
      BY DEF InOrder
    <3> QED
      BY <2>1, <3>1, <3>2, <3>3
  <2>4. CASE /\ evaluated' = evaluated
             /\ bad' \subseteq bad \cup {collected + 1}
             /\ collected' \in {collected, collected + 1}
    <3>1. evaluated # collected + 1 /\ evaluated <= collected'
      BY <1>2, <2>4
    <3> QED
      BY <1>1, <1>2, <2>4, <3>1 DEF InOrder
  <2>5. Next => \/ ServeCall \/ ServeLate
                \/ /\ evaluated' = evaluated
                   /\ bad' \subseteq bad \cup {collected + 1}
                   /\ collected' \in {collected, collected + 1}
    BY DEF Next, Enqueue, EnqueueFails, CompactFails, Collect, Flush, TakeReply, CommitFails, TimeOut,
           GiveUp, Crash, Lose, Revoke, Rejoin, Ripen, agentVars, serverVars
  <2>6. UNCHANGED vars => /\ evaluated' = evaluated /\ bad' = bad /\ collected' = collected
    BY DEF vars
  <2> QED
    BY <2>2, <2>3, <2>4, <2>5, <2>6
<1>5. \A m \in late' : \A i \in 1..Len(m.batch) : Reached(m.batch[i], file')
  <2>1. ASSUME NEW m \in late' PROVE m \in late \/ m.batch = sending
    <3>1. EndCall => late' \subseteq late \cup {[no |-> faults, batch |-> sending]}
      BY DEF EndCall
    <3>2. Next => EndCall \/ late' \subseteq late
      BY DEF Next, Enqueue, EnqueueFails, CompactFails, Collect, Flush, TakeReply, CommitFails, TimeOut,
             GiveUp, Crash, ServeCall, ServeLate, Lose, Revoke, Rejoin, Ripen
    <3>3. UNCHANGED vars => late' = late
      BY DEF vars
    <3> QED
      BY <3>1, <3>2, <3>3
  <2>2. ASSUME NEW m \in late', NEW i \in 1..Len(m.batch)
        PROVE  Reached(m.batch[i], file) /\ m.batch[i] \in 0..collected
    BY <1>2, <2>1, SendingReached DEF InOrder
  <2> QED
    BY <1>1, <2>2
<1> QED
  BY <1>1, <1>3, <1>4, <1>5 DEF InOrder, Reached

\* Nothing is spooled, and nothing evaluated, at the start.
LEMMA InitInOrder == Init => InOrder
<1> SUFFICES ASSUME Init PROVE InOrder
  OBVIOUS
<1>1. Len(file) = 0 /\ sending = <<>> /\ evaluated = 0 /\ collected = 0 /\ bad = {} /\ late = {}
  BY DEF Init
<1> QED
  BY <1>1 DEF InOrder, Ascending, Reached

\* The evaluator sees an older sample after a newer one only through a request that
\* the agent had given up on and that is served late (ingest.go, agent.go): retries,
\* compaction, rejected samples and crashes keep the order.
THEOREM EvaluatedInOrder == Spec => Ordered
<1>1. Init => IInv /\ InOrder
  BY InitInv, InitInOrder
<1>2. IInv /\ InOrder /\ [Next]_vars => IInv' /\ InOrder'
  BY NextInv, InOrderKept
<1>3. IInv /\ InOrder /\ [Next]_vars => [evaluated' < evaluated => late' # late]_vars
  <2> SUFFICES ASSUME IInv, InOrder, Next, evaluated' < evaluated, late' = late
               PROVE  FALSE
    OBVIOUS
  <2>1. evaluated \in Nat /\ evaluated' # evaluated
    BY Numbers
  <2>2. ServeCall
    BY <2>1 DEF Next, Enqueue, EnqueueFails, CompactFails, Collect, Flush, TakeReply, CommitFails,
       TimeOut, GiveUp, Crash, ServeLate, Lose, Revoke, Rejoin, Ripen, serverVars
  <2>3. PICK status \in Answers : Ingest(sending, status)
    BY <2>2 DEF ServeCall
  <2>4. evaluated' \in Valid(sending) /\ \A s \in Valid(sending) : s <= evaluated'
    BY <2>1, <2>3, ServedOnce DEF IInv
  <2>5. PICK i \in 1..Len(sending) : evaluated' = sending[i]
    BY <2>4, RangeEquality DEF Valid, IInv, TypeOK
  <2>6. i \in 1..Len(file) /\ evaluated' = file[i] /\ evaluated' \in Nat
    <3>1. Len(sending) <= Len(file) /\ Len(sending) \in Nat /\ Len(file) \in Nat
          /\ sending[i] = file[i] /\ sending[i] \in Nat
      BY Numbers DEF IInv, BatchIsHead
    <3> QED
      BY <2>5, <3>1
  <2>7. ~ (evaluated < file[i])
    BY <2>1, <2>6
  <2>8. PICK j \in 1..Len(file) : j <= BatchSize /\ file[j] = evaluated
    BY <2>6, <2>7 DEF InOrder, Reached
  <2>9. evaluated \in Valid(sending)
    BY <2>2, <2>8, SendingReached DEF ServeCall, Valid, InOrder
  <2> QED
    BY <2>1, <2>4, <2>6, <2>9
<1> QED
  BY <1>1, <1>2, <1>3, PTL DEF Spec, Ordered

-----------------------------------------------------------------------------
(* Duplicates.                                                             *)

\* The late requests that carry a sample.
LateWith(s) == {m \in late : s \in Range(m.batch)}

\* A sample may be stored once more without a fault: it is still to come, or in the
\* spool and not acknowledged.
Owed(s) == s > collected \/ (s \in Range(file) /\ ~ (answer = "ok" /\ s \in Range(sending)))
Due(s) == IF Owed(s) THEN 1 ELSE 0

\* The rows of a sample and those that may still come without a fault.
Weight(s) == copies[s] + Cardinality(LateWith(s)) + Due(s)
Weighed == IsFiniteSet(late) /\ \A s \in Samples : Weight(s) <= 1 + faults

\* What is in the spool, on its way and collected.
LEMMA InSpool ==
  ASSUME IInv
  PROVE  /\ \A s : s \in Range(file) <=> \E i \in 1..Len(file) : file[i] = s
         /\ \A s : s \in Range(sending) <=> \E i \in 1..Len(sending) : sending[i] = s
         /\ Range(sending) \subseteq Range(file) /\ Range(file) \subseteq 1..collected
<1>1. \A s : s \in Range(file) <=> \E i \in 1..Len(file) : file[i] = s
  BY RangeEquality DEF IInv, TypeOK
<1>2. \A s : s \in Range(sending) <=> \E i \in 1..Len(sending) : sending[i] = s
  BY RangeEquality DEF IInv, TypeOK
<1>3. Len(sending) <= Len(file) /\ Len(sending) \in Nat /\ Len(file) \in Nat
      /\ \A i \in 1..Len(sending) : sending[i] = file[i]
  BY Numbers DEF IInv, BatchIsHead
<1>4. \A i \in 1..Len(sending) : i \in 1..Len(file)
  BY <1>3
<1> QED
  BY <1>1, <1>2, <1>3, <1>4, Numbers

\* A new sample in the spool was still to come.
LEMMA EnqueueOwes ==
  ASSUME IInv, Ascending(file), Enqueue \/ EnqueueFails \/ CompactFails, NEW s \in Samples, Owed(s)'
  PROVE  Owed(s)
<1>1. /\ collected' = collected + 1 /\ sending = <<>> /\ sending' = sending /\ answer' = answer
  BY DEF Enqueue, EnqueueFails, CompactFails, Collect
<1>2. answer # "ok"
  BY <1>1 DEF IInv, AnswerHolds
<1>3. file \in Seq(Nat) /\ collected \in Nat /\ \A i \in 1..Len(file) : file[i] < collected + 1
  <2>1. \A i \in 1..Len(file) : file[i] \in 1..collected
    BY Numbers
  <2> QED
    BY <2>1, Numbers
<1>4. s \in Nat
  BY DeliveryAssumption DEF Samples
<1>5. CASE s > collected + 1
  BY <1>3, <1>4, <1>5 DEF Owed
<1>6. CASE s \in Range(file')
  <2>1. IInv'
    BY NextInv DEF Next
  <2>2. PICK i \in 1..Len(file') : file'[i] = s
    BY <1>6, <2>1, RangeEquality DEF IInv, TypeOK
  <2>3. /\ Written \in Seq(Nat) /\ Ascending(Written) /\ Len(Written) = Len(file) + 1
        /\ Written[Len(file) + 1] = collected + 1
        /\ \A j \in 1..Len(file) : Written[j] = file[j]
    <3>1. collected + 1 \in Nat
      BY <1>3
    <3> QED
      BY <1>3, <3>1, AppendOrdered DEF Written
  <2>4. \A j \in 1..Len(Written) : Written[j] = s => s > collected \/ s \in Range(file)
    <3> SUFFICES ASSUME NEW j \in 1..Len(Written), Written[j] = s
                 PROVE  s > collected \/ s \in Range(file)
      OBVIOUS
    <3>1. Len(file) \in Nat
      BY Numbers
    <3>2. j \in 1..Len(file) \/ j = Len(file) + 1
      BY <2>3, <3>1
    <3>3. CASE j \in 1..Len(file)
      BY <2>3, <3>3, InSpool
    <3>4. CASE j = Len(file) + 1
      BY <1>3, <2>3, <3>4
    <3> QED
      BY <3>2, <3>3, <3>4
  <2>5. s > collected \/ s \in Range(file)
    <3>1. CASE file' = Written
      BY <2>2, <2>4, <3>1
    <3>2. CASE file' = file
      BY <2>2, <3>2, InSpool
    <3>3. CASE file' = Newest(Capacity, Written) /\ Len(Written) > Capacity
      <4> DEFINE n == Len(Written) - Capacity
      <4>1. n \in Nat /\ n <= Len(Written)
        BY <2>3, <3>3, LenProperties, DeliveryAssumption
      <4>2. file' = SubSeq(Written, n + 1, Len(Written))
        BY <3>3 DEF Newest
      <4> HIDE DEF n
      <4>3. i + n \in 1..Len(Written) /\ file'[i] = Written[i + n]
        BY <2>2, <2>3, <4>1, <4>2, TailOrdered
      <4> QED
        BY <2>2, <2>4, <4>3
    <3>4. file' = Written \/ file' = file \/ (file' = Newest(Capacity, Written) /\ Len(Written) > Capacity)
      <4>1. file' = Written \/ file' = file \/ file' = Newest(Capacity, Written)
        BY DEF Enqueue, EnqueueFails, CompactFails
      <4>2. Newest(Capacity, Written) = Written \/ Len(Written) > Capacity
        BY DEF Newest
      <4> QED
        BY <4>1, <4>2
    <3> QED
      BY <3>1, <3>2, <3>3, <3>4
  <2> QED
    BY <1>2, <2>5 DEF Owed
<1> QED
  BY <1>1, <1>5, <1>6 DEF Owed

\* An acknowledged batch is owed no more.
LEMMA AcknowledgedNotOwed ==
  ASSUME IInv, Ascending(file), TakeReply, NEW s \in Samples, Owed(s)'
  PROVE  Owed(s)
<1>1. collected' = collected /\ answer' = "none" /\ sending' = <<>>
  BY DEF TakeReply, EndCall
<1>2. CASE ~ Acknowledged
  BY <1>1, <1>2 DEF TakeReply, Acknowledged, Owed
<1>3. CASE Acknowledged /\ s \in Range(file')
  <2> DEFINE n == Len(sending)
  <2>1. n \in Nat /\ n <= Len(file) /\ file' = SubSeq(file, n + 1, Len(file))
    BY <1>3, CommitFile DEF TakeReply
  <2>2. file \in Seq(Nat) /\ Len(file) \in Nat
    BY Numbers
  <2>3. \A i \in 1..n : sending[i] = file[i]
    BY DEF IInv, BatchIsHead
  <2>4. \A x : x \in Range(sending) => \E i \in 1..n : sending[i] = x
    BY InSpool
  <2> HIDE DEF n
  <2>5. /\ Len(file') = Len(file) - n
        /\ \A i \in 1..Len(file') : i + n \in 1..Len(file) /\ file'[i] = file[i + n]
    BY <2>1, <2>2, TailOrdered
  <2>6. PICK i \in 1..Len(file') : file'[i] = s
    <3>1. IInv'
      BY NextInv DEF Next
    <3> QED
      BY <1>3, <3>1, RangeEquality DEF IInv, TypeOK
  <2>7. i + n \in 1..Len(file) /\ file[i + n] = s
    BY <2>5, <2>6
  <2>8. s \in Range(file)
    BY <2>7, InSpool
  <2>9. s \notin Range(sending)
    <3> SUFFICES ASSUME s \in Range(sending) PROVE FALSE
      OBVIOUS
    <3>1. PICK j \in 1..n : file[j] = s
      BY <2>3, <2>4
    <3>2. j < i + n /\ j \in 1..Len(file)
      BY <2>1, <2>2, <2>5
    <3>3. file[j] < file[i + n]
      BY <2>7, <3>2 DEF Ascending
    <3>4. file[j] \in Nat
      BY <3>2, Numbers
    <3> QED
      BY <2>7, <3>1, <3>3, <3>4
  <2> QED
    BY <2>8, <2>9 DEF Owed
<1> QED
  BY <1>1, <1>2, <1>3 DEF Owed

\* The requests that carry a sample are counted.
LEMMA LateCounted ==
  ASSUME NEW s, IsFiniteSet(late)
  PROVE  /\ Cardinality(LateWith(s)) \in Nat
         /\ IsFiniteSet(late') /\ late' \subseteq late =>
              Cardinality(LateWith(s)') \in Nat /\ Cardinality(LateWith(s)') <= Cardinality(LateWith(s))
         /\ \A m \in late : late' = late \ {m} /\ s \in Range(m.batch) =>
              Cardinality(LateWith(s)') = Cardinality(LateWith(s)) - 1
         /\ \A m : late' = late \cup {m} =>
              Cardinality(LateWith(s)') \in Nat /\ Cardinality(LateWith(s)') <= Cardinality(LateWith(s)) + 1
<1> DEFINE L == LateWith(s)
           M == LateWith(s)'
<1>1. IsFiniteSet(L) /\ Cardinality(L) \in Nat
  BY FS_Subset, FS_CardinalityType DEF LateWith
<1>2. late' \subseteq late => M \subseteq L
  BY DEF LateWith
<1>3. \A m \in late : late' = late \ {m} /\ s \in Range(m.batch) => M = L \ {m} /\ m \in L
  BY DEF LateWith
<1>4. \A m : late' = late \cup {m} => M \subseteq L \cup {m}
  BY DEF LateWith
<1> HIDE DEF L, M
<1>5. M \subseteq L => Cardinality(M) \in Nat /\ Cardinality(M) <= Cardinality(L)
  BY <1>1, FS_Subset, FS_CardinalityType
<1>6. \A m \in L : Cardinality(L \ {m}) = Cardinality(L) - 1
  BY <1>1, FS_RemoveElement
<1>7. ASSUME NEW m, M \subseteq L \cup {m}
      PROVE  Cardinality(M) \in Nat /\ Cardinality(M) <= Cardinality(L) + 1
  <2>1. /\ IsFiniteSet(L \cup {m}) /\ Cardinality(L \cup {m}) \in Nat
        /\ Cardinality(L \cup {m}) <= Cardinality(L) + 1
    <3>1. IsFiniteSet(L \cup {m})
      BY <1>1, FS_AddElement
    <3>2. CASE m \in L
      <4>1. L \cup {m} = L
        BY <3>2
      <4> QED
        BY <1>1, <4>1
    <3>3. CASE m \notin L
      BY <1>1, <3>3, FS_AddElement
    <3> QED
      BY <3>1, <3>2, <3>3, FS_CardinalityType
  <2>2. Cardinality(M) \in Nat /\ Cardinality(M) <= Cardinality(L \cup {m})
    BY <1>7, <2>1, FS_Subset, FS_CardinalityType
  <2> QED
    BY <1>1, <2>1, <2>2
<1>8. /\ Cardinality(L) \in Nat
      /\ late' \subseteq late => Cardinality(M) \in Nat /\ Cardinality(M) <= Cardinality(L)
      /\ \A m \in late : late' = late \ {m} /\ s \in Range(m.batch) => Cardinality(M) = Cardinality(L) - 1
      /\ \A m : late' = late \cup {m} => Cardinality(M) \in Nat /\ Cardinality(M) <= Cardinality(L) + 1
  BY <1>1, <1>2, <1>3, <1>4, <1>5, <1>6, <1>7
<1> QED
  BY <1>8 DEF L, M

\* What each step adds to the rows of a sample, to the late requests that carry it,
\* to what is owed, and to the faults.
LEMMA StepWeighs ==
  ASSUME IInv, Ascending(file), Next, NEW s \in Samples
  PROVE  \/ /\ copies'[s] = copies[s] /\ late' = late /\ faults' \in {faults, faults + 1}
            /\ Owed(s)' => Owed(s)
         \/ /\ copies'[s] = copies[s] /\ late' = late /\ faults' = faults + 1
         \/ /\ copies'[s] = copies[s] /\ faults' = faults + 1
            /\ late' = late \cup {[no |-> faults, batch |-> sending]}
            /\ Owed(s)' => Owed(s)
         \/ /\ copies'[s] = copies[s] + 1 /\ late' = late /\ faults' \in {faults, faults + 1}
            /\ Owed(s) /\ ~ Owed(s)'
         \/ /\ faults' \in {faults, faults + 1}
            /\ Owed(s)' => Owed(s)
            /\ \E m \in late : /\ late' = late \ {m}
                               /\ \/ copies'[s] = copies[s]
                                  \/ copies'[s] = copies[s] + 1 /\ s \in Range(m.batch)
<1> DEFINE Result ==
         \/ /\ copies'[s] = copies[s] /\ late' = late /\ faults' \in {faults, faults + 1}
            /\ Owed(s)' => Owed(s)
         \/ /\ copies'[s] = copies[s] /\ late' = late /\ faults' = faults + 1
         \/ /\ copies'[s] = copies[s] /\ faults' = faults + 1
            /\ late' = late \cup {[no |-> faults, batch |-> sending]}
            /\ Owed(s)' => Owed(s)
         \/ /\ copies'[s] = copies[s] + 1 /\ late' = late /\ faults' \in {faults, faults + 1}
            /\ Owed(s) /\ ~ Owed(s)'
         \/ /\ faults' \in {faults, faults + 1}
            /\ Owed(s)' => Owed(s)
            /\ \E m \in late : /\ late' = late \ {m}
                               /\ \/ copies'[s] = copies[s]
                                  \/ copies'[s] = copies[s] + 1 /\ s \in Range(m.batch)
<1>1. CASE Enqueue \/ EnqueueFails \/ CompactFails
  <2>1. copies' = copies /\ late' = late /\ faults' \in {faults, faults + 1}
    BY <1>1 DEF Enqueue, EnqueueFails, CompactFails, Collect, Fault, serverVars
  <2> QED
    BY <1>1, <2>1, EnqueueOwes
<1>2. CASE Flush
  <2>1. answer = "none"
    BY <1>2 DEF Flush, IInv, AnswerHolds
  <2>2. Owed(s)' => Owed(s)
    BY <1>2, <2>1 DEF Flush, agentVars, Owed
  <2> QED
    BY <1>2, <2>2 DEF Flush, serverVars
<1>3. CASE TakeReply
  <2>1. late' = late /\ copies' = copies /\ faults' = faults
    BY <1>3 DEF TakeReply, EndCall, serverVars
  <2> QED
    BY <1>3, <2>1, AcknowledgedNotOwed
<1>4. CASE CommitFails
  BY <1>4 DEF CommitFails, Acknowledged, EndCall, Fault, serverVars
<1>5. CASE TimeOut
  <2>1. late' = late /\ copies' = copies /\ faults' = faults
    BY <1>5 DEF TimeOut, EndCall, serverVars
  <2>2. Owed(s)' => Owed(s)
    BY <1>5 DEF TimeOut, EndCall, agentVars, Owed
  <2> QED
    BY <2>1, <2>2
<1>6. CASE GiveUp \/ Crash
  <2>1. copies' = copies /\ faults' = faults + 1 /\ file' = file /\ collected' = collected /\ EndCall
    BY <1>6 DEF GiveUp, Crash, Fault, agentVars, serverVars
  <2>2. CASE answer = "none"
    <3>1. Owed(s)' => Owed(s)
      BY <2>1, <2>2 DEF EndCall, Owed
    <3> QED
      BY <2>1, <2>2, <3>1 DEF EndCall
  <2>3. CASE answer # "none"
    BY <2>1, <2>3 DEF EndCall
  <2> QED
    BY <2>2, <2>3
<1>7. CASE ServeCall
  <2>1. PICK status \in Answers : Ingest(sending, status) /\ answer' = status
    BY <1>7 DEF ServeCall
  <2>2. /\ answer = "none" /\ late' = late
        /\ UNCHANGED <<collected, file, sending>>
    BY <1>7 DEF ServeCall, agentVars
  <2>3. /\ copies'[s] = copies[s] \/ (copies'[s] = copies[s] + 1 /\ s \in Range(sending))
        /\ status # "ok" => copies' = copies
        /\ faults' \in {faults, faults + 1}
    BY <2>1, ServedOnce DEF IInv
  <2>4. Owed(s)' => Owed(s)
    BY <2>2 DEF Owed
  <2>5. CASE copies'[s] = copies[s]
    BY <2>2, <2>3, <2>4, <2>5
  <2>6. CASE copies'[s] = copies[s] + 1 /\ copies'[s] # copies[s]
    <3>1. answer' = "ok" /\ s \in Range(sending)
      BY <2>1, <2>3, <2>6
    <3>2. s \in Range(file) /\ s \in 1..collected /\ collected \in Nat
      BY <3>1, InSpool, Numbers
    <3>3. Owed(s)
      BY <2>2, <3>2 DEF Owed
    <3>4. ~ Owed(s)'
      BY <2>2, <3>1, <3>2 DEF Owed
    <3> QED
      BY <2>2, <2>3, <2>6, <3>3, <3>4
  <2> QED
    BY <2>3, <2>5, <2>6
<1>8. CASE ServeLate
  <2>1. PICK m \in late : (\E status \in Answers : Ingest(m.batch, status)) /\ late' = late \ {m}
    BY <1>8 DEF ServeLate
  <2>2. /\ copies'[s] = copies[s] \/ (copies'[s] = copies[s] + 1 /\ s \in Range(m.batch))
        /\ faults' \in {faults, faults + 1}
    BY <2>1, ServedOnce DEF IInv
  <2>3. Owed(s)' => Owed(s)
    BY <1>8 DEF ServeLate, agentVars, Owed
  <2> QED
    BY <2>1, <2>2, <2>3
<1>9. CASE Lose \/ Revoke \/ Rejoin \/ Ripen
  <2>1. /\ copies' = copies /\ late' = late /\ faults' \in {faults, faults + 1}
        /\ collected' = collected /\ file' = file /\ sending' = sending
        /\ answer' = answer \/ answer = "none"
    BY <1>9 DEF Lose, Revoke, Rejoin, Ripen, Fault, agentVars, serverVars
  <2>2. Owed(s)' => Owed(s)
    BY <2>1 DEF Owed
  <2> QED
    BY <2>1, <2>2
<1> QED
  BY <1>1, <1>2, <1>3, <1>4, <1>5, <1>6, <1>7, <1>8, <1>9 DEF Next

\* A step adds to the weight of a sample no more than it adds to the faults.
LEMMA WeighedKept ==
  ASSUME IInv, Ascending(file), Weighed, [Next]_vars
  PROVE  Weighed'
<1>1. CASE UNCHANGED vars
  BY <1>1 DEF vars, Weighed, Weight, LateWith, Due, Owed
<1>2. CASE Next
  <2>1. IsFiniteSet(late')
    <3>1. late' \subseteq late \cup {[no |-> faults, batch |-> sending]}
      BY <1>2 DEF Next, Enqueue, EnqueueFails, CompactFails, Collect, Flush, TakeReply, CommitFails,
         TimeOut, GiveUp, Crash, EndCall, ServeCall, ServeLate, Lose, Revoke, Rejoin, Ripen
    <3>2. IsFiniteSet(late \cup {[no |-> faults, batch |-> sending]})
      BY FS_AddElement DEF Weighed
    <3> QED
      BY <3>1, <3>2, FS_Subset
  <2>2. ASSUME NEW s \in Samples
        PROVE  Weight(s)' <= 1 + faults'
    <3> DEFINE c == copies[s]
               cp == copies'[s]
               l == Cardinality(LateWith(s))
               lp == Cardinality(LateWith(s)')
               d == Due(s)
               dp == Due(s)'
    <3>1. /\ c \in Nat /\ faults \in Nat /\ l \in Nat
          /\ d \in {0, 1} /\ dp \in {0, 1}
          /\ Owed(s) <=> d = 1
          /\ Owed(s)' <=> dp = 1
          /\ c + l + d <= 1 + faults
      BY Numbers, LateCounted DEF IInv, TypeOK, Weighed, Weight, Due
    <3>2. /\ late' = late => lp = l
          /\ \A m \in late : late' = late \ {m} => lp \in Nat /\ lp <= l
          /\ \A m \in late : late' = late \ {m} /\ s \in Range(m.batch) => lp = l - 1
          /\ \A m : late' = late \cup {m} => lp \in Nat /\ lp <= l + 1
      <4>1. late' = late => lp = l
        BY DEF LateWith
      <4> QED
        BY <2>1, <4>1, LateCounted DEF Weighed
    <3>3. \/ /\ cp = c /\ late' = late /\ faults' \in {faults, faults + 1}
             /\ Owed(s)' => Owed(s)
          \/ /\ cp = c /\ late' = late /\ faults' = faults + 1
          \/ /\ cp = c /\ faults' = faults + 1
             /\ late' = late \cup {[no |-> faults, batch |-> sending]}
             /\ Owed(s)' => Owed(s)
          \/ /\ cp = c + 1 /\ late' = late /\ faults' \in {faults, faults + 1}
             /\ Owed(s) /\ ~ Owed(s)'
          \/ /\ faults' \in {faults, faults + 1}
             /\ Owed(s)' => Owed(s)
             /\ \E m \in late : /\ late' = late \ {m}
                                /\ cp = c \/ (cp = c + 1 /\ s \in Range(m.batch))
      BY <1>2, StepWeighs
    <3> HIDE DEF c, cp, l, lp, d, dp
    <3>4. \/ cp = c /\ lp = l /\ faults' \in {faults, faults + 1} /\ dp <= d
          \/ cp = c /\ lp = l /\ faults' = faults + 1
          \/ cp = c /\ lp \in Nat /\ lp <= l + 1 /\ faults' = faults + 1 /\ dp <= d
          \/ cp = c + 1 /\ lp = l /\ faults' \in {faults, faults + 1} /\ d = 1 /\ dp = 0
          \/ cp = c /\ lp \in Nat /\ lp <= l /\ faults' \in {faults, faults + 1} /\ dp <= d
          \/ cp = c + 1 /\ lp = l - 1 /\ faults' \in {faults, faults + 1} /\ dp <= d
      <4>1. (Owed(s)' => Owed(s)) => dp <= d
        BY <3>1
      <4>2. Owed(s) /\ ~ Owed(s)' => d = 1 /\ dp = 0
        BY <3>1
      <4> QED
        BY <3>2, <3>3, <4>1, <4>2
    <3>5. cp + lp + dp <= 1 + faults'
      BY <3>1, <3>4
    <3> QED
      BY <3>5 DEF Weight, cp, lp, dp
  <2> QED
    BY <2>1, <2>2 DEF Weighed, Samples
<1> QED
  BY <1>1, <1>2

\* A sample is stored twice only because something failed in between (agent.go,
\* ingest.go): one row, and one more for every fault at the most.
THEOREM DuplicatesPerFault == Spec => []Duplicates
<1>1. Init => IInv /\ InOrder /\ Weighed
  <2> SUFFICES ASSUME Init PROVE Weighed
    BY InitInv, InitInOrder
  <2>1. late = {} /\ IsFiniteSet(late)
    BY FS_EmptySet DEF Init
  <2>2. ASSUME NEW s \in Samples PROVE Weight(s) <= 1 + faults
    <3>1. LateWith(s) = {}
      BY <2>1 DEF LateWith
    <3>2. copies[s] = 0 /\ faults = 0 /\ Cardinality(LateWith(s)) = 0 /\ Due(s) \in {0, 1}
      BY <3>1, FS_EmptySet DEF Init, Due
    <3> QED
      BY <3>2 DEF Weight
  <2> QED
    BY <2>1, <2>2 DEF Weighed
<1>2. IInv /\ InOrder /\ Weighed /\ [Next]_vars => IInv' /\ InOrder' /\ Weighed'
  BY NextInv, InOrderKept, WeighedKept DEF InOrder
<1>3. IInv /\ Weighed => Duplicates
  <2> SUFFICES ASSUME IInv, Weighed, NEW s \in Samples
               PROVE  copies[s] <= 1 + faults
    BY DEF Duplicates
  <2>1. copies[s] \in Nat /\ Cardinality(LateWith(s)) \in Nat /\ Due(s) \in {0, 1} /\ faults \in Nat
    BY LateCounted, Numbers DEF IInv, TypeOK, Weighed, Due
  <2>2. copies[s] + Cardinality(LateWith(s)) + Due(s) <= 1 + faults
    BY DEF Weighed, Weight
  <2> QED
    BY <2>1, <2>2
<1> QED
  BY <1>1, <1>2, <1>3, PTL DEF Spec
-----------------------------------------------------------------------------
(* What does hold of RejectedRetired.                                      *)

\* A batch that the server answers with 200 is retired whole, its rejected samples
\* included (agent.go): none of it is sent again, however often samples were evicted
\* or compacted in between.  So rejected samples block the spool only in a batch
\* without a valid one, which is answered 400.
THEOREM AcceptedRetired ==
  Spec => [][TakeReply /\ Acknowledged => Range(sending) \cap Range(file') = {}]_vars
<1>1. Init => IInv /\ InOrder
  BY InitInv, InitInOrder
<1>2. IInv /\ InOrder /\ [Next]_vars => IInv' /\ InOrder'
  BY NextInv, InOrderKept
<1>3. IInv /\ InOrder /\ [Next]_vars
        => [TakeReply /\ Acknowledged => Range(sending) \cap Range(file') = {}]_vars
  <2> SUFFICES ASSUME IInv, InOrder, TakeReply, Acknowledged,
                      NEW s \in Range(sending), s \in Range(file')
               PROVE  FALSE
    OBVIOUS
  <2> DEFINE n == Len(sending)
  <2>1. /\ n \in Nat /\ n <= Len(file) /\ Len(file) \in Nat
        /\ file \in Seq(Nat) /\ file' \in Seq(Nat) /\ file' = SubSeq(file, n + 1, Len(file))
        /\ \A i \in 1..n : sending[i] = file[i]
    <3>1. file' = Committed(n)
      BY Zenon DEF TakeReply
    <3>2. /\ Committed(n) = SubSeq(file, n + 1, Len(file)) /\ n \in Nat /\ n <= Len(file)
          /\ Committed(n) \in Seq(Samples)
      BY CommitFile
    <3>3. Samples \subseteq Nat
      BY DeliveryAssumption DEF Samples
    <3>4. Committed(n) \in Seq(Nat)
      BY <3>2, <3>3, SeqMonotonic
    <3> QED
      BY <3>1, <3>2, <3>4, Numbers DEF IInv, BatchIsHead
  <2>2. PICK i \in 1..n : file[i] = s
    BY <2>1, InSpool
  <2> HIDE DEF n
  <2>3. PICK j \in 1..Len(file') : file'[j] = s
    <3> DEFINE f == file'
    <3>1. f \in Seq(Nat) /\ s \in Range(f)
      BY <2>1
    <3> HIDE DEF f
    <3>2. \E k \in 1..Len(f) : f[k] = s
      BY <3>1, RangeEquality
    <3> QED
      BY <3>2 DEF f
  <2>4. \A k \in n + 1..Len(file) : file[k] \in Nat
    BY <2>1, ElementOfSeq
  <2>5. /\ Len(file') = IF n + 1 <= Len(file) THEN Len(file) - (n + 1) + 1 ELSE 0
        /\ \A k \in 1..Len(file') : file'[k] = file[n + k]
    <3> DEFINE t == SubSeq(file, n + 1, Len(file))
    <3>1. /\ Len(t) = IF n + 1 <= Len(file) THEN Len(file) - (n + 1) + 1 ELSE 0
          /\ \A k \in 1..Len(file) - (n + 1) + 1 : t[k] = file[n + 1 + k - 1]
      BY <2>1, <2>4, SubSeqProperties
    <3> HIDE DEF t
    <3>2. \A k \in 1..Len(t) : n + 1 + k - 1 = n + k /\ k \in 1..Len(file) - (n + 1) + 1
      BY <2>1, <3>1
    <3> QED
      BY <2>1, <3>1, <3>2 DEF t
  <2>6. n + j \in 1..Len(file) /\ i \in 1..Len(file) /\ i < n + j /\ file[n + j] = file[i]
    BY <2>1, <2>2, <2>3, <2>5
  <2>7. file[i] < file[n + j] /\ file[i] \in Nat
    BY <2>1, <2>6, ElementOfSeq DEF InOrder, Ascending
  <2> QED
    BY <2>6, <2>7
<1> QED
  BY <1>1, <1>2, <1>3, PTL DEF Spec
=============================================================================
