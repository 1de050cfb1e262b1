--------------------------- MODULE AIServiceProofs ---------------------------
(* Proofs about CircuitBreaker and AIService for any number of workers,       *)
(* signatures and cache entries, any cap and any timeouts.                    *)
EXTENDS AIService, FiniteSetTheorems, SequenceTheorems, TLAPS

-----------------------------------------------------------------------------
(* The circuit breaker.                                                    *)

\* A trial is at least as old as the last failure while the circuit is open, and
\* there is one exactly while it is half-open.
Spaced ==
  /\ state = "open" => sinceFail <= sinceTrial
  /\ halfOpenCalls = IF state = "half-open" THEN 1 ELSE 0

BreakerIInv == BreakerTypeOK /\ Spaced

\* The action of TrialsSpaced.
TrialIsLate == halfOpenCalls' > halfOpenCalls => sinceTrial > ResetTimeout

\* The steps of the breaker.
BreakerNext ==
  \/ BeforeRequest \/ Failed \/ Succeeded \/ BreakerTick \/ BreakerRestart
  \/ UNCHANGED breakerVars

\* The breaker starts closed, with no failure counted and none remembered.
LEMMA InitBreaker == BreakerInit => BreakerIInv
BY BreakerAssumption DEF BreakerInit, BreakerIInv, BreakerTypeOK, Spaced, LongAgo, HalfOpenMaxCalls

\* A trial is let through only when the last failure, and so the last trial, is old
\* enough.
LEMMA BreakerSteps ==
  ASSUME BreakerIInv, BreakerNext
  PROVE  BreakerIInv' /\ TrialIsLate
<1> USE BreakerAssumption DEF BreakerIInv, BreakerTypeOK, Spaced, TrialIsLate, LongAgo, HalfOpenMaxCalls
<1>1. CASE BeforeRequest
  BY <1>1 DEF BeforeRequest, Admits
<1>2. CASE Failed
  BY <1>2 DEF Failed
<1>3. CASE Succeeded
  BY <1>3 DEF Succeeded
<1>4. CASE BreakerTick
  BY <1>4 DEF BreakerTick
<1>5. CASE BreakerRestart
  BY <1>5 DEF BreakerRestart
<1>6. CASE UNCHANGED breakerVars
  BY <1>6 DEF breakerVars
<1> QED
  BY <1>1, <1>2, <1>3, <1>4, <1>5, <1>6 DEF BreakerNext

\* Whatever the service does, the breaker takes one of its steps.
LEMMA ServiceSteps == [Next]_vars => BreakerNext
BY DEF Next, vars, BreakerNext, breakerVars, AskAnalysis, AskQuestion, Trigger, Work, Proceed, Await,
   Lookup, Admit, CallFails, CallEnds, File, StartChat, ChatTurn, Tick, Expire, Midnight, Restart

\* While the circuit is not closed, two calls are let through more than the reset
\* timeout apart.
THEOREM TrialsApart == Spec => TrialsSpaced
<1>1. Init => BreakerIInv
  BY InitBreaker DEF Init
<1>2. BreakerIInv /\ [Next]_vars => BreakerIInv'
  BY BreakerSteps, ServiceSteps
<1>3. BreakerIInv /\ [Next]_vars => [TrialIsLate]_breakerVars
  BY BreakerSteps, ServiceSteps
<1> QED
  BY <1>1, <1>2, <1>3, PTL DEF Spec, TrialsSpaced, TrialIsLate

-----------------------------------------------------------------------------
(* The budget.                                                             *)

\* The calls a worker in state x may still make on the budget it has looked at.
Left(x) == IF x.at \in {"admit", "call"} THEN 1 ELSE IF x.at = "ask" THEN x.left ELSE 0

\* These calls for the workers of j, one element each.
Calls(j) == {c \in Workers \X (1..ToolCalls) : c[2] <= Left(j[c[1]])}

Most == Cardinality(Workers) * ToolCalls

JobTypes == job \in [Workers -> Job] /\ spent \in Nat

\* What is spent and what may still be spent on looks already taken.
Committed == spent + Cardinality(Calls(job)) < MaxDaily + Most

BudgetIInv == JobTypes /\ Committed

\* What SMT needs to know of a worker.
LEMMA JobFields ==
  ASSUME NEW x \in Job
  PROVE  /\ x.at \in {"idle", "lookup", "admit", "call", "file", "check", "ask"}
         /\ x.at = "idle" <=> x = Idle
         /\ x.at \in {"lookup", "admit", "call", "file"} =>
              x = [at |-> x.at, sig |-> x.sig] /\ x.sig \in Signatures
         /\ x.at = "ask" => x = [at |-> "ask", left |-> x.left] /\ x.left \in 1..ToolCalls
         /\ Left(x) \in 0..ToolCalls
BY AIAssumption DEF Job, Idle, Left

\* What the workers are set to.
LEMMA JobForms ==
  /\ Idle \in Job /\ Left(Idle) = 0
  /\ [at |-> "check"] \in Job /\ Left([at |-> "check"]) = 0
  /\ \A p \in {"lookup", "admit", "call", "file"}, s \in Signatures :
       /\ [at |-> p, sig |-> s] \in Job
       /\ Left([at |-> p, sig |-> s]) = IF p \in {"admit", "call"} THEN 1 ELSE 0
  /\ \A n \in 1..ToolCalls :
       [at |-> "ask", left |-> n] \in Job /\ Left([at |-> "ask", left |-> n]) = n
BY DEF Job, Idle, Left

\* There are at most so many calls as workers can have left.
LEMMA CallsFinite ==
  ASSUME NEW j \in [Workers -> Job]
  PROVE  /\ IsFiniteSet(Calls(j)) /\ Cardinality(Calls(j)) \in Nat
         /\ Most \in Nat /\ Cardinality(Calls(j)) <= Most
<1> DEFINE All == Workers \X (1..ToolCalls)
<1>1. IsFiniteSet(Workers) /\ ToolCalls \in Nat
  BY AIAssumption
<1>2. IsFiniteSet(1..ToolCalls) /\ Cardinality(1..ToolCalls) = ToolCalls
  BY <1>1, FS_Interval
<1>3. IsFiniteSet(All) /\ Cardinality(All) = Cardinality(Workers) * Cardinality(1..ToolCalls)
  BY <1>1, <1>2, FS_Product
<1>4. Cardinality(All) = Most /\ Cardinality(All) \in Nat
  BY <1>2, <1>3, FS_CardinalityType DEF Most
<1>5. Calls(j) \subseteq All
  BY DEF Calls
<1>6. IsFiniteSet(Calls(j)) /\ Cardinality(Calls(j)) <= Cardinality(All)
  BY <1>3, <1>5, FS_Subset
<1> QED
  BY <1>4, <1>6, FS_CardinalityType

\* Calls that are given up.
LEMMA FewerLeft ==
  ASSUME NEW j \in [Workers -> Job], NEW k \in [Workers -> Job],
         \A w \in Workers : Left(k[w]) <= Left(j[w])
  PROVE  Cardinality(Calls(k)) <= Cardinality(Calls(j))
<1>1. Calls(k) \subseteq Calls(j)
  <2> SUFFICES ASSUME NEW c \in Workers \X (1..ToolCalls), c[2] <= Left(k[c[1]])
               PROVE  c[2] <= Left(j[c[1]])
    BY DEF Calls
  <2>1. c[1] \in Workers /\ c[2] \in Int
    OBVIOUS
  <2>2. Left(k[c[1]]) \in Int /\ Left(j[c[1]]) \in Int /\ Left(k[c[1]]) <= Left(j[c[1]])
    BY <2>1, JobFields
  <2> QED
    BY <2>1, <2>2
<1> QED
  BY <1>1, CallsFinite, FS_Subset

\* A call that is made.
LEMMA OneLess ==
  ASSUME NEW j \in [Workers -> Job], NEW k \in [Workers -> Job], NEW w \in Workers,
         Left(k[w]) < Left(j[w]), \A v \in Workers : v # w => Left(k[v]) = Left(j[v])
  PROVE  Cardinality(Calls(k)) <= Cardinality(Calls(j)) - 1
<1> DEFINE last == <<w, Left(j[w])>>
<1>1. Left(k[w]) \in 0..ToolCalls /\ Left(j[w]) \in 0..ToolCalls
  BY JobFields
<1>2. last \in Calls(j)
  BY <1>1 DEF Calls
<1>3. Calls(k) \subseteq Calls(j) \ {last}
  <2> SUFFICES ASSUME NEW c \in Workers \X (1..ToolCalls), c[2] <= Left(k[c[1]])
               PROVE  c[2] <= Left(j[c[1]]) /\ c # last
    BY DEF Calls
  <2>1. c[1] \in Workers /\ c[2] \in Int
    OBVIOUS
  <2>2. Left(k[c[1]]) \in Int /\ Left(j[c[1]]) \in Int /\ Left(k[c[1]]) <= Left(j[c[1]])
    BY <1>1, <2>1, JobFields
  <2> QED
    BY <1>1, <2>1, <2>2
<1>4. IsFiniteSet(Calls(j) \ {last}) /\ Cardinality(Calls(j) \ {last}) = Cardinality(Calls(j)) - 1
  BY <1>2, CallsFinite, FS_RemoveElement
<1> QED
  BY <1>3, <1>4, FS_Subset

-----------------------------------------------------------------------------
(* The steps of the service.                                               *)

\* What a worker does next leaves its calls as they were, takes some of them back,
\* makes one, or comes after a look at the budget.
Cheaper ==
  /\ spent' = spent
  /\ \A w \in Workers : Left(job'[w]) <= Left(job[w])
Paid ==
  /\ spent' = spent + 1
  /\ \E w \in Workers : /\ Left(job'[w]) < Left(job[w])
                        /\ \A v \in Workers : v # w => Left(job'[v]) = Left(job[v])
Looked == spent' = spent /\ spent < MaxDaily
Reset == spent' = 0 /\ \A w \in Workers : Left(job'[w]) <= Left(job[w])

\* However the workers' calls move on, what is spent and the calls under way together
\* stay below MaxDaily + Most.
LEMMA BudgetSteps ==
  ASSUME BudgetIInv, job' \in [Workers -> Job], Cheaper \/ Paid \/ Looked \/ Reset
  PROVE  BudgetIInv'
<1>1. /\ job \in [Workers -> Job] /\ spent \in Nat /\ MaxDaily \in Nat
      /\ spent + Cardinality(Calls(job)) < MaxDaily + Most
  BY AIAssumption DEF BudgetIInv, JobTypes, Committed
<1>2. /\ Cardinality(Calls(job)) \in Nat /\ Cardinality(Calls(job')) \in Nat /\ Most \in Nat
      /\ Cardinality(Calls(job')) <= Most
  BY <1>1, CallsFinite
<1>3. CASE Cheaper
  <2>1. Cardinality(Calls(job')) <= Cardinality(Calls(job))
    BY <1>1, <1>3, FewerLeft DEF Cheaper
  <2> QED
    BY <1>1, <1>2, <1>3, <2>1 DEF Cheaper, BudgetIInv, JobTypes, Committed
<1>4. CASE Paid
  <2>1. Cardinality(Calls(job')) <= Cardinality(Calls(job)) - 1
    BY <1>1, <1>4, OneLess DEF Paid
  <2> QED
    BY <1>1, <1>2, <1>4, <2>1 DEF Paid, BudgetIInv, JobTypes, Committed
<1>5. CASE Looked
  BY <1>1, <1>2, <1>5 DEF Looked, BudgetIInv, JobTypes, Committed
<1>6. CASE Reset
  <2>1. Cardinality(Calls(job')) <= Cardinality(Calls(job))
    BY <1>1, <1>6, FewerLeft DEF Reset
  <2> QED
    BY <1>1, <1>2, <1>6, <2>1 DEF Reset, BudgetIInv, JobTypes, Committed
<1> QED
  BY <1>3, <1>4, <1>5, <1>6

\* One worker goes on.
LEMMA GoesTo ==
  ASSUME JobTypes, NEW w \in Workers, NEW x \in Job, Goto(w, x)
  PROVE  /\ job' \in [Workers -> Job] /\ job'[w] = x
         /\ \A v \in Workers : v # w => job'[v] = job[v]
         /\ Left(x) \in Int /\ \A v \in Workers : Left(job[v]) \in Int
         /\ Left(x) <= Left(job[w]) /\ spent' = spent => Cheaper
         /\ Left(x) < Left(job[w]) /\ spent' = spent + 1 => Paid
<1>1. /\ job' \in [Workers -> Job] /\ job'[w] = x
      /\ \A v \in Workers : v # w => job'[v] = job[v]
  BY DEF JobTypes, Goto
<1>2. Left(x) \in Int /\ \A v \in Workers : Left(job[v]) \in Int
  BY JobFields DEF JobTypes
<1> QED
  BY <1>1, <1>2 DEF Cheaper, Paid

\* A request that starts owes nothing yet.
LEMMA StartSteps ==
  ASSUME JobTypes, NEW w \in Workers, NEW s \in Signatures,
         AskAnalysis(w, s) \/ Trigger(w, s)
  PROVE  job' \in [Workers -> Job] /\ Cheaper
<1> DEFINE x == [at |-> "lookup", sig |-> s]
<1>1. x \in Job /\ Left(x) = 0 /\ Left(Idle) = 0
  BY JobForms
<1>2. spent' = spent /\ job[w] = Idle /\ Goto(w, x)
  BY DEF AskAnalysis, Trigger
<1> HIDE DEF x
<1> QED
  BY <1>1, <1>2, GoesTo

\* Everything else a worker does.
LEMMA WorkSteps ==
  ASSUME JobTypes, NEW w \in Workers, Work(w)
  PROVE  job' \in [Workers -> Job] /\ (Cheaper \/ Paid \/ Looked)
<1>1. job[w] \in Job /\ Idle \in Job /\ Left(Idle) = 0 /\ spent \in Nat
  BY JobForms DEF JobTypes
<1> DEFINE sig == job[w].sig
<1>2. ASSUME NEW p \in {"lookup", "admit", "call", "file"}, NEW q \in {"lookup", "admit", "call", "file"},
             job[w].at = p
      PROVE  /\ [job[w] EXCEPT !.at = q] = [at |-> q, sig |-> sig]
             /\ [at |-> q, sig |-> sig] \in Job
             /\ Left(job[w]) = IF p \in {"admit", "call"} THEN 1 ELSE 0
             /\ Left([at |-> q, sig |-> sig]) = IF q \in {"admit", "call"} THEN 1 ELSE 0
  <2>1. job[w] = [at |-> p, sig |-> sig] /\ sig \in Signatures
    BY <1>1, <1>2, JobFields
  <2>2. [job[w] EXCEPT !.at = q] = [at |-> q, sig |-> sig]
    BY <2>1
  <2> HIDE DEF sig
  <2> QED
    BY <2>1, <2>2, JobForms
<1> HIDE DEF sig
<1>3. CASE Lookup(w)
  <2>1. job[w].at = "lookup" /\ spent' = spent
    BY <1>3 DEF Lookup
  <2>2. CASE Goto(w, Idle)
    BY <1>1, <1>2, <2>1, <2>2, GoesTo
  <2>3. CASE Check /\ Goto(w, [job[w] EXCEPT !.at = "admit"])
    <3>1. Goto(w, [at |-> "admit", sig |-> sig]) /\ [at |-> "admit", sig |-> sig] \in Job
      BY <1>2, <2>1, <2>3
    <3> QED
      BY <2>1, <2>3, <3>1, GoesTo DEF Looked, Check
  <2> QED
    BY <1>3, <2>2, <2>3 DEF Lookup
<1>4. CASE Admit(w)
  <2>1. job[w].at = "admit" /\ spent' = spent
    BY <1>4 DEF Admit
  <2>2. CASE Goto(w, Idle)
    BY <1>1, <1>2, <2>1, <2>2, GoesTo
  <2>3. CASE Goto(w, [job[w] EXCEPT !.at = "call"])
    BY <1>2, <2>1, <2>3, GoesTo
  <2> QED
    BY <1>4, <2>2, <2>3 DEF Admit
<1>5. CASE CallFails(w)
  BY <1>1, <1>2, <1>5, GoesTo DEF CallFails, Record
<1>6. CASE CallEnds(w)
  <2>1. job[w].at = "call" /\ spent' = spent + 1 /\ Goto(w, [job[w] EXCEPT !.at = "file"])
    BY <1>6 DEF CallEnds, Record
  <2> QED
    BY <1>2, <2>1, GoesTo
<1>7. CASE File(w)
  BY <1>1, <1>2, <1>7, GoesTo DEF File
<1>8. CASE StartChat(w)
  <2> DEFINE x == [at |-> "ask", left |-> ToolCalls]
  <2>1. x \in Job
    BY JobForms, AIAssumption
  <2>2. job[w].at = "check" /\ spent' = spent /\ Left(job[w]) \in Nat
    BY <1>1, <1>8, JobFields DEF StartChat
  <2>3. CASE Goto(w, Idle)
    BY <1>1, <2>2, <2>3, GoesTo
  <2>4. CASE Check /\ Goto(w, x)
    <3> HIDE DEF x
    <3> QED
      BY <2>1, <2>2, <2>4, GoesTo DEF Looked, Check
  <2> QED
    BY <1>8, <2>3, <2>4 DEF StartChat
<1>9. CASE ChatTurn(w)
  <2> DEFINE n == job[w].left
             x == [at |-> "ask", left |-> n - 1]
  <2>1. job[w] = [at |-> "ask", left |-> n] /\ n \in 1..ToolCalls /\ Left(job[w]) = n
    <3>1. job[w] = [at |-> "ask", left |-> n] /\ n \in 1..ToolCalls
      BY <1>1, <1>9, JobFields DEF ChatTurn
    <3> HIDE DEF n
    <3> QED
      BY <3>1, JobForms
  <2>2. spent' \in {spent, spent + 1}
    BY <1>9 DEF ChatTurn, Record
  <2>3. CASE Goto(w, Idle)
    <3> HIDE DEF n
    <3> QED
      BY <1>1, <2>1, <2>2, <2>3, GoesTo
  <2>4. CASE n # 1 /\ Goto(w, [job[w] EXCEPT !.left = @ - 1])
    <3>1. [job[w] EXCEPT !.left = @ - 1] = x
      BY <2>1
    <3> HIDE DEF n
    <3>2. x \in Job /\ Left(x) = n - 1
      BY <2>1, <2>4, JobForms, AIAssumption
    <3>3. Goto(w, x)
      BY <2>4, <3>1
    <3> HIDE DEF x
    <3> QED
      BY <2>1, <2>2, <3>2, <3>3, GoesTo
  <2> QED
    BY <1>9, <2>3, <2>4 DEF ChatTurn
<1> QED
  BY <1>3, <1>4, <1>5, <1>6, <1>7, <1>8, <1>9 DEF Work, Proceed, Await

\* The budget is never committed by more than the workers can owe.
LEMMA BudgetKeeps == BudgetIInv /\ [Next]_vars => BudgetIInv'
<1> SUFFICES ASSUME BudgetIInv, [Next]_vars PROVE BudgetIInv'
  OBVIOUS
<1>1. JobTypes /\ job \in [Workers -> Job]
  BY DEF BudgetIInv, JobTypes
<1>2. \A w \in Workers : Left(job[w]) \in 0..ToolCalls
  BY <1>1, JobFields
<1>3. ASSUME UNCHANGED job, spent' \in {spent, 0}
      PROVE  BudgetIInv'
  <2>1. job' \in [Workers -> Job] /\ (Cheaper \/ Reset)
    BY <1>1, <1>2, <1>3 DEF Cheaper, Reset
  <2> QED
    BY <2>1, BudgetSteps
<1>4. CASE Tick \/ Expire \/ Midnight \/ UNCHANGED vars
  BY <1>3, <1>4 DEF Tick, Expire, Midnight, vars, serviceVars
<1>5. CASE Restart
  <2>1. job' \in [Workers -> Job] /\ Reset
    BY <1>2, <1>5, JobForms DEF Restart, Reset
  <2> QED
    BY <2>1, BudgetSteps
<1>6. ASSUME NEW w \in Workers, Work(w)
      PROVE  BudgetIInv'
  BY <1>1, <1>6, WorkSteps, BudgetSteps
<1>7. ASSUME NEW w \in Workers, NEW s \in Signatures, AskAnalysis(w, s) \/ Trigger(w, s)
      PROVE  BudgetIInv'
  BY <1>1, <1>7, StartSteps, BudgetSteps
<1>8. ASSUME NEW w \in Workers, AskQuestion(w)
      PROVE  BudgetIInv'
  <2>1. spent' = spent /\ job[w] = Idle /\ Goto(w, [at |-> "check"])
    BY <1>8 DEF AskQuestion
  <2>2. job' \in [Workers -> Job] /\ Cheaper
    BY <1>1, <2>1, JobForms, GoesTo
  <2> QED
    BY <2>2, BudgetSteps
<1> QED
  BY <1>4, <1>5, <1>6, <1>7, <1>8 DEF Next

\* The service starts with nothing under way, nothing cached and nothing spent.
LEMMA InitBudget == Init => BudgetIInv
<1> SUFFICES ASSUME Init PROVE BudgetIInv
  OBVIOUS
<1>1. JobTypes /\ job \in [Workers -> Job]
  BY JobForms DEF Init, JobTypes
<1>2. Cardinality(Calls(job)) \in Nat /\ Most \in Nat /\ Cardinality(Calls(job)) <= Most
  BY <1>1, CallsFinite
<1> QED
  BY <1>1, <1>2, AIAssumption DEF Init, BudgetIInv, Committed

\* The day's spending exceeds the cap by the calls that were under way when it was
\* reached and by no other.
THEOREM BudgetHolds == Spec => []Overrun
<1>1. BudgetIInv => Overrun
  <2> SUFFICES ASSUME BudgetIInv PROVE Overrun
    OBVIOUS
  <2>1. spent \in Nat /\ Cardinality(Calls(job)) \in Nat /\ spent + Cardinality(Calls(job)) < MaxDaily + Most
        /\ Most \in Nat /\ MaxDaily \in Nat
    BY CallsFinite, AIAssumption DEF BudgetIInv, JobTypes, Committed
  <2>2. spent < MaxDaily + Most
    BY <2>1
  <2> QED
    BY <2>2 DEF Most, Overrun
<1> QED
  BY <1>1, InitBudget, BudgetKeeps, PTL DEF Spec

-----------------------------------------------------------------------------
(* The cache.                                                              *)

\* t has elements of c and none of them twice.
Part(t, c) == \E f \in [1..Len(t) -> 1..Len(c)] :
                /\ \A i, j \in 1..Len(t) : f[i] = f[j] => i = j
                /\ \A i \in 1..Len(t) : t[i] = c[f[i]]

\* There is one answer to a signature, as in the map that the cache is (rag.go).
OneEach(c) == \A i, j \in 1..Len(c) : c[i].sig = c[j].sig => i = j

\* What has parts of such a cache is such a cache.
LEMMA PartOneEach ==
  ASSUME NEW t, NEW c, Part(t, c), OneEach(c)
  PROVE  OneEach(t)
<1>1. PICK f \in [1..Len(t) -> 1..Len(c)] :
        /\ \A i, j \in 1..Len(t) : f[i] = f[j] => i = j
        /\ \A i \in 1..Len(t) : t[i] = c[f[i]]
  BY DEF Part
<1> SUFFICES ASSUME NEW i \in 1..Len(t), NEW j \in 1..Len(t), t[i].sig = t[j].sig
             PROVE  i = j
  BY DEF OneEach
<1>2. f[i] \in 1..Len(c) /\ f[j] \in 1..Len(c) /\ c[f[i]].sig = c[f[j]].sig
  BY <1>1
<1> QED
  BY <1>1, <1>2 DEF OneEach

\* What is left when the oldest are dropped.
LEMMA RestPart ==
  ASSUME NEW c \in Seq(Answer), NEW n \in 0..Len(c)
  PROVE  LET t == SubSeq(c, n + 1, Len(c))
         IN  t \in Seq(Answer) /\ Len(t) = Len(c) - n /\ Part(t, c)
             /\ \A i \in 1..Len(t) : i + n \in 1..Len(c) /\ t[i] = c[i + n]
<1> DEFINE t == SubSeq(c, n + 1, Len(c))
           f == [i \in 1..Len(t) |-> i + n]
<1>1. Len(c) \in Nat /\ n \in Nat /\ n <= Len(c)
  BY LenProperties
<1>2. /\ t \in Seq(Answer)
      /\ Len(t) = IF n + 1 <= Len(c) THEN Len(c) - (n + 1) + 1 ELSE 0
      /\ \A i \in 1..Len(c) - (n + 1) + 1 : t[i] = c[n + 1 + i - 1]
  <2>1. \A i \in n + 1..Len(c) : c[i] \in Answer
    BY <1>1, ElementOfSeq
  <2> QED
    BY <1>1, <2>1, SubSeqProperties
<1>3. Len(t) = Len(c) - n
  BY <1>1, <1>2
<1>4. \A i \in 1..Len(t) : i + n \in 1..Len(c) /\ t[i] = c[i + n]
  BY <1>1, <1>2, <1>3
<1> HIDE DEF t
<1>5. f \in [1..Len(t) -> 1..Len(c)]
  BY <1>4
<1>6. \A i, j \in 1..Len(t) : f[i] = f[j] => i = j
  BY <1>1, <1>3
<1>7. Part(t, c)
  BY <1>4, <1>5, <1>6 DEF Part
<1> QED
  BY <1>2, <1>3, <1>4, <1>7 DEF t

\* What is left when one is taken out.
LEMMA RemovedPart ==
  ASSUME NEW c \in Seq(Answer), NEW k \in 1..Len(c)
  PROVE  LET t == RemoveAt(c, k)
         IN  /\ t \in Seq(Answer) /\ Len(t) = Len(c) - 1 /\ Part(t, c)
             /\ \A i \in 1..Len(t) : \E j \in 1..Len(c) : j # k /\ t[i] = c[j]
<1> DEFINE a == SubSeq(c, 1, k - 1)
           b == SubSeq(c, k + 1, Len(c))
           t == RemoveAt(c, k)
           g(i) == IF i < k THEN i ELSE i + 1
           f == [i \in 1..Len(t) |-> g(i)]
<1>1. Len(c) \in Nat /\ k \in Nat /\ 1 <= k /\ k <= Len(c) /\ \A i \in 1..Len(c) : c[i] \in Answer
  BY LenProperties, ElementOfSeq
<1>2. /\ a \in Seq(Answer) /\ Len(a) = k - 1 /\ \A i \in 1..k - 1 : a[i] = c[i]
  <2>1. \A i \in 1..k - 1 : c[i] \in Answer
    BY <1>1
  <2>2. /\ a \in Seq(Answer) /\ Len(a) = (IF 1 <= k - 1 THEN k - 1 - 1 + 1 ELSE 0)
        /\ \A i \in 1..k - 1 - 1 + 1 : a[i] = c[1 + i - 1]
    BY <1>1, <2>1, SubSeqProperties
  <2> QED
    BY <1>1, <2>2
<1>3. /\ b \in Seq(Answer) /\ Len(b) = Len(c) - k /\ \A i \in 1..Len(c) - k : b[i] = c[k + i]
  <2>1. \A i \in k + 1..Len(c) : c[i] \in Answer
    BY <1>1
  <2>2. /\ b \in Seq(Answer) /\ Len(b) = (IF k + 1 <= Len(c) THEN Len(c) - (k + 1) + 1 ELSE 0)
        /\ \A i \in 1..Len(c) - (k + 1) + 1 : b[i] = c[k + 1 + i - 1]
    BY <1>1, <2>1, SubSeqProperties
  <2> QED
    BY <1>1, <2>2
<1>4. t = a \o b
  BY DEF RemoveAt
<1> HIDE DEF a, b, t
<1>5. /\ t \in Seq(Answer) /\ Len(t) = Len(a) + Len(b)
      /\ \A i \in 1..Len(a) + Len(b) : t[i] = IF i <= Len(a) THEN a[i] ELSE b[i - Len(a)]
  BY <1>2, <1>3, <1>4, ConcatProperties
<1>6. Len(t) = Len(c) - 1
  BY <1>1, <1>2, <1>3, <1>5
<1>7. ASSUME NEW i \in 1..Len(t)
      PROVE  g(i) \in 1..Len(c) /\ g(i) # k /\ t[i] = c[g(i)]
  <2>1. CASE i < k
    <3>1. i \in 1..k - 1 /\ i <= Len(a) /\ i \in 1..Len(a) + Len(b)
      BY <1>1, <1>2, <1>3, <1>6, <2>1
    <3>2. t[i] = a[i] /\ a[i] = c[i]
      BY <1>2, <1>5, <3>1
    <3> QED
      BY <1>1, <1>6, <2>1, <3>2
  <2>2. CASE ~ (i < k)
    <3>1. i - Len(a) \in 1..Len(c) - k /\ ~ (i <= Len(a)) /\ i \in 1..Len(a) + Len(b)
      BY <1>1, <1>2, <1>3, <1>6, <2>2
    <3>2. t[i] = b[i - Len(a)] /\ b[i - Len(a)] = c[k + (i - Len(a))]
      BY <1>3, <1>5, <3>1
    <3>3. k + (i - Len(a)) = i + 1
      BY <1>1, <1>2, <1>6
    <3> QED
      BY <1>1, <1>6, <2>2, <3>2, <3>3
  <2> QED
    BY <2>1, <2>2
<1>8. \A i, j \in 1..Len(t) : g(i) = g(j) => i = j
  BY <1>1, <1>6
<1> HIDE DEF g
<1>9. Part(t, c)
  <2>1. f \in [1..Len(t) -> 1..Len(c)]
    BY <1>7
  <2>2. \A i \in 1..Len(t) : f[i] = g(i)
    OBVIOUS
  <2> HIDE DEF f
  <2>3. ASSUME NEW i \in 1..Len(t), NEW j \in 1..Len(t), f[i] = f[j] PROVE i = j
    BY <1>8, <2>2, <2>3
  <2>4. \A i \in 1..Len(t) : t[i] = c[f[i]]
    BY <1>7, <2>2
  <2> QED
    BY <2>1, <2>3, <2>4 DEF Part
<1> QED
  BY <1>5, <1>6, <1>7, <1>9 DEF t

\* The cache is a sequence of answers, one to a signature, and no longer than allowed.
CacheTypes ==
  /\ cache \in Seq(Answer) /\ Len(cache) <= CacheEntries /\ OneEach(cache)
  /\ expired \in 0..Len(cache)

\* What saving an answer makes of the cache.
LEMMA SavedCache ==
  ASSUME CacheTypes, NEW s \in Signatures
  PROVE  LET new == Saved(s)
         IN  /\ new \in Seq(Answer) /\ Len(new) <= CacheEntries /\ OneEach(new)
             /\ Len(new) \in Nat
             /\ \A i \in 1..Len(new) : new[i] = [sig |-> s, filed |-> "pending"] \/ new[i] \in Live
<1> DEFINE live == SubSeq(cache, expired + 1, Len(cache))
           k == CHOOSE i \in 1..Len(live) : live[i].sig = s
           room == CASE s \in Cached -> RemoveAt(live, k)
                     [] s \notin Cached /\ Len(live) >= CacheEntries -> Tail(live)
                     [] OTHER -> live
           e == [sig |-> s, filed |-> "pending"]
           new == Append(room, e)
<1>1. /\ live \in Seq(Answer) /\ Len(live) = Len(cache) - expired /\ Part(live, cache)
      /\ \A i \in 1..Len(live) : i + expired \in 1..Len(cache) /\ live[i] = cache[i + expired]
  BY RestPart DEF CacheTypes
<1>2. Len(cache) \in Nat /\ expired \in Nat /\ expired <= Len(cache) /\ Len(cache) <= CacheEntries
      /\ CacheEntries \in Nat \ {0}
  BY LenProperties, AIAssumption DEF CacheTypes
<1>3. Len(live) \in Nat /\ Len(live) <= CacheEntries /\ OneEach(live)
  <2>1. Len(live) \in Nat /\ Len(live) <= CacheEntries
    BY <1>1, <1>2
  <2> QED
    BY <1>1, <2>1, PartOneEach DEF CacheTypes
<1>4. /\ \A i \in 1..Len(live) : live[i] \in Live /\ live[i].sig \in Cached
      /\ \A x \in Cached : \E i \in 1..Len(live) : live[i].sig = x
  <2>1. ASSUME NEW i \in 1..Len(live) PROVE live[i] \in Live
    <3>1. i + expired \in expired + 1..Len(cache)
      BY <1>1, <1>2
    <3> QED
      BY <1>1, <3>1 DEF Live
  <2>2. ASSUME NEW x \in Cached PROVE \E i \in 1..Len(live) : live[i].sig = x
    <3>1. PICK j \in expired + 1..Len(cache) : cache[j].sig = x
      BY DEF Cached, Live
    <3>2. j - expired \in 1..Len(live) /\ (j - expired) + expired = j
      BY <1>1, <1>2
    <3>3. live[j - expired] = cache[j]
      BY <1>1, <3>2
    <3> QED
      BY <3>1, <3>2, <3>3
  <2> QED
    BY <2>1, <2>2 DEF Cached
<1> HIDE DEF live
<1>5. /\ room \in Seq(Answer) /\ Len(room) \in Nat /\ Len(room) + 1 <= CacheEntries /\ OneEach(room)
      /\ \A i \in 1..Len(room) : room[i] \in Live /\ room[i].sig # s
  <2>1. CASE s \in Cached
    <3>1. k \in 1..Len(live) /\ live[k].sig = s
      BY <1>4, <2>1
    <3>2. room = RemoveAt(live, k)
      BY <2>1
    <3> HIDE DEF k, room
    <3>3. /\ room \in Seq(Answer) /\ Len(room) = Len(live) - 1 /\ Part(room, live)
          /\ \A i \in 1..Len(room) : \E j \in 1..Len(live) : j # k /\ room[i] = live[j]
      BY <1>1, <3>1, <3>2, RemovedPart
    <3>4. ASSUME NEW i \in 1..Len(room) PROVE room[i] \in Live /\ room[i].sig # s
      <4>1. PICK j \in 1..Len(live) : j # k /\ room[i] = live[j]
        BY <3>3
      <4> QED
        BY <1>3, <1>4, <3>1, <4>1 DEF OneEach
    <3>5. OneEach(room)
      BY <1>3, <3>3, PartOneEach
    <3>6. Len(room) \in Nat /\ Len(room) + 1 <= CacheEntries
      BY <1>2, <1>3, <3>1, <3>3
    <3> QED
      BY <3>3, <3>4, <3>5, <3>6
  <2>2. CASE s \notin Cached /\ Len(live) >= CacheEntries
    <3>1. live # <<>> /\ Len(live) \in Nat \ {0}
      <4>1. Len(live) # 0
        BY <1>2, <1>3, <2>2
      <4> QED
        BY <1>1, <1>3, <4>1, EmptySeq
    <3>2. room = Tail(live) /\ Tail(live) = SubSeq(live, 1 + 1, Len(live))
      <4>1. room = Tail(live)
        BY <2>2
      <4> HIDE DEF room
      <4>2. Tail(live) = SubSeq(live, 1 + 1, Len(live))
        <5>1. Tail(live) \in Seq(Answer) /\ Len(Tail(live)) = Len(live) - 1
              /\ \A i \in 1..Len(Tail(live)) : Tail(live)[i] = live[i + 1]
          BY <1>1, <3>1, HeadTailProperties
        <5>0. 1 \in 0..Len(live)
          BY <3>1
        <5>2. /\ SubSeq(live, 1 + 1, Len(live)) \in Seq(Answer)
              /\ Len(SubSeq(live, 1 + 1, Len(live))) = Len(live) - 1
              /\ \A i \in 1..Len(live) - 1 : SubSeq(live, 1 + 1, Len(live))[i] = live[i + 1]
          BY <1>1, <5>0, RestPart
        <5> QED
          BY <5>1, <5>2, SeqEqual
      <4> QED
        BY <4>1, <4>2
    <3> HIDE DEF room
    <3>0. 1 \in 0..Len(live) /\ room = SubSeq(live, 1 + 1, Len(live))
      BY <3>1, <3>2
    <3>3. /\ room \in Seq(Answer) /\ Len(room) = Len(live) - 1 /\ Part(room, live)
          /\ \A i \in 1..Len(room) : i + 1 \in 1..Len(live) /\ room[i] = live[i + 1]
      BY <1>1, <3>0, RestPart
    <3>4. OneEach(room) /\ Len(room) \in Nat /\ Len(room) + 1 <= CacheEntries
      BY <1>2, <1>3, <3>1, <3>3, PartOneEach
    <3> QED
      BY <1>4, <2>2, <3>3, <3>4
  <2>3. CASE s \notin Cached /\ ~ (Len(live) >= CacheEntries)
    BY <1>1, <1>2, <1>3, <1>4, <2>3
  <2> QED
    BY <2>1, <2>2, <2>3
<1>6. e \in Answer
  BY DEF Answer
<1>7. Saved(s) = new
  BY DEF Saved, live
<1> HIDE DEF room, new
<1>8. /\ new \in Seq(Answer) /\ Len(new) = Len(room) + 1 /\ new[Len(room) + 1] = e
      /\ \A i \in 1..Len(room) : new[i] = room[i]
  BY <1>5, <1>6, AppendProperties DEF new
<1>9. \A i \in 1..Len(new) : i \in 1..Len(room) \/ i = Len(room) + 1
  BY <1>5, <1>8
<1>10. OneEach(new)
  <2> SUFFICES ASSUME NEW i \in 1..Len(new), NEW j \in 1..Len(new), new[i].sig = new[j].sig
               PROVE  i = j
    BY DEF OneEach
  <2>1. e.sig = s
    OBVIOUS
  <2> HIDE DEF e
  <2>2. CASE i \in 1..Len(room) /\ j \in 1..Len(room)
    BY <1>5, <1>8, <2>2 DEF OneEach
  <2>3. CASE i = Len(room) + 1 \/ j = Len(room) + 1
    BY <1>5, <1>8, <1>9, <2>1, <2>3
  <2> QED
    BY <1>9, <2>2, <2>3
<1>11. \A i \in 1..Len(new) : new[i] = e \/ new[i] \in Live
  BY <1>5, <1>8, <1>9
<1>12. Len(new) \in Nat /\ Len(new) <= CacheEntries
  BY <1>5, <1>8
<1> QED
  BY <1>7, <1>8, <1>10, <1>11, <1>12

-----------------------------------------------------------------------------
(* The cache through the steps.                                            *)

\* What storing, or failing to store, the answer to s makes of the cache.
Filed(s, how) ==
  [i \in 1..Len(cache) |->
    IF cache[i].sig = s /\ cache[i].filed # "yes"
    THEN [cache[i] EXCEPT !.filed = how] ELSE cache[i]]

\* An answer keeps its place and its signature; the one that is stored is no longer
\* pending.
LEMMA FiledCache ==
  ASSUME CacheTypes, NEW s \in Signatures, NEW how \in {"yes", "failed"}
  PROVE  LET new == Filed(s, how)
         IN  /\ new \in Seq(Answer) /\ Len(new) = Len(cache)
             /\ \A i \in 1..Len(cache) :
                  /\ new[i].sig = cache[i].sig
                  /\ new[i].filed = "pending" => cache[i].filed = "pending" /\ cache[i].sig # s
<1> DEFINE new == Filed(s, how)
<1>1. Len(cache) \in Nat /\ \A i \in 1..Len(cache) : cache[i] \in Answer
  BY LenProperties, ElementOfSeq DEF CacheTypes
<1>2. ASSUME NEW i \in 1..Len(cache)
      PROVE  /\ new[i] \in Answer /\ new[i].sig = cache[i].sig
             /\ new[i].filed = "pending" => cache[i].filed = "pending" /\ cache[i].sig # s
  BY <1>1 DEF Filed, Answer
<1>3. new \in [1..Len(cache) -> Answer]
  BY <1>2 DEF Filed
<1> HIDE DEF new
<1>4. new \in Seq(Answer)
  BY <1>1, <1>3, SeqDef
<1>5. Len(new) = Len(cache)
  BY <1>1, <1>3, <1>4, LenProperties
<1> QED
  BY <1>2, <1>4, <1>5 DEF new

\* A worker that calls or files does so for a signature.
LEMMA JobSig ==
  ASSUME JobTypes, NEW w \in Workers, job[w].at \in {"call", "file"}
  PROVE  /\ job[w].sig \in Signatures
         /\ job[w] = [at |-> job[w].at, sig |-> job[w].sig]
         /\ [job[w] EXCEPT !.at = "file"] = [at |-> "file", sig |-> job[w].sig]
<1>1. /\ job[w] = [at |-> job[w].at, sig |-> job[w].sig] /\ job[w].sig \in Signatures
  BY JobFields DEF JobTypes
<1> QED
  BY <1>1

\* The steps that the cache knows of.
CacheStep ==
  \/ \E s \in Signatures : cache' = Saved(s) /\ expired' = 0
  \/ \E s \in Signatures, how \in {"yes", "failed"} : cache' = Filed(s, how) /\ expired' = expired
  \/ cache' = cache /\ expired < Len(cache) /\ expired' = expired + 1
  \/ cache' = <<>> /\ expired' = 0
  \/ cache' = cache /\ expired' = expired

\* Every step is one of these.
LEMMA CacheSteps == JobTypes /\ [Next]_vars => CacheStep
<1> SUFFICES ASSUME JobTypes, [Next]_vars PROVE CacheStep
  OBVIOUS
<1>1. ASSUME NEW w \in Workers, CallEnds(w) PROVE CacheStep
  <2>1. job[w].sig \in Signatures
    BY <1>1, JobSig DEF CallEnds
  <2> QED
    BY <1>1, <2>1 DEF CallEnds, CacheStep
<1>2. ASSUME NEW w \in Workers, File(w) PROVE CacheStep
  <2>1. job[w].sig \in Signatures
    BY <1>2, JobSig DEF File
  <2> QED
    BY <1>2, <2>1 DEF File, CacheStep, Filed
<1>3. ASSUME NEW w \in Workers, Work(w) PROVE CacheStep
  <2>1. CASE Lookup(w) \/ Admit(w) \/ CallFails(w) \/ StartChat(w) \/ ChatTurn(w)
    BY <2>1 DEF Lookup, Admit, CallFails, StartChat, ChatTurn, CacheStep
  <2> QED
    BY <1>1, <1>2, <1>3, <2>1 DEF Work, Proceed, Await
<1>4. ASSUME NEW w \in Workers, AskQuestion(w) PROVE CacheStep
  BY <1>4 DEF AskQuestion, CacheStep
<1>5. ASSUME NEW w \in Workers, NEW s \in Signatures, AskAnalysis(w, s) \/ Trigger(w, s)
      PROVE  CacheStep
  BY <1>5 DEF AskAnalysis, Trigger, CacheStep
<1>6. CASE Expire
  BY <1>6 DEF Expire, CacheStep
<1>7. CASE Restart
  BY <1>7 DEF Restart, CacheStep
<1>8. CASE Tick \/ Midnight \/ UNCHANGED vars
  BY <1>8 DEF Tick, Midnight, vars, serviceVars, CacheStep
<1> QED
  BY <1>3, <1>4, <1>5, <1>6, <1>7, <1>8 DEF Next

\* The cache stays one answer to a signature and within its limit.
LEMMA CacheKept == CacheTypes /\ CacheStep => CacheTypes'
<1> SUFFICES ASSUME CacheTypes, CacheStep PROVE CacheTypes'
  OBVIOUS
<1>1. Len(cache) \in Nat /\ expired \in 0..Len(cache) /\ CacheEntries \in Nat
  BY LenProperties, AIAssumption DEF CacheTypes
<1>2. ASSUME NEW s \in Signatures, cache' = Saved(s), expired' = 0
      PROVE  CacheTypes'
  <2>1. cache' \in Seq(Answer) /\ Len(cache') <= CacheEntries /\ OneEach(cache') /\ Len(cache') \in Nat
    BY <1>2, SavedCache
  <2> QED
    BY <1>2, <2>1 DEF CacheTypes
<1>3. ASSUME NEW s \in Signatures, NEW how \in {"yes", "failed"},
             cache' = Filed(s, how), expired' = expired
      PROVE  CacheTypes'
  <2>1. /\ cache' \in Seq(Answer) /\ Len(cache') = Len(cache)
        /\ \A i \in 1..Len(cache) : cache'[i].sig = cache[i].sig
    BY <1>3, FiledCache
  <2>2. OneEach(cache')
    BY <2>1 DEF OneEach, CacheTypes
  <2> QED
    BY <1>3, <2>1, <2>2 DEF CacheTypes
<1>4. CASE cache' = cache /\ expired < Len(cache) /\ expired' = expired + 1
  BY <1>1, <1>4 DEF CacheTypes, OneEach
<1>5. CASE cache' = <<>> /\ expired' = 0
  <2>1. cache' \in Seq(Answer) /\ Len(cache') = 0
    BY <1>5, EmptySeq
  <2> QED
    BY <1>1, <1>5, <2>1 DEF CacheTypes, OneEach
<1>6. CASE cache' = cache /\ expired' = expired
  BY <1>6 DEF CacheTypes, OneEach
<1> QED
  BY <1>2, <1>3, <1>4, <1>5, <1>6 DEF CacheStep

\* The steps of the automatic analyses' clock.
LEMMA ClockKept == sinceAuto \in 0..Cooldown + 1 /\ [Next]_vars => sinceAuto' \in 0..Cooldown + 1
<1> SUFFICES ASSUME sinceAuto \in 0..Cooldown + 1, [Next]_vars PROVE sinceAuto' \in 0..Cooldown + 1
  OBVIOUS
<1> USE AIAssumption
<1>1. ASSUME NEW w \in Workers, Work(w) PROVE sinceAuto' = sinceAuto
  BY <1>1 DEF Work, Proceed, Await, Lookup, Admit, CallFails, CallEnds, File, StartChat, ChatTurn
<1>2. ASSUME NEW w \in Workers, NEW s \in Signatures, AskAnalysis(w, s) \/ Trigger(w, s)
      PROVE  sinceAuto' \in {0, sinceAuto}
  BY <1>2 DEF AskAnalysis, Trigger
<1>3. ASSUME NEW w \in Workers, AskQuestion(w) PROVE sinceAuto' = sinceAuto
  BY <1>3 DEF AskQuestion
<1>4. CASE Tick
  BY <1>4 DEF Tick
<1>5. CASE Restart
  BY <1>5 DEF Restart
<1>6. CASE Expire \/ Midnight \/ UNCHANGED vars
  BY <1>6 DEF Expire, Midnight, vars, serviceVars
<1> QED
  BY <1>1, <1>2, <1>3, <1>4, <1>5, <1>6 DEF Next

AIIInv == BreakerIInv /\ BudgetIInv /\ CacheTypes /\ sinceAuto \in 0..Cooldown + 1

\* And so the invariant holds there.
LEMMA InitAI == Init => AIIInv
<1> SUFFICES ASSUME Init PROVE AIIInv
  OBVIOUS
<1>1. cache \in Seq(Answer) /\ Len(cache) = 0
  BY EmptySeq DEF Init
<1>2. CacheTypes
  BY <1>1, AIAssumption DEF Init, CacheTypes, OneEach
<1>3. BreakerIInv
  BY InitBreaker DEF Init
<1>4. sinceAuto \in 0..Cooldown + 1
  BY AIAssumption DEF Init
<1> QED
  BY <1>2, <1>3, <1>4, InitBudget DEF AIIInv

\* Every step keeps it.
LEMMA AIKept == AIIInv /\ [Next]_vars => AIIInv'
<1> SUFFICES ASSUME AIIInv, [Next]_vars PROVE AIIInv'
  OBVIOUS
<1>1. BreakerIInv'
  BY BreakerSteps, ServiceSteps DEF AIIInv
<1>2. BudgetIInv'
  BY BudgetKeeps DEF AIIInv
<1>3. CacheTypes'
  BY CacheSteps, CacheKept DEF AIIInv, BudgetIInv
<1>4. (sinceAuto \in 0..Cooldown + 1)'
  BY ClockKept DEF AIIInv
<1> QED
  BY <1>1, <1>2, <1>3, <1>4 DEF AIIInv

\* Every variable keeps its type: in particular the cache never outgrows its limit,
\* though the answers of several workers come in after it was found full, and has one
\* answer to a signature, though two workers may have asked for the same one.
THEOREM TypeCorrect == Spec => []TypeOK
<1>1. AIIInv => TypeOK
  <2> SUFFICES ASSUME AIIInv PROVE TypeOK
    OBVIOUS
  <2>1. cache \in BoundedSeq(Answer, CacheEntries)
    <3>1. cache \in Seq(Answer) /\ Len(cache) \in Nat /\ Len(cache) <= CacheEntries /\ CacheEntries \in Nat
      BY LenProperties, AIAssumption DEF AIIInv, CacheTypes
    <3>2. cache \in [1..Len(cache) -> Answer] /\ Len(cache) \in 0..CacheEntries
      BY <3>1, LenProperties
    <3> QED
      BY <3>2 DEF BoundedSeq, SeqOf
  <2>2. \A i, j \in DOMAIN cache : cache[i].sig = cache[j].sig => i = j
    BY LenProperties DEF AIIInv, CacheTypes, OneEach
  <2> QED
    BY <2>1, <2>2 DEF AIIInv, BreakerIInv, BudgetIInv, JobTypes, CacheTypes, TypeOK
<1> QED
  BY <1>1, InitAI, AIKept, PTL DEF Spec

-----------------------------------------------------------------------------
(* What is served from the cache is on file.                               *)

\* Somebody is about to store the answer to s.
Filing(s) == \E w \in Workers : job[w] = [at |-> "file", sig |-> s]

\* Whoever is about to store the answer to s still is when another worker goes on.
LEMMA FilersStay ==
  ASSUME JobTypes, NEW w \in Workers, NEW x, Goto(w, x), NEW s, Filing(s),
         job[w] # [at |-> "file", sig |-> s]
  PROVE  Filing(s)'
<1>1. PICK v \in Workers : job[v] = [at |-> "file", sig |-> s]
  BY DEF Filing
<1>2. v # w
  BY <1>1
<1>3. job'[v] = job[v]
  BY <1>1, <1>2 DEF JobTypes, Goto
<1> QED
  BY <1>1, <1>3 DEF Filing

\* What a worker does keeps pending answers in somebody's hands.
LEMMA WorkFiles ==
  ASSUME JobTypes, CacheTypes, OnFile, NEW w \in Workers, Work(w)
  PROVE  OnFile'
<1>1. ASSUME NEW a \in Live, a.filed = "pending"
      PROVE  Filing(a.sig)
  BY <1>1 DEF OnFile, Filing
<1>2. SUFFICES ASSUME NEW a \in Live', a.filed = "pending"
               PROVE  Filing(a.sig)'
  BY <1>2 DEF OnFile, Filing
<1>3. CASE Lookup(w) \/ Admit(w) \/ CallFails(w) \/ StartChat(w) \/ ChatTurn(w)
  <2>1. job[w].at # "file" /\ cache' = cache /\ expired' = expired /\ \E x : Goto(w, x)
    BY <1>3 DEF Lookup, Admit, CallFails, StartChat, ChatTurn
  <2>2. PICK x : Goto(w, x)
    BY <2>1
  <2>3. a \in Live
    BY <2>1 DEF Live
  <2>4. job[w] # [at |-> "file", sig |-> a.sig]
    BY <2>1
  <2> QED
    BY <1>1, <1>2, <2>2, <2>3, <2>4, FilersStay
<1>4. CASE CallEnds(w)
  <2> DEFINE s == job[w].sig
             x == [job[w] EXCEPT !.at = "file"]
  <2>1. job[w].at = "call" /\ s \in Signatures /\ x = [at |-> "file", sig |-> s] /\ Goto(w, x)
    BY <1>4, JobSig DEF CallEnds
  <2>2. cache' = Saved(s) /\ expired' = 0
    BY <1>4 DEF CallEnds
  <2>3. job'[w] = [at |-> "file", sig |-> s]
    BY <2>1 DEF JobTypes, Goto
  <2> HIDE DEF s, x
  <2>4. a = [sig |-> s, filed |-> "pending"] \/ a \in Live
    <3>1. \A i \in 1..Len(cache') : cache'[i] = [sig |-> s, filed |-> "pending"] \/ cache'[i] \in Live
      BY <2>1, <2>2, SavedCache
    <3>2. PICK i \in 0 + 1..Len(cache') : a = cache'[i]
      BY <2>2 DEF Live
    <3> QED
      BY <3>1, <3>2
  <2>5. CASE a = [sig |-> s, filed |-> "pending"]
    <3>1. a.sig = s
      BY <2>5
    <3> QED
      BY <2>3, <3>1 DEF Filing
  <2>6. CASE a \in Live
    <3>1. job[w] # [at |-> "file", sig |-> a.sig]
      BY <2>1
    <3> QED
      BY <1>1, <1>2, <2>1, <2>6, <3>1, FilersStay
  <2> QED
    BY <2>4, <2>5, <2>6
<1>5. CASE File(w)
  <2> DEFINE s == job[w].sig
  <2>1. job[w].at = "file" /\ s \in Signatures /\ job[w] = [at |-> "file", sig |-> s] /\ Goto(w, Idle)
        /\ expired' = expired
    BY <1>5, JobSig DEF File
  <2>2. PICK how \in {"yes", "failed"} : cache' = Filed(s, how)
    BY <1>5 DEF File, Filed
  <2> HIDE DEF s
  <2>3. /\ Len(cache') = Len(cache)
        /\ \A i \in 1..Len(cache) :
             /\ cache'[i].sig = cache[i].sig
             /\ cache'[i].filed = "pending" => cache[i].filed = "pending" /\ cache[i].sig # s
    BY <2>1, <2>2, FiledCache
  <2>4. PICK i \in expired + 1..Len(cache) : a = cache'[i]
    BY <2>1, <2>3 DEF Live
  <2>5. i \in 1..Len(cache)
    BY LenProperties DEF CacheTypes
  <2>6. cache[i] \in Live /\ cache[i].filed = "pending" /\ cache[i].sig # s /\ a.sig = cache[i].sig
    BY <1>2, <2>3, <2>4, <2>5 DEF Live
  <2>7. Filing(a.sig)
    BY <1>1, <2>6
  <2>8. job[w] # [at |-> "file", sig |-> a.sig]
    BY <2>1, <2>6
  <2> QED
    BY <2>1, <2>7, <2>8, FilersStay
<1> QED
  BY <1>3, <1>4, <1>5 DEF Work, Proceed, Await

\* So does every step.
LEMMA OnFileKept == JobTypes /\ CacheTypes /\ OnFile /\ [Next]_vars => OnFile'
<1> SUFFICES ASSUME JobTypes, CacheTypes, OnFile, [Next]_vars PROVE OnFile'
  OBVIOUS
<1>1. ASSUME NEW w \in Workers, NEW x, Goto(w, x), job[w] = Idle, cache' = cache, expired' = expired
      PROVE  OnFile'
  <2>0. Live' = Live
    BY <1>1 DEF Live
  <2> SUFFICES ASSUME NEW a \in Live, a.filed = "pending"
               PROVE  Filing(a.sig)'
    BY <2>0 DEF OnFile, Filing
  <2>1. Filing(a.sig) /\ job[w] # [at |-> "file", sig |-> a.sig]
    BY <1>1 DEF OnFile, Filing, Idle
  <2> QED
    BY <1>1, <2>1, FilersStay
<1>2. ASSUME NEW w \in Workers, Work(w) PROVE OnFile'
  BY <1>2, WorkFiles
<1>3. ASSUME NEW w \in Workers, AskQuestion(w) PROVE OnFile'
  BY <1>1, <1>3 DEF AskQuestion
<1>4. ASSUME NEW w \in Workers, NEW s \in Signatures, AskAnalysis(w, s) \/ Trigger(w, s)
      PROVE  OnFile'
  BY <1>1, <1>4 DEF AskAnalysis, Trigger
<1>5. CASE Expire
  <2>1. Live' \subseteq Live /\ job' = job
    BY <1>5 DEF Expire, Live, CacheTypes
  <2> QED
    BY <2>1 DEF OnFile
<1>6. CASE Restart
  <2>1. Live' = {}
    <3>1. cache' = <<>> /\ expired' = 0
      BY <1>6 DEF Restart
    <3>2. Len(cache') = 0
      BY <3>1
    <3> QED
      BY <3>1, <3>2 DEF Live
  <2> QED
    BY <2>1 DEF OnFile
<1>7. CASE Tick \/ Midnight \/ UNCHANGED vars
  <2>1. cache' = cache /\ expired' = expired /\ job' = job
    BY <1>7 DEF Tick, Midnight, vars, serviceVars
  <2>2. Live' = Live
    BY <2>1 DEF Live
  <2> QED
    BY <2>1, <2>2 DEF OnFile
<1> QED
  BY <1>2, <1>3, <1>4, <1>5, <1>6, <1>7 DEF Next

\* An answer that the cache serves is on file, unless a write of it is under way or
\* has failed: the handlers may return what comes from the cache without storing it.
THEOREM AnswersFiled == Spec => []OnFile
<1>1. Init => OnFile
  <2> SUFFICES ASSUME Init PROVE OnFile
    OBVIOUS
  <2>1. cache = <<>> /\ expired = 0 /\ Len(cache) = 0
    BY DEF Init
  <2> QED
    BY <2>1 DEF OnFile, Live
<1>2. AIIInv /\ OnFile /\ [Next]_vars => OnFile'
  BY OnFileKept DEF AIIInv, BudgetIInv
<1> QED
  BY <1>1, <1>2, InitAI, AIKept, PTL DEF Spec
=============================================================================
