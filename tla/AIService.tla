----------------------------- MODULE AIService -----------------------------
(***************************************************************************)
(* The paid calls: analyses (internal/ai/gemini.go) that an operator asks  *)
(* for (handleAnalyze) or the collector loop starts by itself              *)
(* (cmd/daemon/main.go), and the assistant (internal/ai/chat.go).          *)
(*                                                                         *)
(* A worker is a handler or a goroutine.  An analysis is looked up in the  *)
(* cache, checked against the day's budget, let through by the circuit     *)
(* breaker, called, cached, and stored as an insight.  A question goes     *)
(* through the budget once and calls the model up to ToolCalls times, past *)
(* the breaker.  One call costs one unit.  How often operators may ask is  *)
(* the rate limiter's business (module RateLimiter): here they ask at any  *)
(* time.                                                                   *)
(*                                                                         *)
(* A signature stands for the processes and logs of a sample.  The cache   *)
(* is kept in the order of saving; an observer says of each answer whether *)
(* it has been stored.  A cached answer may expire, and a day end, at any  *)
(* time: no property compares these clocks with the ticks of the breaker.  *)
(***************************************************************************)
EXTENDS CircuitBreaker, Sequences, SequencesExt

CONSTANTS
  Workers,        \* bound: requests and automatic analyses under way at once
  Signatures,
  CacheEntries,   \* maxRAGCacheEntries
  MaxDaily,       \* max_daily_cost
  ToolCalls,      \* maxToolCalls
  Cooldown        \* analysisCooldown, in ticks

ASSUME AIAssumption ==
  /\ CacheEntries \in Nat \ {0} /\ MaxDaily \in Nat \ {0}
  /\ ToolCalls \in Nat \ {0} /\ Cooldown \in Nat
  /\ IsFiniteSet(Workers)

VARIABLES
  job,        \* what each worker does
  cache,      \* the cached answers, the oldest first
  expired,    \* how many of these, from the first, are older than ragCacheTTL
  spent,      \* the ledger, as its readers see it
  sinceAuto   \* age of lastAnalysisTime

serviceVars == <<job, cache, expired, spent, sinceAuto>>
vars == <<breakerVars, serviceVars>>

Idle == [at |-> "idle"]
Job ==
  {Idle} \cup [at : {"lookup", "admit", "call", "file"}, sig : Signatures]
  \cup [at : {"check"}] \cup [at : {"ask"}, left : 1..ToolCalls]

Answer == [sig : Signatures, filed : {"pending", "yes", "failed"}]

Live == {cache[i] : i \in expired + 1..Len(cache)}
Cached == {a.sig : a \in Live}

Init ==
  /\ BreakerInit
  /\ job = [w \in Workers |-> Idle]
  /\ cache = <<>> /\ expired = 0
  /\ spent = 0
  /\ sinceAuto = Cooldown + 1

Goto(w, next) == job' = [job EXCEPT ![w] = next]

-----------------------------------------------------------------------------
(* Requests.                                                               *)

\* handleAnalyze or handleChat, once the limiter they share lets the request in.
AskAnalysis(w, s) ==
  /\ job[w] = Idle
  /\ Goto(w, [at |-> "lookup", sig |-> s])
  /\ UNCHANGED <<breakerVars, cache, expired, spent, sinceAuto>>

AskQuestion(w) ==
  /\ job[w] = Idle
  /\ Goto(w, [at |-> "check"])
  /\ UNCHANGED <<breakerVars, cache, expired, spent, sinceAuto>>

\* The loop over its threshold, once a cooldown.
Trigger(w, s) ==
  /\ job[w] = Idle
  /\ sinceAuto > Cooldown
  /\ sinceAuto' = 0
  /\ Goto(w, [at |-> "lookup", sig |-> s])
  /\ UNCHANGED <<breakerVars, cache, expired, spent>>

\* A mutation: the cap is exceeded before it is noticed.
CheckLate == spent <= MaxDaily

\* CostBudget.Check.
Check == spent < MaxDaily

\* CostBudget.Record.
Record == spent' = spent + 1

\* GetCachedInsight and, on a miss, the budget.
Lookup(w) ==
  /\ job[w].at = "lookup"
  /\ Goto(w, IF job[w].sig \notin Cached /\ Check THEN [job[w] EXCEPT !.at = "admit"] ELSE Idle)
  /\ UNCHANGED <<breakerVars, cache, expired, spent, sinceAuto>>

\* Execute up to the call.
Admit(w) ==
  /\ job[w].at = "admit"
  /\ \/ BeforeRequest /\ Goto(w, [job[w] EXCEPT !.at = "call"])
     \/ ~Admits /\ Goto(w, Idle) /\ UNCHANGED breakerVars
  /\ UNCHANGED <<cache, expired, spent, sinceAuto>>

\* The call fails or is cancelled, and costs nothing; or its answer does not parse.
CallFails(w) ==
  /\ job[w].at = "call"
  /\ \/ UNCHANGED spent
     \/ Record
  /\ Failed
  /\ Goto(w, Idle)
  /\ UNCHANGED <<cache, expired, sinceAuto>>

\* SaveInsight: what has expired goes; the answer takes the place of an older one to
\* the same signature, or else of the oldest if there is no room.
Saved(s) ==
  LET live == SubSeq(cache, expired + 1, Len(cache))
      room == CASE s \in Cached -> RemoveAt(live, CHOOSE i \in 1..Len(live) : live[i].sig = s)
                [] s \notin Cached /\ Len(live) >= CacheEntries -> Tail(live)
                [] OTHER -> live
  IN  Append(room, [sig |-> s, filed |-> "pending"])

\* The call is answered; the answer is cached before it is stored.
CallEnds(w) ==
  /\ job[w].at = "call"
  /\ Record
  /\ Succeeded
  /\ cache' = Saved(job[w].sig)
  /\ expired' = 0
  /\ Goto(w, [job[w] EXCEPT !.at = "file"])
  /\ UNCHANGED <<sinceAuto>>

\* A mutation: the handler stores what came from the cache and not what is new.
FileCached(w) ==
  /\ job[w].at = "file"
  /\ Goto(w, Idle)
  /\ UNCHANGED <<breakerVars, cache, expired, spent, sinceAuto>>

\* SaveInsightRecord, whose failure is only logged.
File(w) ==
  /\ job[w].at = "file"
  /\ \E how \in {"yes", "failed"} :
       cache' = [i \in 1..Len(cache) |->
         IF cache[i].sig = job[w].sig /\ cache[i].filed # "yes"
         THEN [cache[i] EXCEPT !.filed = how] ELSE cache[i]]
  /\ Goto(w, Idle)
  /\ UNCHANGED <<breakerVars, expired, spent, sinceAuto>>

\* Chat: one look at the budget for the whole question.
StartChat(w) ==
  /\ job[w].at = "check"
  /\ Goto(w, IF Check THEN [at |-> "ask", left |-> ToolCalls] ELSE Idle)
  /\ UNCHANGED <<breakerVars, cache, expired, spent, sinceAuto>>

\* One call to the model: it fails, or it is recorded if it reports its usage, and is
\* the answer or asks for tools, at most ToolCalls times.
ChatTurn(w) ==
  /\ job[w].at = "ask"
  /\ \/ Goto(w, Idle) /\ UNCHANGED spent
     \/ /\ Record \/ UNCHANGED spent
        /\ \/ Goto(w, Idle)
           \/ Goto(w, IF job[w].left = 1 THEN Idle ELSE [job[w] EXCEPT !.left = @ - 1])
  /\ UNCHANGED <<breakerVars, cache, expired, sinceAuto>>

-----------------------------------------------------------------------------
(* Time and restarts.                                                      *)

Tick ==
  /\ BreakerTick
  /\ sinceAuto' = IF sinceAuto > Cooldown THEN sinceAuto ELSE sinceAuto + 1
  /\ UNCHANGED <<job, cache, expired, spent>>

Expire ==
  /\ expired < Len(cache)
  /\ expired' = expired + 1
  /\ UNCHANGED <<breakerVars, job, cache, spent, sinceAuto>>

\* rolloverLocked, which every reader of the ledger calls first.
Midnight ==
  /\ spent' = 0
  /\ UNCHANGED <<breakerVars, job, cache, expired, sinceAuto>>

\* All of this is in memory, the ledger included.
Restart ==
  /\ BreakerRestart
  /\ job' = [w \in Workers |-> Idle]
  /\ cache' = <<>> /\ expired' = 0
  /\ spent' = 0
  /\ sinceAuto' = Cooldown + 1

\* What a worker does by itself, and what it waits for the model to do.
Proceed(w) == Lookup(w) \/ Admit(w) \/ File(w) \/ StartChat(w)
Await(w) == CallFails(w) \/ CallEnds(w) \/ ChatTurn(w)
Work(w) == Proceed(w) \/ Await(w)

Next ==
  \/ \E w \in Workers, s \in Signatures : AskAnalysis(w, s) \/ Trigger(w, s)
  \/ \E w \in Workers : AskQuestion(w) \/ Work(w)
  \/ Tick \/ Expire \/ Midnight \/ Restart

\* Workers do what is theirs, time passes, and somebody keeps asking for an analysis of
\* something new.  A call may hang for ever: its client has no timeout, and its context
\* is the request's, or the daemon's own, and has no deadline.
NewAnalysis(w) == \E s \in Signatures \ Cached : AskAnalysis(w, s)
Fairness ==
  /\ \A w \in Workers : WF_vars(Proceed(w))
  /\ WF_vars(Tick) /\ WF_vars(Expire)
  /\ SF_vars(\E w \in Workers : NewAnalysis(w))

Spec == Init /\ [][Next]_vars /\ Fairness

-----------------------------------------------------------------------------
(* Properties.                                                             *)

\* Every variable keeps its type; the cache has one answer to a signature.
TypeOK ==
  /\ BreakerTypeOK
  /\ job \in [Workers -> Job]
  /\ cache \in BoundedSeq(Answer, CacheEntries)
  /\ \A i, j \in DOMAIN cache : cache[i].sig = cache[j].sig => i = j
  /\ expired \in 0..Len(cache)
  /\ spent \in Nat
  /\ sinceAuto \in 0..Cooldown + 1

\* The day's spending exceeds the cap by the calls that were under way when it was
\* reached and by no other: a worker that finds the cap reached spends nothing, and
\* one that passed has at most one question's calls before it.
Overrun == spent < MaxDaily + Cardinality(Workers) * ToolCalls

\* An answer that is served from the cache is on file, as the handlers presume when
\* they do not store it again, unless a write of it is under way or has failed.
OnFile ==
  \A a \in Live :
    a.filed = "pending" => \E w \in Workers : job[w] = [at |-> "file", sig |-> a.sig]

\* Once calls stop failing, and unless the budget stands in the way or every worker
\* waits, the circuit closes for good.  The one thing that keeps it from closing is a
\* call that never ends: a trial that hangs leaves the circuit half-open, and every
\* other caller refused, until the daemon restarts.
Recovers ==
  /\ <>[][\A w \in Workers : ~CallFails(w)]_vars
  /\ <>[](spent < MaxDaily)
  /\ []<>(\E w \in Workers : job[w] = Idle)
  => \/ <>[](state = "closed")
     \/ <>[](state = "half-open") /\ \E w \in Workers : <>[](job[w].at = "call")
=============================================================================
