--------------------------- MODULE CircuitBreaker ---------------------------
(***************************************************************************)
(* The circuit breaker of internal/ai/circuit_breaker.go.  A caller goes   *)
(* through beforeRequest, makes its call without the lock and reports how  *)
(* it ended to afterRequest, by which time the circuit may have changed.   *)
(*                                                                         *)
(* sinceTrial is an observer: the age of the last call let through while   *)
(* the circuit was not closed.                                             *)
(***************************************************************************)
EXTENDS Integers

CONSTANTS
  MaxFailures,
  ResetTimeout  \* in ticks

ASSUME BreakerAssumption == MaxFailures \in Nat \ {0} /\ ResetTimeout \in Nat

VARIABLES
  state,          \* "closed", "open" or "half-open"
  failures,       \* counted up to MaxFailures
  halfOpenCalls,
  sinceFail,      \* age of lastFailTime
  sinceTrial

breakerVars == <<state, failures, halfOpenCalls, sinceFail, sinceTrial>>

HalfOpenMaxCalls == 1
LongAgo == ResetTimeout + 1

BreakerTypeOK ==
  /\ state \in {"closed", "open", "half-open"}
  /\ failures \in 0..MaxFailures
  /\ halfOpenCalls \in 0..HalfOpenMaxCalls
  /\ sinceFail \in 0..LongAgo
  /\ sinceTrial \in 0..LongAgo

BreakerInit ==
  /\ state = "closed"
  /\ failures = 0
  /\ halfOpenCalls = 0
  /\ sinceFail = LongAgo
  /\ sinceTrial = LongAgo

\* A mutation: half-open calls are counted after the limit is compared.
AdmitsMore ==
  \/ state = "closed"
  \/ state = "open" /\ sinceFail > ResetTimeout
  \/ state = "half-open" /\ halfOpenCalls <= HalfOpenMaxCalls

\* beforeRequest returns no error.
Admits ==
  \/ state = "closed"
  \/ state = "open" /\ sinceFail > ResetTimeout
  \/ state = "half-open" /\ halfOpenCalls < HalfOpenMaxCalls

BeforeRequest ==
  /\ Admits
  /\ state' = IF state = "open" THEN "half-open" ELSE state
  /\ halfOpenCalls' = CASE state = "closed" -> halfOpenCalls
                        [] state = "open" -> 1
                        [] state = "half-open" -> halfOpenCalls + 1
  /\ sinceTrial' = IF state = "closed" THEN sinceTrial ELSE 0
  /\ UNCHANGED <<failures, sinceFail>>

\* A mutation: a failed trial does not restart the timeout.
TrialUntimed ==
  /\ failures' = IF failures < MaxFailures THEN failures + 1 ELSE failures
  /\ sinceFail' = IF state = "half-open" THEN sinceFail ELSE 0
  /\ IF state = "half-open"
     THEN state' = "open" /\ halfOpenCalls' = 0
     ELSE /\ state' = IF failures + 1 >= MaxFailures THEN "open" ELSE state
          /\ UNCHANGED halfOpenCalls
  /\ UNCHANGED sinceTrial

\* A mutation: a failed trial is not reported, as if its caller had gone away.
TrialUnreported ==
  /\ failures' = IF failures < MaxFailures THEN failures + 1 ELSE failures
  /\ sinceFail' = 0
  /\ IF state = "half-open"
     THEN UNCHANGED <<state, halfOpenCalls>>
     ELSE /\ state' = IF failures + 1 >= MaxFailures THEN "open" ELSE state
          /\ UNCHANGED halfOpenCalls
  /\ UNCHANGED sinceTrial

\* afterRequest with an error: of the trial, or of a call let through before.
Failed ==
  /\ failures' = IF failures < MaxFailures THEN failures + 1 ELSE failures
  /\ sinceFail' = 0
  /\ IF state = "half-open"
     THEN state' = "open" /\ halfOpenCalls' = 0
     ELSE /\ state' = IF failures + 1 >= MaxFailures THEN "open" ELSE state
          /\ UNCHANGED halfOpenCalls
  /\ UNCHANGED sinceTrial

\* afterRequest without one.  A late success does not close an open circuit, but
\* forgets its failures.
Succeeded ==
  /\ failures' = 0
  /\ IF state = "half-open"
     THEN state' = "closed" /\ halfOpenCalls' = 0 /\ sinceTrial' = LongAgo
     ELSE UNCHANGED <<state, halfOpenCalls, sinceTrial>>
  /\ UNCHANGED sinceFail

BreakerTick ==
  /\ sinceFail' = IF sinceFail < LongAgo THEN sinceFail + 1 ELSE sinceFail
  /\ sinceTrial' = IF sinceTrial < LongAgo THEN sinceTrial + 1 ELSE sinceTrial
  /\ UNCHANGED <<state, failures, halfOpenCalls>>

BreakerRestart ==
  /\ state' = "closed"
  /\ failures' = 0
  /\ halfOpenCalls' = 0
  /\ sinceFail' = LongAgo
  /\ sinceTrial' = LongAgo

\* While the circuit is not closed, two calls are let through more than the reset
\* timeout apart: a trial that fails, or a late failure of an older call, starts the
\* timeout anew.  (Unless a trial succeeded, or the daemon restarted, in between.)
TrialsSpaced ==
  [][halfOpenCalls' > halfOpenCalls => sinceTrial > ResetTimeout]_breakerVars
=============================================================================
