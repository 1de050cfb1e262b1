-------------------------- MODULE AlertEvaluator --------------------------
(***************************************************************************)
(* internal/alerting: the state machine that turns samples into alerts.    *)
(* One alert is tracked per (host, rule).  Samples are reduced to what a   *)
(* rule sees of them (reading): its condition holds, does not hold, or     *)
(* the host does not report the metric.  Threshold, value, names and       *)
(* severity are payload and left out.                                      *)
(*                                                                         *)
(* Evaluate is given the time its caller read before it waited for the     *)
(* evaluator's lock (server/ingest.go evaluateAndRecord), so two           *)
(* concurrent evaluations may carry times out of order.  That time lies    *)
(* lag ticks back, at most MaxLag.  Times are kept as ages: age is         *)
(* now - StartedAt and clear is now - ClearSince; they stop growing at     *)
(* Horizon, beyond which no comparison of the code tells them apart.       *)
(*                                                                         *)
(* held, calm, sinceFired and dipped only observe: no guard reads them.    *)
(***************************************************************************)
EXTENDS Integers

CONSTANTS
  Hosts,
  Rules,         \* rule ids of alerting.DefaultRules
  Durations,     \* values an operator gives Rule.For
  ResolveAfter,  \* evaluator.resolveAfter, never changed by the program
  MaxLag,        \* bound: how far back the time given to Evaluate may lie
  Horizon        \* bound: ages stop growing here

ASSUME EvaluatorAssumption ==
  /\ Durations \subseteq Nat /\ Durations # {}
  /\ ResolveAfter \in Nat \ {0}
  /\ MaxLag \in Nat
  /\ Horizon \in Nat
  /\ \A d \in Durations \cup {ResolveAfter} : d + MaxLag <= Horizon

VARIABLES
  rules,        \* Evaluator.rules, by id
  active,       \* Evaluator.active
  transitions,  \* what the latest call of Evaluate returned
  reading,      \* what each host's newest sample shows each rule
  held,         \* age of the uninterrupted run of evaluated breaches
  calm,         \* age of the uninterrupted run of evaluated clear samples
  sinceFired,   \* age of a firing alert's transition to firing
  dipped        \* pending alerts whose condition was false in some sample since they started

observers == <<held, calm, sinceFired, dipped>>
vars == <<rules, active, transitions, reading, held, calm, sinceFired, dipped>>

Keys == Hosts \X Rules
Reading == {"breach", "clear", "absent"}
Rule == [enabled : BOOLEAN, for : Durations]

\* The zero time.Time.
None == -1
Ages == 0..Horizon

Alert == [state : {"none", "pending", "firing"}, age : Ages,
          clear : Ages \cup {None}, acknowledged : BOOLEAN]
NewAlert(state, age) ==
  [state |-> state, age |-> age, clear |-> None, acknowledged |-> FALSE]

\* No entry in the map.
Untracked == NewAlert("none", 0)

Transition == [key : Keys, state : {"firing", "resolved"}, acknowledged : BOOLEAN]

Older(n) == IF n = None \/ n >= Horizon THEN n ELSE n + 1

-----------------------------------------------------------------------------
(* One rule of the loop in Evaluate.                                       *)

\* The first breach starts the alert; a zero duration fires at once.
Start(rule, lag) ==
  IF rule.for <= 0 THEN NewAlert("firing", 0) ELSE NewAlert("pending", lag)

\* A mutation: a fresh alert replaces the tracked one at every breach.
BreachForgetsAck(a, rule, lag) ==
  IF a.state = "pending" /\ a.age - lag >= rule.for
  THEN NewAlert("firing", 0)
  ELSE NewAlert(a.state, a.age)

\* A mutation: every breach restarts the clock.
BreachRestarts(a, rule, lag) ==
  IF a.state = "pending" /\ a.age - lag >= rule.for
  THEN [a EXCEPT !.state = "firing", !.age = 0, !.clear = None]
  ELSE [a EXCEPT !.age = IF a.state = "pending" THEN lag ELSE 0, !.clear = None]

\* A further breach cancels a resolve in progress and fires an alert that has
\* been pending for long enough.  StartedAt is only displayed from then on.
Breach(a, rule, lag) ==
  IF a.state = "pending" /\ a.age - lag >= rule.for
  THEN [a EXCEPT !.state = "firing", !.age = 0, !.clear = None]
  ELSE [a EXCEPT !.clear = None]

\* A mutation: every clear sample restarts the settle window.
ClearingRestarts(a, lag) == [a EXCEPT !.clear = lag]

\* A clear sample drops a pending alert; a firing one must stay clear for
\* ResolveAfter.  Clearing is the alert with ClearSince set.
Clearing(a, lag) == [a EXCEPT !.clear = IF a.clear = None THEN lag ELSE a.clear]

\* A mutation: the resolved alert stays in the map.
ClearKeeps(a, lag) ==
  IF a.state = "firing" /\ Clearing(a, lag).clear - lag < ResolveAfter
  THEN Clearing(a, lag)
  ELSE [a EXCEPT !.state = "resolved"]

\* A mutation: a pending alert waits out the settle window as well.
ClearSettlesPending(a, lag) ==
  IF Clearing(a, lag).clear - lag < ResolveAfter THEN Clearing(a, lag) ELSE Untracked

\* A mutation: one clear sample resolves, the behaviour before the settle window.
ClearAtOnce(a, lag) == Untracked

Clear(a, lag) ==
  IF a.state = "firing" /\ Clearing(a, lag).clear - lag < ResolveAfter
  THEN Clearing(a, lag)
  ELSE Untracked

Evaluated(k) == rules[k[2]].enabled /\ reading[k] # "absent"

After(k, lag) ==
  LET a == active[k]
      breached == Evaluated(k) /\ reading[k] = "breach"
      cleared == Evaluated(k) /\ reading[k] = "clear"
      tracked == a.state # "none"
  IN  CASE breached /\ ~tracked -> Start(rules[k[2]], lag)
        [] breached /\ tracked  -> Breach(a, rules[k[2]], lag)
        [] cleared /\ tracked   -> Clear(a, lag)
        [] OTHER                -> a

\* What the rule appends to the returned transitions: a copy of the alert.
Returned(h, lag) ==
  {[key |-> k, state |-> "firing", acknowledged |-> After(k, lag).acknowledged] :
     k \in {q \in {h} \X Rules : active[q].state # "firing" /\ After(q, lag).state = "firing"}}
  \cup
  {[key |-> k, state |-> "resolved", acknowledged |-> active[k].acknowledged] :
     k \in {q \in {h} \X Rules : active[q].state = "firing" /\ After(q, lag).state = "none"}}

-----------------------------------------------------------------------------
Init ==
  /\ rules \in [Rules -> Rule]
  /\ active = [k \in Keys |-> Untracked]
  /\ transitions = {}
  /\ reading = [k \in Keys |-> "clear"]
  /\ held = [k \in Keys |-> None]
  /\ calm = [k \in Keys |-> None]
  /\ sinceFired = [k \in Keys |-> Horizon]
  /\ dipped = {}

\* How the observers follow an evaluated sample.
Extend(run, lag) == IF run = None THEN lag ELSE run

Watch(h, lag) ==
  LET seen(k, what) == k[1] = h /\ Evaluated(k) /\ reading[k] = what
  IN  /\ held' = [k \in Keys |-> CASE seen(k, "breach") -> Extend(held[k], lag)
                                   [] seen(k, "clear")  -> None
                                   [] OTHER             -> held[k]]
      /\ calm' = [k \in Keys |-> CASE seen(k, "clear")  -> Extend(calm[k], lag)
                                   [] seen(k, "breach") -> None
                                   [] OTHER             -> calm[k]]
      /\ sinceFired' = [k \in Keys |->
           CASE active'[k].state # "firing" -> Horizon
             [] active[k].state # "firing" /\ active'[k].state = "firing" -> 0
             [] OTHER -> sinceFired[k]]
      /\ dipped' = {k \in Keys : /\ active'[k].state = "pending"
                                 /\ k \in dipped \/ (k[1] = h /\ reading[k] = "clear")}

\* Evaluator.Evaluate on the newest sample of host h.
Evaluate(h, lag) ==
  /\ active' = [k \in Keys |-> IF k[1] = h THEN After(k, lag) ELSE active[k]]
  /\ transitions' = Returned(h, lag)
  /\ Watch(h, lag)
  /\ UNCHANGED <<rules, reading>>

\* Evaluator.ReplaceRules, as the server's reloadRules calls it: the built-in
\* rules with other durations, enabled or not.
ReplaceRules(new) ==
  /\ rules' = new
  /\ active' = [k \in Keys |-> IF k[2] \in DOMAIN new THEN active[k] ELSE Untracked]
  /\ transitions' = {}
  /\ UNCHANGED <<reading, observers>>

\* Evaluator.Acknowledge; without an alert it changes nothing.
Acknowledge(k) ==
  /\ active[k].state # "none"
  /\ active' = [active EXCEPT ![k].acknowledged = TRUE]
  /\ transitions' = {}
  /\ UNCHANGED <<rules, reading, observers>>

\* The host's load changes.
Change(k, r) ==
  /\ reading' = [reading EXCEPT ![k] = r]
  /\ transitions' = {}
  /\ UNCHANGED <<rules, active, observers>>

\* Only a pending alert's StartedAt is still compared with anything.
Aged(a) ==
  [a EXCEPT !.age = IF a.state = "pending" THEN Older(a.age) ELSE a.age,
            !.clear = Older(a.clear)]

Tick ==
  /\ active' = [k \in Keys |-> Aged(active[k])]
  /\ held' = [k \in Keys |-> Older(held[k])]
  /\ calm' = [k \in Keys |-> Older(calm[k])]
  /\ sinceFired' = [k \in Keys |-> Older(sinceFired[k])]
  /\ transitions' = {}
  /\ UNCHANGED <<rules, reading, dipped>>

Sample(h) == \E lag \in 0..MaxLag : Evaluate(h, lag)

Next ==
  \/ \E h \in Hosts : Sample(h)
  \/ \E new \in [Rules -> Rule] : ReplaceRules(new)
  \/ \E k \in Keys : Acknowledge(k)
  \/ \E k \in Keys, r \in Reading : Change(k, r)
  \/ Tick

Spec == Init /\ [][Next]_vars

\* Time passes, and every host that still reports is sampled again and again:
\* the collector's ticker and the agents' flush ticker do nothing else.
Fairness == WF_vars(Tick) /\ \A h \in Hosts : WF_vars(Sample(h))

LiveSpec == Spec /\ Fairness

-----------------------------------------------------------------------------
(* Properties.                                                             *)

\* Every variable keeps its type, whatever order samples, rule changes and
\* acknowledgements come in.
TypeOK ==
  /\ rules \in [Rules -> Rule]
  /\ active \in [Keys -> Alert]
  /\ transitions \subseteq Transition
  /\ reading \in [Keys -> Reading]
  /\ held \in [Keys -> Ages \cup {None}]
  /\ calm \in [Keys -> Ages \cup {None}]
  /\ sinceFired \in [Keys -> Ages]
  /\ dipped \subseteq Keys

\* The evaluator implements the lifecycle its doc comment states: judged by the
\* samples it evaluated alone, it announces firing and resolved exactly when
\* AlertLifecycle says, once each, and never anything else.
Lifecycle == INSTANCE AlertLifecycle WITH
  wait <- [k \in Keys |-> rules[k[2]].for],
  firing <- {k \in Keys : active[k].state = "firing"},
  events <- {<<t.key, t.state>> : t \in transitions}
ImplementsLifecycle == Lifecycle!Spec

\* Hysteresis: an alert that fired is not resolved before the settle time has
\* passed, so a host oscillating around its threshold cannot flap.  The clock
\* read before the lock costs at most MaxLag.
NoFlap ==
  [][\A k \in Keys :
       active[k].state = "firing" /\ active'[k].state # "firing"
         => sinceFired[k] + MaxLag >= ResolveAfter]_vars

\* Acknowledging lasts for the activation: until the alert is over it stays
\* acknowledged, and so is every copy handed to the dispatcher.
AckLasts ==
  [][\A k \in Keys :
       active[k].acknowledged =>
         /\ active'[k].state = "none" \/ active'[k].acknowledged
         /\ \A t \in transitions' : t.key = k => t.acknowledged]_vars

\* A condition that stays true under an enabled rule ends up firing, however
\* often the operator changes the duration.
FiresEventually ==
  \A k \in Keys : <>[](rules[k[2]].enabled /\ reading[k] = "breach")
                     => <>[](active[k].state = "firing")

\* A condition that stays false under an enabled rule ends up with no alert.
ResolvesEventually ==
  \A k \in Keys : <>[](rules[k[2]].enabled /\ reading[k] = "clear")
                     => <>[](active[k].state = "none")

\* What the alert map remembers agrees with what was observed: the strengthening
\* that makes the properties above inductive.  A pending alert is as old as the
\* run of breaches, a clearing one as calm as the run of clear samples, and a run
\* of clear samples began after the alert fired.
Agrees(k) ==
  /\ active[k].state = "none" => active[k] = Untracked /\ held[k] = None
  /\ active[k].state = "pending" => active[k].age = held[k] /\ active[k].clear = None
  /\ active[k].state = "firing" =>
       /\ active[k].clear = calm[k]
       /\ calm[k] # None => calm[k] <= sinceFired[k] + MaxLag

IInv == TypeOK /\ \A k \in Keys : Agrees(k)

\* rule.go: For is how long the condition must hold before the alert fires; so
\* no host reported the condition false between the start of an alert and its
\* firing.  (A rule disabled while its alert is pending refutes this.)
HeldThroughout ==
  [][\A k \in Keys : active[k].state # "firing" /\ active'[k].state = "firing"
                       => k \notin dipped]_vars
=============================================================================
