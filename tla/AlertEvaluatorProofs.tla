------------------------ MODULE AlertEvaluatorProofs ------------------------
(* Proofs about AlertEvaluator for any fleet, rule set, durations, settle  *)
(* time and lag that satisfy EvaluatorAssumption.                          *)
EXTENDS AlertEvaluator, TLAPS

-----------------------------------------------------------------------------
(* Facts about ages.                                                       *)

\* The ages the operators build are ages.
LEMMA AgeFacts ==
  /\ 0 \in Ages /\ Horizon \in Ages /\ 0..MaxLag \subseteq Ages
  /\ Ages \subseteq Nat /\ None \notin Ages
<1>1. PICK d \in Durations \cup {ResolveAfter} : d \in Nat /\ d + MaxLag <= Horizon
  BY EvaluatorAssumption
<1>2. QED
  BY <1>1, EvaluatorAssumption DEF Ages, None

\* Growing older stays within the horizon and never makes anything younger.
LEMMA OlderType ==
  ASSUME NEW n \in Ages \cup {None}
  PROVE  /\ n # None => Older(n) \in Ages /\ Older(n) >= n
         /\ n = None => Older(n) = None
BY EvaluatorAssumption DEF Older, Ages, None

\* Two ages that keep their distance keep it as both grow older.
LEMMA OlderTogether ==
  ASSUME NEW m \in Ages, NEW n \in Ages, m <= n + MaxLag
  PROVE  Older(m) <= Older(n) + MaxLag
BY EvaluatorAssumption DEF Older, Ages, None

-----------------------------------------------------------------------------
(* One step of one alert.                                                  *)

\* Each case of Evaluate's switch leaves an alert.
LEMMA CaseTypes ==
  ASSUME NEW a \in Alert, NEW rule \in Rule, NEW lag \in 0..MaxLag
  PROVE  /\ Untracked \in Alert
         /\ Start(rule, lag) \in Alert
         /\ Breach(a, rule, lag) \in Alert
         /\ Clear(a, lag) \in Alert
<1>1. 0 \in Ages /\ lag \in Ages
  BY AgeFacts
<1>2. ASSUME NEW state \in {"none", "pending", "firing"}, NEW age \in Ages
      PROVE  NewAlert(state, age) \in Alert
  BY DEF NewAlert, Alert
<1>3. Untracked \in Alert /\ Start(rule, lag) \in Alert
  BY <1>1, <1>2 DEF Untracked, Start
<1>4. Breach(a, rule, lag) \in Alert
  BY <1>1 DEF Breach, Alert
<1>5. Clearing(a, lag) \in Alert
  BY <1>1 DEF Clearing, Alert
<1>6. QED
  BY <1>3, <1>4, <1>5 DEF Clear

\* The next alert of a key is an alert.
LEMMA AfterType ==
  ASSUME TypeOK, NEW k \in Keys, NEW lag \in 0..MaxLag
  PROVE  After(k, lag) \in Alert
<1>1. active[k] \in Alert /\ rules[k[2]] \in Rule
  BY DEF TypeOK, Keys
<1>2. QED
  BY <1>1, CaseTypes DEF After

\* Time changes nothing of an alert but its ages.
LEMMA AgedFields ==
  ASSUME NEW a \in Alert
  PROVE  /\ Aged(a).state = a.state
         /\ Aged(a).clear = Older(a.clear)
         /\ a.state = "pending" => Aged(a).age = Older(a.age)
         /\ a.state = "none" => Aged(a).age = a.age
         /\ Aged(a).acknowledged = a.acknowledged
BY DEF Aged, Alert

\* The observers keep their types while a sample is evaluated.
LEMMA WatchType ==
  ASSUME TypeOK, NEW h \in Hosts, NEW lag \in 0..MaxLag, Evaluate(h, lag)
  PROVE  /\ held' \in [Keys -> Ages \cup {None}]
         /\ calm' \in [Keys -> Ages \cup {None}]
         /\ sinceFired' \in [Keys -> Ages]
         /\ dipped' \subseteq Keys
<1>1. lag \in Ages /\ 0 \in Ages /\ Horizon \in Ages
  BY AgeFacts
<1>2. \A k \in Keys : Extend(held[k], lag) \in Ages /\ Extend(calm[k], lag) \in Ages
  BY <1>1 DEF Extend, TypeOK
<1>3. QED
  BY <1>1, <1>2 DEF Evaluate, Watch, TypeOK

-----------------------------------------------------------------------------
(* Typing.                                                                 *)

\* The evaluator starts well-typed: nothing tracked, nothing listed.
LEMMA InitType == Init => TypeOK
<1>1. Untracked \in Alert
  BY AgeFacts DEF Untracked, NewAlert, Alert
<1>2. QED
  BY <1>1, AgeFacts DEF Init, TypeOK, Reading

\* Every step of the evaluator keeps the types.
LEMMA NextType == TypeOK /\ [Next]_vars => TypeOK'
<1> SUFFICES ASSUME TypeOK, [Next]_vars
             PROVE  TypeOK'
  OBVIOUS
<1>1. ASSUME NEW h \in Hosts, NEW lag \in 0..MaxLag, Evaluate(h, lag)
      PROVE  TypeOK'
  <2>1. active' \in [Keys -> Alert]
    BY <1>1, AfterType DEF Evaluate, TypeOK
  <2>2. transitions' \subseteq Transition
    <3>1. \A k \in Keys : /\ active[k].acknowledged \in BOOLEAN
                          /\ After(k, lag).acknowledged \in BOOLEAN
      BY AfterType DEF TypeOK, Alert
    <3>2. {h} \X Rules \subseteq Keys
      BY DEF Keys
    <3>3. QED
      BY <1>1, <3>1, <3>2 DEF Evaluate, Returned, Transition
  <2>3. QED
    BY <1>1, <2>1, <2>2, WatchType DEF Evaluate, TypeOK
<1>2. ASSUME NEW new \in [Rules -> Rule], ReplaceRules(new)
      PROVE  TypeOK'
  <2>1. Untracked \in Alert
    BY AgeFacts DEF Untracked, NewAlert, Alert
  <2>2. QED
    BY <1>2, <2>1 DEF ReplaceRules, observers, TypeOK
<1>3. ASSUME NEW k \in Keys, Acknowledge(k)
      PROVE  TypeOK'
  <2>1. [active[k] EXCEPT !.acknowledged = TRUE] \in Alert
    BY DEF TypeOK, Alert
  <2>2. active' = [active EXCEPT ![k] = [active[k] EXCEPT !.acknowledged = TRUE]]
    BY <1>3 DEF Acknowledge
  <2>3. QED
    BY <1>3, <2>1, <2>2 DEF Acknowledge, observers, TypeOK
<1>4. ASSUME NEW k \in Keys, NEW r \in Reading, Change(k, r)
      PROVE  TypeOK'
  BY <1>4 DEF Change, observers, TypeOK
<1>5. CASE Tick
  <2>1. ASSUME NEW k \in Keys
        PROVE  Aged(active[k]) \in Alert
    <3>1. Older(active[k].age) \in Ages /\ Older(active[k].clear) \in Ages \cup {None}
      BY OlderType, AgeFacts DEF TypeOK, Alert
    <3>2. QED
      BY <3>1 DEF Aged, TypeOK, Alert
  <2>2. \A k \in Keys : /\ Older(held[k]) \in Ages \cup {None}
                        /\ Older(calm[k]) \in Ages \cup {None}
                        /\ Older(sinceFired[k]) \in Ages
    BY OlderType, AgeFacts DEF TypeOK
  <2>3. QED
    BY <1>5, <2>1, <2>2 DEF Tick, TypeOK
<1>6. CASE UNCHANGED vars
  BY <1>6 DEF vars, TypeOK
<1>7. QED
  BY <1>1, <1>2, <1>3, <1>4, <1>5, <1>6 DEF Next, Sample

\* Every reachable state is well typed, for every fleet, rule set and bound.
THEOREM TypeCorrect == Spec => []TypeOK
BY InitType, NextType, PTL DEF Spec

-----------------------------------------------------------------------------
(* The inductive invariant: the alert map agrees with the observations.    *)

\* A sample of the key's own host that its rule looks at keeps the agreement.
LEMMA EvaluatedAgrees ==
  ASSUME TypeOK, NEW h \in Hosts, NEW lag \in 0..MaxLag, Evaluate(h, lag),
         NEW k \in Keys, Agrees(k), k[1] = h, Evaluated(k)
  PROVE  Agrees(k)'
<1>1. /\ active'[k] = After(k, lag) /\ active[k] \in Alert
      /\ lag \in Nat /\ lag <= MaxLag /\ lag # None
      /\ MaxLag \in Nat /\ Horizon \in Nat
  BY AfterType, AgeFacts, EvaluatorAssumption DEF Evaluate, TypeOK, None
<1>2. sinceFired'[k] = CASE active'[k].state # "firing" -> Horizon
                         [] active[k].state # "firing" /\ active'[k].state = "firing" -> 0
                         [] OTHER -> sinceFired[k]
  BY DEF Evaluate, Watch
<1>3. sinceFired[k] \in Nat /\ held[k] \in Ages \cup {None} /\ calm[k] \in Ages \cup {None}
  BY AgeFacts DEF TypeOK
<1>4. CASE reading[k] = "breach"
  <2>1. held'[k] = Extend(held[k], lag) /\ calm'[k] = None
    BY <1>4 DEF Evaluate, Watch
  <2>2. CASE active[k].state = "none"
    <3>1. active'[k] = Start(rules[k[2]], lag)
      BY <1>1, <1>4, <2>2 DEF After
    <3>2. QED
      BY <3>1, <2>1, <2>2 DEF Agrees, Start, NewAlert, Extend
  <2>3. CASE active[k].state # "none"
    <3>1. active'[k] = Breach(active[k], rules[k[2]], lag)
      BY <1>1, <1>4, <2>3 DEF After
    <3>2. CASE active[k].state = "pending"
      <4>1. held'[k] = active[k].age
        BY <2>1, <3>2, <1>1, AgeFacts DEF Agrees, Extend, Alert
      <4>2. QED
        BY <3>1, <2>1, <4>1, <3>2, <1>1 DEF Agrees, Breach, Alert
    <3>3. CASE active[k].state = "firing"
      BY <3>1, <2>1, <3>3, <1>1 DEF Agrees, Breach, Alert
    <3>4. QED
      BY <2>3, <3>2, <3>3, <1>1 DEF Alert
  <2>4. QED
    BY <2>2, <2>3
<1>5. CASE reading[k] = "clear"
  <2>1. held'[k] = None /\ calm'[k] = Extend(calm[k], lag)
    BY <1>5 DEF Evaluate, Watch
  <2>2. CASE active[k].state = "none"
    <3>1. active'[k] = active[k]
      BY <1>1, <1>5, <2>2 DEF After
    <3>2. QED
      BY <3>1, <2>1, <2>2 DEF Agrees
  <2>3. CASE active[k].state # "none"
    <3>1. active'[k] = Clear(active[k], lag)
      BY <1>1, <1>5, <2>3 DEF After
    <3>2. CASE active'[k] = Untracked
      BY <3>2, <2>1 DEF Agrees, Untracked, NewAlert
    <3>3. CASE active'[k] = Clearing(active[k], lag) /\ active[k].state = "firing"
      <4>1. active'[k].state = "firing" /\ active'[k].clear = Extend(calm[k], lag)
        BY <3>3, <1>1 DEF Clearing, Extend, Agrees, Alert
      <4>2. sinceFired'[k] = sinceFired[k]
        BY <4>1, <3>3, <1>2
      <4>3. QED
        BY <4>1, <4>2, <2>1, <3>3, <1>1, <1>3 DEF Agrees, Extend
    <3>4. QED
      BY <3>1, <3>2, <3>3 DEF Clear
  <2>4. QED
    BY <2>2, <2>3
<1>6. QED
  BY <1>4, <1>5 DEF Evaluated, TypeOK, Reading

\* Any other sample leaves the key alone.
LEMMA UnevaluatedAgrees ==
  ASSUME TypeOK, NEW h \in Hosts, NEW lag \in 0..MaxLag, Evaluate(h, lag),
         NEW k \in Keys, Agrees(k), ~(k[1] = h /\ Evaluated(k))
  PROVE  Agrees(k)' /\ active'[k] = active[k]
<1>1. active'[k] = active[k]
  BY DEF Evaluate, After
<1>2. held'[k] = held[k] /\ calm'[k] = calm[k]
  BY DEF Evaluate, Watch
<1>3. active[k].state = "firing" => sinceFired'[k] = sinceFired[k]
  BY <1>1 DEF Evaluate, Watch
<1>4. QED
  BY <1>1, <1>2, <1>3 DEF Agrees

\* The inductive invariant holds before any sample was evaluated.
LEMMA InitInv == Init => IInv
<1>1. Init => \A k \in Keys : Agrees(k)
  BY DEF Init, Agrees, Untracked, NewAlert
<1>2. QED
  BY <1>1, InitType DEF IInv

\* Every step keeps each series in agreement with what it has shown.
LEMMA NextInv == IInv /\ [Next]_vars => IInv'
<1> SUFFICES ASSUME IInv, [Next]_vars
             PROVE  \A k \in Keys : Agrees(k)'
  BY NextType DEF IInv
<1> TAKE k \in Keys
<1>0. TypeOK /\ Agrees(k) /\ active[k] \in Alert
  BY DEF IInv, TypeOK
<1>1. ASSUME NEW h \in Hosts, NEW lag \in 0..MaxLag, Evaluate(h, lag)
      PROVE  Agrees(k)'
  BY <1>0, <1>1, EvaluatedAgrees, UnevaluatedAgrees
<1>2. ASSUME NEW new \in [Rules -> Rule], ReplaceRules(new)
      PROVE  Agrees(k)'
  <2>1. k[2] \in DOMAIN new
    BY DEF Keys
  <2>2. QED
    BY <1>0, <1>2, <2>1 DEF ReplaceRules, observers, Agrees
<1>3. ASSUME NEW q \in Keys, Acknowledge(q)
      PROVE  Agrees(k)'
  <2>1. /\ active'[k].state = active[k].state
        /\ active'[k].age = active[k].age
        /\ active'[k].clear = active[k].clear
        /\ active[k].state = "none" => active'[k] = active[k]
    BY <1>0, <1>3 DEF Acknowledge, TypeOK, Alert
  <2>2. QED
    BY <1>0, <1>3, <2>1 DEF Acknowledge, observers, Agrees
<1>4. ASSUME NEW q \in Keys, NEW r \in Reading, Change(q, r)
      PROVE  Agrees(k)'
  BY <1>0, <1>4 DEF Change, observers, Agrees
<1>5. CASE Tick
  <2>1. /\ active'[k] = Aged(active[k]) /\ held'[k] = Older(held[k])
        /\ calm'[k] = Older(calm[k]) /\ sinceFired'[k] = Older(sinceFired[k])
    BY <1>5 DEF Tick
  <2>2. /\ active'[k].state = active[k].state
        /\ active'[k].clear = Older(active[k].clear)
        /\ active[k].state = "pending" => active'[k].age = Older(active[k].age)
        /\ active[k].state = "none" => active'[k].age = active[k].age
        /\ active'[k].acknowledged = active[k].acknowledged
    BY <1>0, <2>1, AgedFields
  <2>3. Older(None) = None
    BY DEF Older
  <2>4. CASE active[k].state = "none"
    <3>1. active[k] = Untracked /\ active'[k] \in Alert
      BY <1>0, <2>4, NextType DEF Agrees, IInv, TypeOK
    <3>2. /\ active'[k].state = "none" /\ active'[k].age = 0
          /\ active'[k].clear = None /\ active'[k].acknowledged = FALSE
      BY <2>2, <2>3, <2>4, <3>1 DEF Untracked, NewAlert
    <3>3. active'[k] = Untracked
      BY <3>1, <3>2 DEF Alert, Untracked, NewAlert
    <3>4. QED
      BY <1>0, <2>1, <2>2, <2>3, <2>4, <3>3 DEF Agrees
  <2>5. CASE active[k].state = "pending"
    BY <1>0, <2>1, <2>2, <2>3, <2>5 DEF Agrees
  <2>6. CASE active[k].state = "firing"
    <3>1. calm[k] # None => Older(calm[k]) <= Older(sinceFired[k]) + MaxLag
      BY <1>0, <2>6, OlderTogether DEF Agrees, TypeOK
    <3>2. Older(calm[k]) # None => calm[k] # None
      BY <2>3
    <3>3. QED
      BY <1>0, <2>1, <2>2, <2>6, <3>1, <3>2 DEF Agrees
  <2>7. QED
    BY <1>0, <2>4, <2>5, <2>6 DEF Alert
<1>6. CASE UNCHANGED vars
  BY <1>0, <1>6 DEF vars, Agrees
<1>7. QED
  BY <1>1, <1>2, <1>3, <1>4, <1>5, <1>6 DEF Next, Sample

\* The alert map agrees with what was observed, in every reachable state.
THEOREM AlertsAgree == Spec => []IInv
BY InitInv, NextInv, PTL DEF Spec

-----------------------------------------------------------------------------
(* Hysteresis.                                                             *)

\* Only a clear sample that ends the settle window takes an alert out of firing.
LEMMA StopsFiring ==
  ASSUME TypeOK, NEW h \in Hosts, NEW lag \in 0..MaxLag, Evaluate(h, lag), NEW k \in Keys,
         active[k].state = "firing", active'[k].state # "firing"
  PROVE  /\ k[1] = h /\ Evaluated(k) /\ reading[k] = "clear"
         /\ active'[k] = Untracked
         /\ Clearing(active[k], lag).clear - lag >= ResolveAfter
<1>1. active[k] \in Alert /\ lag \in Nat /\ ResolveAfter \in Nat
  BY AgeFacts, EvaluatorAssumption DEF TypeOK
<1>2. k[1] = h /\ active'[k] = After(k, lag)
  BY DEF Evaluate
<1>3. Breach(active[k], rules[k[2]], lag).state = "firing"
  BY <1>1 DEF Breach, Alert
<1>4. Clearing(active[k], lag).state = "firing"
  BY <1>1 DEF Clearing, Alert
<1>5. Clearing(active[k], lag).clear \in Int
  BY <1>1, AgeFacts DEF Clearing, Alert, None
<1>6. active'[k] = Clear(active[k], lag) /\ Evaluated(k) /\ reading[k] = "clear"
  BY <1>2, <1>3 DEF After
<1>7. QED
  BY <1>1, <1>2, <1>4, <1>5, <1>6 DEF Clear

\* No alert is resolved before the settle time has passed since it fired,
\* whatever the samples do: a host oscillating around its threshold cannot make
\* Evaluate flap.
THEOREM NoFlapping == Spec => NoFlap
<1>1. ASSUME IInv, [Next]_vars, NEW k \in Keys,
             active[k].state = "firing", active'[k].state # "firing"
      PROVE  sinceFired[k] + MaxLag >= ResolveAfter
  <2>0. TypeOK /\ Agrees(k) /\ active[k] \in Alert
    BY <1>1 DEF IInv, TypeOK
  <2>1. ASSUME NEW h \in Hosts, NEW lag \in 0..MaxLag, Evaluate(h, lag)
        PROVE  sinceFired[k] + MaxLag >= ResolveAfter
    <3>1. Clearing(active[k], lag).clear - lag >= ResolveAfter
      BY <1>1, <2>0, <2>1, StopsFiring
    <3>2. calm[k] # None
      <4>1. SUFFICES ASSUME calm[k] = None PROVE FALSE
        OBVIOUS
      <4>2. Clearing(active[k], lag).clear = lag
        BY <1>1, <2>0, <4>1 DEF Clearing, Agrees, Alert
      <4>3. QED
        BY <3>1, <4>2, EvaluatorAssumption
    <3>3. Clearing(active[k], lag).clear = calm[k]
      BY <1>1, <2>0, <3>2 DEF Clearing, Agrees, Alert
    <3>4. calm[k] \in Nat /\ sinceFired[k] \in Nat /\ lag \in Nat
      BY <2>0, <3>2, AgeFacts DEF TypeOK
    <3>5. QED
      BY <1>1, <2>0, <3>1, <3>2, <3>3, <3>4, EvaluatorAssumption DEF Agrees
  <2>2. ASSUME NEW new \in [Rules -> Rule], ReplaceRules(new)
        PROVE  FALSE
    <3>1. k[2] \in DOMAIN new
      BY DEF Keys
    <3>2. active'[k] = active[k]
      BY <2>2, <3>1 DEF ReplaceRules
    <3>3. QED
      BY <1>1, <3>2
  <2>3. ~ \E q \in Keys : Acknowledge(q)
    BY <1>1, <2>0 DEF Acknowledge, TypeOK, Alert
  <2>4. ~ \E q \in Keys, r \in Reading : Change(q, r)
    BY <1>1 DEF Change
  <2>5. ~ Tick
    BY <1>1, <2>0, AgedFields DEF Tick
  <2>6. ~ UNCHANGED vars
    BY <1>1 DEF vars
  <2>7. QED
    BY <1>1, <2>1, <2>2, <2>3, <2>4, <2>5, <2>6 DEF Next, Sample
<1>2. IInv /\ [Next]_vars
        => [\A k \in Keys : active[k].state = "firing" /\ active'[k].state # "firing"
              => sinceFired[k] + MaxLag >= ResolveAfter]_vars
  BY <1>1
<1>3. QED
  BY <1>2, AlertsAgree, PTL DEF Spec, NoFlap

-----------------------------------------------------------------------------
(* The evaluator implements AlertLifecycle.                                *)

\* What a key's sample shows the abstract specification.
Shown(h) ==
  [k \in Keys |-> IF k[1] = h /\ Evaluated(k) /\ reading[k] # "absent"
                  THEN reading[k] ELSE "unseen"]

\* An evaluated sample shows each series of its host breaching, clear or not at all.
LEMMA ShownType ==
  ASSUME TypeOK, NEW h \in Hosts
  PROVE  Shown(h) \in [Keys -> {"breach", "clear", "unseen"}]
BY DEF Shown, TypeOK, Reading

\* The run of breaches and the run of clear samples move as promised.
LEMMA RunsFollow ==
  ASSUME TypeOK, NEW h \in Hosts, NEW lag \in 0..MaxLag, Evaluate(h, lag)
  PROVE  /\ held' = [k \in Keys |-> CASE Shown(h)[k] = "breach" -> Lifecycle!Extend(held[k], lag)
                                      [] Shown(h)[k] = "clear"  -> Lifecycle!None
                                      [] OTHER                  -> held[k]]
         /\ calm' = [k \in Keys |-> CASE Shown(h)[k] = "clear"  -> Lifecycle!Extend(calm[k], lag)
                                      [] Shown(h)[k] = "breach" -> Lifecycle!None
                                      [] OTHER                  -> calm[k]]
BY DEF Evaluate, Watch, Shown, Evaluated, Extend, Lifecycle!Extend, None, Lifecycle!None

\* An alert starts firing exactly when the promise says so.
LEMMA StartsMatch ==
  ASSUME IInv, NEW h \in Hosts, NEW lag \in 0..MaxLag, Evaluate(h, lag), NEW k \in Keys
  PROVE  (active[k].state # "firing" /\ active'[k].state = "firing")
           <=> k \in Lifecycle!Starts(Shown(h), lag)
<1>1. TypeOK /\ Agrees(k) /\ active[k] \in Alert /\ lag \in Nat /\ lag \in Ages
      /\ rules[k[2]] \in Rule /\ rules[k[2]].for \in Nat
  BY AgeFacts, EvaluatorAssumption DEF IInv, TypeOK, Keys, Rule
<1>2. k \in Lifecycle!Starts(Shown(h), lag)
        <=> /\ k[1] = h /\ Evaluated(k) /\ reading[k] = "breach"
            /\ active[k].state # "firing"
            /\ held'[k] - lag >= rules[k[2]].for
  BY DEF Lifecycle!Starts, Shown, Evaluated
<1>3. CASE k[1] = h /\ Evaluated(k) /\ reading[k] = "breach"
  <2>1. active'[k] = After(k, lag) /\ held'[k] = Extend(held[k], lag)
    BY <1>3 DEF Evaluate, Watch
  <2>2. CASE active[k].state = "none"
    <3>1. active'[k] = Start(rules[k[2]], lag) /\ held'[k] = lag
      BY <1>1, <1>3, <2>1, <2>2 DEF After, Agrees, Extend
    <3>2. QED
      BY <1>1, <1>2, <1>3, <2>2, <3>1 DEF Start, NewAlert
  <2>3. CASE active[k].state = "pending"
    <3>1. active'[k] = Breach(active[k], rules[k[2]], lag)
      BY <1>1, <1>3, <2>1, <2>3 DEF After
    <3>2. held'[k] = active[k].age
      BY <1>1, <2>1, <2>3, AgeFacts DEF Agrees, Extend, Alert
    <3>3. active'[k].state = "firing" <=> active[k].age - lag >= rules[k[2]].for
      BY <1>1, <2>3, <3>1 DEF Breach, Alert
    <3>4. QED
      BY <1>2, <1>3, <2>3, <3>2, <3>3
  <2>4. CASE active[k].state = "firing"
    BY <1>2, <2>4
  <2>5. QED
    BY <1>1, <2>2, <2>3, <2>4 DEF Alert
<1>4. CASE ~(k[1] = h /\ Evaluated(k))
  BY <1>1, <1>2, <1>4, UnevaluatedAgrees
<1>5. CASE k[1] = h /\ Evaluated(k) /\ reading[k] = "clear"
  <2>1. Clear(active[k], lag).state = "firing" => active[k].state = "firing"
    BY <1>1 DEF Clear, Clearing, Untracked, NewAlert, Alert
  <2>2. active'[k] = After(k, lag)
    BY <1>5 DEF Evaluate
  <2>3. active'[k].state = "firing" => active[k].state = "firing"
    BY <1>1, <1>5, <2>1, <2>2 DEF After
  <2>4. QED
    BY <1>2, <1>5, <2>3
<1>6. QED
  BY <1>1, <1>3, <1>4, <1>5 DEF Evaluated, TypeOK, Reading

\* A firing alert ends exactly when the promise says so.
LEMMA StopsMatch ==
  ASSUME IInv, NEW h \in Hosts, NEW lag \in 0..MaxLag, Evaluate(h, lag), NEW k \in Keys
  PROVE  /\ (active[k].state = "firing" /\ active'[k].state # "firing")
               <=> k \in Lifecycle!Stops(Shown(h), lag)
         /\ active[k].state = "firing" => active'[k].state \in {"firing", "none"}
<1>1. TypeOK /\ Agrees(k) /\ active[k] \in Alert /\ lag \in Nat /\ ResolveAfter \in Nat \ {0}
  BY AgeFacts, EvaluatorAssumption DEF IInv, TypeOK
<1>2. k \in Lifecycle!Stops(Shown(h), lag)
        <=> /\ k[1] = h /\ Evaluated(k) /\ reading[k] = "clear"
            /\ active[k].state = "firing"
            /\ calm'[k] - lag >= ResolveAfter
  BY DEF Lifecycle!Stops, Shown, Evaluated
<1>3. ASSUME active[k].state = "firing", k[1] = h, Evaluated(k), reading[k] = "clear"
      PROVE  /\ active'[k] = Clear(active[k], lag)
             /\ calm'[k] = Clearing(active[k], lag).clear
             /\ calm'[k] \in Nat
  <2>1. active'[k] = Clear(active[k], lag) /\ calm'[k] = Extend(calm[k], lag)
    BY <1>3 DEF Evaluate, Watch, After
  <2>2. Clearing(active[k], lag).clear = Extend(calm[k], lag)
    BY <1>1, <1>3 DEF Clearing, Extend, Agrees, Alert
  <2>3. Extend(calm[k], lag) \in Nat
    BY <1>1, AgeFacts DEF Extend, TypeOK
  <2>4. QED
    BY <2>1, <2>2, <2>3
<1>4. ASSUME active[k].state = "firing", k[1] = h, Evaluated(k), reading[k] = "clear"
      PROVE  active'[k].state # "firing" <=> calm'[k] - lag >= ResolveAfter
  <2>1. Clearing(active[k], lag).state = "firing" /\ Untracked.state = "none"
    BY <1>1, <1>4 DEF Clearing, Untracked, NewAlert, Alert
  <2>2. QED
    BY <1>1, <1>3, <1>4, <2>1 DEF Clear
<1>5. (active[k].state = "firing" /\ active'[k].state # "firing")
        => /\ k[1] = h /\ Evaluated(k) /\ reading[k] = "clear"
           /\ active'[k].state = "none"
  BY <1>1, StopsFiring DEF Untracked, NewAlert
<1>6. QED
  BY <1>2, <1>4, <1>5

\* Abbreviations for the abstract state.
AbsWait == [k \in Keys |-> rules[k[2]].for]
AbsFiring == {k \in Keys : active[k].state = "firing"}
AbsEvents == {<<t.key, t.state>> : t \in transitions}

\* An evaluated sample is an observation.
LEMMA EvaluateObserves ==
  ASSUME IInv, NEW h \in Hosts, NEW lag \in 0..MaxLag, Evaluate(h, lag)
  PROVE  Lifecycle!Observe(Shown(h), lag)
<1> DEFINE On == Lifecycle!Starts(Shown(h), lag)
           Off == Lifecycle!Stops(Shown(h), lag)
<1>1. TypeOK
  BY DEF IInv
<1>2. On \subseteq Keys /\ Off \subseteq Keys
  BY DEF Lifecycle!Starts, Lifecycle!Stops
<1>3. \A k \in Keys : (active[k].state # "firing" /\ active'[k].state = "firing") <=> k \in On
  BY StartsMatch
<1>4. ASSUME NEW k \in Keys
      PROVE  /\ (active[k].state = "firing" /\ active'[k].state # "firing") <=> k \in Off
             /\ active[k].state = "firing" => active'[k].state \in {"firing", "none"}
  BY StopsMatch
<1> HIDE DEF On, Off
<1>5. AbsFiring' = (AbsFiring \cup On) \ Off
  <2>1. ASSUME NEW k \in Keys
        PROVE  active'[k].state = "firing" <=> (active[k].state = "firing" \/ k \in On) /\ k \notin Off
    BY <1>3, <1>4
  <2>2. AbsFiring' = {k \in Keys : active'[k].state = "firing"}
    BY DEF AbsFiring
  <2>3. QED
    BY <1>2, <2>1, <2>2 DEF AbsFiring
<1>6. AbsEvents' = (On \X {"firing"}) \cup (Off \X {"resolved"})
  <2>1. \A k \in Keys : k[1] # h => active'[k] = active[k]
    BY DEF Evaluate
  <2>2. \A k \in Keys : k[1] = h => active'[k] = After(k, lag)
    BY DEF Evaluate
  <2>3. On = {k \in {h} \X Rules : active[k].state # "firing" /\ After(k, lag).state = "firing"}
    BY <1>2, <1>3, <2>1, <2>2 DEF Keys
  <2>4. Off = {k \in {h} \X Rules : active[k].state = "firing" /\ After(k, lag).state = "none"}
    <3>1. ASSUME NEW k \in Keys
          PROVE  k \in Off <=> k[1] = h /\ active[k].state = "firing" /\ After(k, lag).state = "none"
      BY <1>4, <2>1, <2>2
    <3>2. {h} \X Rules = {k \in Keys : k[1] = h}
      BY DEF Keys
    <3>3. QED
      BY <1>2, <3>1, <3>2
  <2>5. transitions' =
          {[key |-> k, state |-> "firing", acknowledged |-> After(k, lag).acknowledged] : k \in On}
          \cup
          {[key |-> k, state |-> "resolved", acknowledged |-> active[k].acknowledged] : k \in Off}
    BY <2>3, <2>4 DEF Evaluate, Returned
  <2>6. \A t \in transitions' :
           \/ t.key \in On /\ t.state = "firing"
           \/ t.key \in Off /\ t.state = "resolved"
    BY <2>5
  <2>7. \A k \in On : \E t \in transitions' : t.key = k /\ t.state = "firing"
    <3>1. TAKE k \in On
    <3>2. [key |-> k, state |-> "firing", acknowledged |-> After(k, lag).acknowledged] \in transitions'
      BY <2>5
    <3>3. QED
      BY <3>2
  <2>8. \A k \in Off : \E t \in transitions' : t.key = k /\ t.state = "resolved"
    <3>1. TAKE k \in Off
    <3>2. [key |-> k, state |-> "resolved", acknowledged |-> active[k].acknowledged] \in transitions'
      BY <2>5
    <3>3. QED
      BY <3>2
  <2>9. AbsEvents' = {<<t.key, t.state>> : t \in transitions'}
    BY DEF AbsEvents
  <2>10. QED
    BY <2>6, <2>7, <2>8, <2>9
<1>7. AbsWait' = AbsWait
  BY DEF AbsWait, Evaluate
<1>8. QED
  BY <1>1, <1>5, <1>6, <1>7, RunsFollow
  DEF Lifecycle!Observe, AbsFiring, AbsEvents, AbsWait, On, Off

\* Every step of the evaluator is a step of the lifecycle.
LEMMA StepImplements ==
  ASSUME IInv, IInv', [Next]_vars
  PROVE  [Lifecycle!Next]_(Lifecycle!vars)
<1>1. TypeOK /\ TypeOK'
  BY DEF IInv
<1>2. AbsWait \in [Keys -> Durations] /\ AbsWait' \in [Keys -> Durations]
  BY <1>1 DEF AbsWait, TypeOK, Keys, Rule
<1>3. ASSUME NEW h \in Hosts, NEW lag \in 0..MaxLag, Evaluate(h, lag)
      PROVE  Lifecycle!Next
  BY <1>1, <1>3, ShownType, EvaluateObserves DEF Lifecycle!Next
<1>4. ASSUME AbsFiring' = AbsFiring, transitions' = {}, UNCHANGED observers
      PROVE  Lifecycle!Next
  <2>1. AbsEvents' = {}
    BY <1>4 DEF AbsEvents
  <2>2. Lifecycle!Retune
    BY <1>2, <1>4, <2>1 DEF Lifecycle!Retune, AbsWait, AbsFiring, AbsEvents, observers
  <2>3. QED
    BY <2>2 DEF Lifecycle!Next
<1>5. ASSUME NEW new \in [Rules -> Rule], ReplaceRules(new)
      PROVE  Lifecycle!Next
  <2>1. \A k \in Keys : k[2] \in DOMAIN new
    BY DEF Keys
  <2>2. \A k \in Keys : active'[k] = active[k]
    BY <1>5, <2>1 DEF ReplaceRules
  <2>3. AbsFiring' = AbsFiring
    BY <2>2 DEF AbsFiring
  <2>4. QED
    BY <1>4, <1>5, <2>3 DEF ReplaceRules
<1>6. ASSUME NEW q \in Keys, Acknowledge(q)
      PROVE  Lifecycle!Next
  <2>1. \A k \in Keys : active'[k].state = active[k].state
    BY <1>1, <1>6 DEF Acknowledge, TypeOK, Alert
  <2>2. AbsFiring' = AbsFiring
    BY <2>1 DEF AbsFiring
  <2>3. QED
    BY <1>4, <1>6, <2>2 DEF Acknowledge
<1>7. ASSUME NEW q \in Keys, NEW r \in Reading, Change(q, r)
      PROVE  Lifecycle!Next
  BY <1>4, <1>7 DEF Change, AbsFiring
<1>8. CASE Tick
  <2>1. \A k \in Keys : active'[k].state = active[k].state
    BY <1>1, <1>8, AgedFields DEF Tick, TypeOK
  <2>2. AbsFiring' = AbsFiring /\ AbsEvents' = {} /\ AbsWait' = AbsWait
    BY <1>8, <2>1 DEF Tick, AbsFiring, AbsEvents, AbsWait
  <2>3. Lifecycle!Tick
    BY <1>8, <2>2 DEF Tick, Lifecycle!Tick, Older, Lifecycle!Older, None, Lifecycle!None,
                       AbsFiring, AbsEvents, AbsWait
  <2>4. QED
    BY <2>3 DEF Lifecycle!Next
<1>9. CASE UNCHANGED vars
  BY <1>9 DEF vars, Lifecycle!vars
<1>10. QED
  BY <1>3, <1>5, <1>6, <1>7, <1>8, <1>9 DEF Next, Sample

\* The evaluator implements the lifecycle it documents: for every fleet and
\* rule set it announces firing and resolved exactly when the samples it
\* evaluated call for it, and once each.
THEOREM Implements == Spec => ImplementsLifecycle
<1>1. Init => Lifecycle!Init
  <2>1. ASSUME Init
        PROVE  AbsWait \in [Keys -> Durations] /\ AbsFiring = {} /\ AbsEvents = {}
    BY <2>1, InitType DEF TypeOK, Init, AbsWait, AbsFiring, AbsEvents, Keys, Rule,
                          Untracked, NewAlert
  <2>2. QED
    BY <2>1 DEF Init, Lifecycle!Init, None, Lifecycle!None, AbsWait, AbsFiring, AbsEvents
<1>2. IInv /\ IInv' /\ [Next]_vars => [Lifecycle!Next]_(Lifecycle!vars)
  BY StepImplements
<1>3. QED
  BY <1>1, <1>2, AlertsAgree, PTL DEF Spec, ImplementsLifecycle, Lifecycle!Spec

-----------------------------------------------------------------------------
(* Acknowledgements.                                                       *)

\* A tracked alert that is evaluated is over or keeps its acknowledgement.
LEMMA AfterKeepsAck ==
  ASSUME TypeOK, NEW k \in Keys, NEW lag \in 0..MaxLag, active[k].state # "none"
  PROVE  After(k, lag).state = "none" \/ After(k, lag).acknowledged = active[k].acknowledged
<1> DEFINE a == active[k]
<1>1. a \in Alert
  BY DEF TypeOK
<1>2. Breach(a, rules[k[2]], lag).acknowledged = a.acknowledged
  BY <1>1 DEF Breach, Alert
<1>3. Clearing(a, lag).acknowledged = a.acknowledged
  BY <1>1 DEF Clearing, Alert
<1>4. Untracked.state = "none"
  BY DEF Untracked, NewAlert
<1>5. Clear(a, lag).state = "none" \/ Clear(a, lag).acknowledged = a.acknowledged
  BY <1>3, <1>4 DEF Clear
<1> HIDE DEF a
<1>6. After(k, lag) \in {Breach(a, rules[k[2]], lag), Clear(a, lag), a}
  BY DEF After, a
<1> QED
  BY <1>2, <1>5, <1>6 DEF a

\* Acknowledging lasts for the activation: until the alert is over it stays
\* acknowledged, and so is every copy handed to the dispatcher.
THEOREM AcknowledgementLasts == Spec => AckLasts
<1> DEFINE Lasts(k) ==
             active[k].acknowledged =>
               /\ active'[k].state = "none" \/ active'[k].acknowledged
               /\ \A t \in transitions' : t.key = k => t.acknowledged
<1>1. ASSUME IInv, [Next]_vars, vars' # vars, NEW k \in Keys, active[k].acknowledged
      PROVE  /\ active'[k].state = "none" \/ active'[k].acknowledged
             /\ \A t \in transitions' : t.key = k => t.acknowledged
  <2>0. TypeOK /\ Agrees(k) /\ active[k] \in Alert /\ active[k].acknowledged = TRUE
    BY <1>1 DEF IInv, TypeOK, Alert
  <2>1. active[k].state # "none"
    BY <1>1, <2>0 DEF Agrees, Untracked, NewAlert
  <2>2. ASSUME NEW h \in Hosts, NEW lag \in 0..MaxLag, Evaluate(h, lag)
        PROVE  /\ active'[k].state = "none" \/ active'[k].acknowledged
               /\ \A t \in transitions' : t.key = k => t.acknowledged
    <3>1. After(k, lag).state = "none" \/ After(k, lag).acknowledged = TRUE
      BY <2>0, <2>1, AfterKeepsAck
    <3>2. active'[k] \in {After(k, lag), active[k]}
      BY <2>2 DEF Evaluate
    <3>3. ASSUME NEW t \in transitions', t.key = k PROVE t.acknowledged
      <4>1. \/ t = [key |-> k, state |-> "resolved", acknowledged |-> active[k].acknowledged]
            \/ /\ t = [key |-> k, state |-> "firing", acknowledged |-> After(k, lag).acknowledged]
               /\ After(k, lag).state = "firing"
        BY <2>2, <3>3 DEF Evaluate, Returned
      <4> QED
        BY <2>0, <3>1, <4>1
    <3> QED
      BY <1>1, <3>1, <3>2, <3>3
  <2>3. ASSUME transitions' = {}, active'[k].acknowledged
        PROVE  /\ active'[k].state = "none" \/ active'[k].acknowledged
               /\ \A t \in transitions' : t.key = k => t.acknowledged
    BY <2>3
  <2>4. ASSUME NEW new \in [Rules -> Rule], ReplaceRules(new)
        PROVE  transitions' = {} /\ active'[k].acknowledged
    <3>1. k[2] \in DOMAIN new
      BY DEF Keys
    <3> QED
      BY <1>1, <2>4, <3>1 DEF ReplaceRules
  <2>5. ASSUME NEW q \in Keys, Acknowledge(q)
        PROVE  transitions' = {} /\ active'[k].acknowledged
    BY <1>1, <2>0, <2>5 DEF Acknowledge, TypeOK, Alert
  <2>6. ASSUME NEW q \in Keys, NEW r \in Reading, Change(q, r)
        PROVE  transitions' = {} /\ active'[k].acknowledged
    BY <1>1, <2>6 DEF Change
  <2>7. ASSUME Tick
        PROVE  transitions' = {} /\ active'[k].acknowledged
    BY <1>1, <2>0, <2>7, AgedFields DEF Tick
  <2> QED
    BY <1>1, <2>2, <2>3, <2>4, <2>5, <2>6, <2>7 DEF Next, Sample
<1>2. IInv /\ [Next]_vars => [\A k \in Keys : Lasts(k)]_vars
  BY <1>1
<1>3. QED
  BY <1>2, AlertsAgree, PTL DEF Spec, AckLasts

-----------------------------------------------------------------------------
(* The only way a dip goes unnoticed.                                      *)

AlwaysOn == \A r \in Rules : rules[r].enabled

\* Under an enabled rule a clear sample ends a pending alert.
LEMMA NoDip ==
  ASSUME TypeOK, AlwaysOn, dipped = {}, [Next]_vars
  PROVE  dipped' = {}
<1>1. ASSUME NEW h \in Hosts, NEW lag \in 0..MaxLag, Evaluate(h, lag)
      PROVE  dipped' = {}
  <2> SUFFICES ASSUME NEW k \in Keys, active'[k].state = "pending", k[1] = h, reading[k] = "clear"
               PROVE  FALSE
    BY <1>1 DEF Evaluate, Watch
  <2>1. Evaluated(k) /\ active'[k] = After(k, lag) /\ active[k] \in Alert
    BY <1>1 DEF Evaluated, AlwaysOn, Keys, Evaluate, TypeOK
  <2>2. After(k, lag) = IF active[k].state # "none" THEN Clear(active[k], lag) ELSE active[k]
    BY <2>1 DEF After
  <2>3. Clear(active[k], lag).state # "pending"
    BY <2>1 DEF Clear, Clearing, Untracked, NewAlert, Alert
  <2> QED
    BY <2>1, <2>2, <2>3
<1> QED
  BY <1>1 DEF Next, Sample, ReplaceRules, Acknowledge, Change, Tick, observers, vars

\* HeldThroughout fails only through a rule that is switched off while its alert is
\* pending: as long as every rule is enabled, no alert fires whose host reported the
\* condition false since the alert started.
THEOREM HeldWhileEnabled == Spec /\ []AlwaysOn => HeldThroughout
<1>1. Init => dipped = {}
  BY DEF Init
<1>2. TypeOK /\ AlwaysOn /\ dipped = {} /\ [Next]_vars => (dipped = {})'
  BY NoDip
<1>3. dipped = {} =>
        [\A k \in Keys : active[k].state # "firing" /\ active'[k].state = "firing" => k \notin dipped]_vars
  OBVIOUS
<1> QED
  BY <1>1, <1>2, <1>3, TypeCorrect, PTL DEF Spec, HeldThroughout
=============================================================================
