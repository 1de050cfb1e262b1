-------------------------- MODULE EnrolmentProofs --------------------------
(* Proofs about Enrolment for any number of machines, invitations, requests *)
(* and faults, and for any burst, rate and sweep that satisfy the           *)
(* assumptions of RateLimiter and Enrolment.                                *)
EXTENDS Enrolment, FiniteSetTheorems, TLAPS

-----------------------------------------------------------------------------
(* The limiter.                                                            *)

Levels == [c \in Clients |-> Level(c)]
Quiets == [c \in Clients |-> Quiet(c)]

\* The clients whose bucket a sweep drops.
Swept == DOMAIN buckets \ Kept

\* The time that fills a bucket, and what is left of it when cut to whole seconds.
LEMMA FullTimes ==
  /\ Full \in Nat /\ PerToken \in Nat \ {0} /\ PerToken <= Full
  /\ IdleFullAfter \in Nat /\ IdleFullAfter <= Full
  /\ Full % Second = Full - IdleFullAfter
<1>1. Burst \in Nat \ {0} /\ PerToken \in Nat \ {0} /\ Second \in Nat \ {0}
  BY LimiterAssumption
<1>2. Full \in Nat /\ PerToken <= Full
  BY <1>1 DEF Full
<1> HIDE DEF Full
<1>3. Full \div Second \in Nat /\ (Full \div Second) * Second \in Nat
  BY <1>1, <1>2
<1>4. (Full \div Second) * Second <= Full /\ Full % Second = Full - (Full \div Second) * Second
  BY <1>1, <1>2
<1> QED
  BY <1>1, <1>2, <1>3, <1>4 DEF IdleFullAfter

LEMMA BucketFields ==
  ASSUME LimiterTypeOK, NEW c \in DOMAIN buckets
  PROVE  /\ buckets[c] \in Bucket
         /\ buckets[c].credit \in 0..Full /\ buckets[c].idle \in 0..Full + 1
         /\ Refilled(buckets[c]) \in 0..Full
<1>1. buckets[c] \in Bucket
  BY DEF LimiterTypeOK
<1>2. buckets[c].credit \in 0..Full /\ buckets[c].idle \in 0..Full + 1
  BY <1>1 DEF Bucket
<1> QED
  BY <1>1, <1>2, FullTimes DEF Refilled

LEMMA HeldRange ==
  ASSUME LimiterTypeOK, NEW c \in Clients
  PROVE  Held(c) \in 0..Full
BY BucketFields, FullTimes DEF Held, Kept

\* A sweep drops only clients that have been quiet for longer than the whole seconds
\* of the time that fills a bucket, when less than a second's refill is missing, and
\* what a client then has is a full bucket.
LEMMA SweptQuiet ==
  ASSUME LimiterTypeOK
  PROVE  /\ \A c \in Swept : /\ c \in Clients /\ Quiet(c) = IdleFullAfter + 1
                             /\ Level(c) = Full \/ Full - Level(c) < Full % Second
         /\ \A c \in Clients : Held(c) = IF c \in Swept THEN Full ELSE Level(c)
<1>1. ASSUME NEW c \in Swept
      PROVE  /\ c \in Clients /\ Quiet(c) = IdleFullAfter + 1
             /\ Level(c) = Full \/ Full - Level(c) < Full % Second
  <2>1. c \in DOMAIN buckets /\ c \in Clients /\ ~(buckets[c].idle <= IdleFullAfter)
    BY DEF Swept, Kept, LimiterTypeOK
  <2>2. Quiet(c) = IdleFullAfter + 1
    BY <2>1 DEF Quiet
  <2>3. Level(c) = Full \/ Full - Level(c) < Full % Second
    <3>1. Level(c) = IF buckets[c].credit + buckets[c].idle < Full
                     THEN buckets[c].credit + buckets[c].idle ELSE Full
      BY <2>1 DEF Level, Refilled
    <3> QED
      BY <2>1, <3>1, BucketFields, FullTimes
  <2> QED
    BY <2>1, <2>2, <2>3
<1>2. ASSUME NEW c \in Clients
      PROVE  Held(c) = IF c \in Swept THEN Full ELSE Level(c)
  <2>1. Kept \subseteq DOMAIN buckets
    BY DEF Kept
  <2> QED
    BY <2>1 DEF Held, Level, Swept
<1> QED
  BY <1>1, <1>2

\* What a request does: it is let in exactly if a token is there, which it takes;
\* and what every other client has is not disturbed.
LEMMA AllowTakes ==
  ASSUME LimiterTypeOK, NEW c \in Clients, NEW ok \in BOOLEAN, Allow(c, ok)
  PROVE  /\ LimiterTypeOK'
         /\ ok <=> Held(c) >= PerToken
         /\ Levels' = [k \in Clients |->
              IF k = c THEN IF ok THEN Held(c) - PerToken ELSE Held(c) ELSE Held(k)]
         /\ Quiets' = [Quiets EXCEPT ![c] = 0]
<1> DEFINE left == IF ok THEN Held(c) - PerToken ELSE Held(c)
           b == [credit |-> left, idle |-> 0]
<1>1. Held(c) \in 0..Full
  BY HeldRange
<1>2. ok <=> Held(c) >= PerToken
  BY Zenon DEF Allow
<1>3. left \in 0..Full
  BY <1>1, <1>2, FullTimes
<1>4. b \in Bucket /\ b.credit = left /\ b.idle = 0
  BY <1>3, FullTimes DEF Bucket
<1>5. Kept \subseteq DOMAIN buckets
  BY DEF Kept
<1>6. buckets' = [k \in Kept \cup {c} |-> IF k = c THEN b ELSE buckets[k]]
  BY DEF Allow
<1> HIDE DEF b, left
<1>7. LimiterTypeOK'
  <2>1. sinceSweep' \in 0..SweepEvery
    BY LimiterAssumption DEF Allow, LimiterTypeOK
  <2>2. DOMAIN buckets' = Kept \cup {c} /\ DOMAIN buckets' \subseteq Clients
    BY <1>5, <1>6 DEF LimiterTypeOK
  <2>3. ASSUME NEW k \in DOMAIN buckets'
        PROVE  buckets'[k] \in Bucket
    BY <1>4, <1>5, <1>6, <2>2, <2>3 DEF LimiterTypeOK
  <2> QED
    BY <2>1, <2>2, <2>3 DEF LimiterTypeOK
<1>8. Level(c)' = left /\ Quiet(c)' = 0
  <2>1. c \in DOMAIN buckets' /\ buckets'[c] = b
    BY <1>6
  <2>2. Level(c)' = Refilled(b) /\ Refilled(b) = left
    BY <1>3, <1>4, <2>1, FullTimes DEF Level, Refilled
  <2>3. Quiet(c)' = 0
    BY <1>4, <2>1, FullTimes DEF Quiet
  <2> QED
    BY <2>2, <2>3
<1>9. ASSUME NEW k \in Clients, k # c
      PROVE  Level(k)' = Held(k) /\ Quiet(k)' = Quiet(k)
  <2>1. CASE k \in Kept
    <3>1. k \in DOMAIN buckets /\ k \in DOMAIN buckets' /\ buckets'[k] = buckets[k]
      BY <1>5, <1>6, <1>9, <2>1
    <3> QED
      BY <2>1, <3>1 DEF Level, Held, Quiet, IdleFullAfter
  <2>2. CASE k \notin Kept
    <3>1. k \notin DOMAIN buckets'
      BY <1>6, <1>9, <2>2
    <3>2. Quiet(k) = IdleFullAfter + 1
      <4>1. CASE k \in DOMAIN buckets
        BY <2>2, <4>1, SweptQuiet DEF Swept
      <4>2. CASE k \notin DOMAIN buckets
        BY <4>2 DEF Quiet
      <4> QED
        BY <4>1, <4>2
    <3> QED
      BY <2>2, <3>1, <3>2 DEF Level, Held, Quiet, IdleFullAfter
  <2> QED
    BY <2>1, <2>2
<1> QED
  BY <1>2, <1>7, <1>8, <1>9 DEF Levels, Quiets, left

\* Time refills every bucket, the kept and the forgotten.
LEMMA TickRefills ==
  ASSUME LimiterTypeOK, LimiterTick
  PROVE  /\ LimiterTypeOK'
         /\ Levels' = [c \in Clients |-> IF Levels[c] < Full THEN Levels[c] + 1 ELSE Levels[c]]
         /\ Quiets' = [c \in Clients |->
              IF Quiets[c] < IdleFullAfter + 1 THEN Quiets[c] + 1 ELSE Quiets[c]]
<1>1. buckets' = [c \in DOMAIN buckets |-> [buckets[c] EXCEPT !.idle = Older(@, Full + 1)]]
  BY DEF LimiterTick
<1>2. DOMAIN buckets' = DOMAIN buckets
  BY <1>1
<1>3. ASSUME NEW c \in DOMAIN buckets
      PROVE  /\ buckets'[c] = [buckets[c] EXCEPT !.idle = Older(@, Full + 1)]
             /\ buckets'[c].credit = buckets[c].credit
             /\ buckets'[c].idle = Older(buckets[c].idle, Full + 1)
             /\ Older(buckets[c].idle, Full + 1) \in 0..Full + 1
  <2>1. buckets[c] \in Bucket /\ buckets[c].idle \in 0..Full + 1
    BY BucketFields
  <2>2. Older(buckets[c].idle, Full + 1) \in 0..Full + 1
    BY <2>1, FullTimes DEF Older
  <2> QED
    BY <1>1, <2>1, <2>2 DEF Bucket
<1>4. LimiterTypeOK'
  <2>1. sinceSweep' \in 0..SweepEvery
    BY LimiterAssumption DEF LimiterTick, LimiterTypeOK, Older
  <2>2. ASSUME NEW c \in DOMAIN buckets
        PROVE  buckets'[c] \in Bucket
    BY <1>3, BucketFields DEF Bucket
  <2> QED
    BY <1>2, <2>1, <2>2 DEF LimiterTypeOK
<1>5. ASSUME NEW c \in Clients
      PROVE  /\ Level(c)' = IF Level(c) < Full THEN Level(c) + 1 ELSE Level(c)
             /\ Quiet(c)' = IF Quiet(c) < IdleFullAfter + 1 THEN Quiet(c) + 1 ELSE Quiet(c)
  <2>1. CASE c \in DOMAIN buckets
    <3> DEFINE t == buckets[c].credit
               i == buckets[c].idle
               j == Older(i, Full + 1)
    <3>1. t \in 0..Full /\ i \in 0..Full + 1
      BY <2>1, BucketFields
    <3>2. /\ Level(c) = IF t + i < Full THEN t + i ELSE Full
          /\ Quiet(c) = IF i <= IdleFullAfter THEN i ELSE IdleFullAfter + 1
      BY <2>1 DEF Level, Refilled, Quiet
    <3>3. /\ Level(c)' = IF t + j < Full THEN t + j ELSE Full
          /\ Quiet(c)' = IF j <= IdleFullAfter THEN j ELSE IdleFullAfter + 1
      <4>1. c \in DOMAIN buckets' /\ buckets'[c].credit = t /\ buckets'[c].idle = j
        BY <1>2, <1>3, <2>1
      <4> HIDE DEF t, j
      <4> QED
        BY <4>1 DEF Level, Refilled, Quiet, IdleFullAfter, Full
    <3>4. j = IF i < Full + 1 THEN i + 1 ELSE i
      BY DEF Older
    <3> HIDE DEF t, i, j
    <3> QED
      BY <3>1, <3>2, <3>3, <3>4, FullTimes
  <2>2. CASE c \notin DOMAIN buckets
    <3>1. Level(c) = Full /\ Level(c)' = Full
      BY <1>2, <2>2 DEF Level, Full
    <3>2. Quiet(c) = IdleFullAfter + 1 /\ Quiet(c)' = IdleFullAfter + 1
      BY <1>2, <2>2 DEF Quiet, IdleFullAfter, Full
    <3> QED
      BY <3>1, <3>2, FullTimes
  <2> QED
    BY <2>1, <2>2
<1> QED
  BY <1>4, <1>5 DEF Levels, Quiets

\* A restart forgets every client.
LEMMA RestartFills ==
  ASSUME LimiterRestart
  PROVE  /\ LimiterTypeOK'
         /\ Levels' = [c \in Clients |-> Full]
         /\ Quiets' = [c \in Clients |-> IdleFullAfter + 1]
<1>1. buckets' = [c \in {} |-> 0] /\ sinceSweep' = 0
  BY DEF LimiterRestart
<1>2. DOMAIN buckets' = {}
  BY <1>1
<1> QED
  BY <1>1, <1>2, LimiterAssumption
  DEF LimiterTypeOK, Level, Levels, Quiet, Quiets, Full, IdleFullAfter

-----------------------------------------------------------------------------
(* Handlers, credentials and configuration files.                          *)

\* A credential under way is in the table.
Granted ==
  /\ \A h \in Handlers : handler[h].pc = "grant" => handler[h].agent \in agents
  /\ \A m \in Machines : run[m].pc \in {"truncate", "write"} => run[m].agent \in agents

\* A transaction that is not stale still finds the invitation as it read it.
Unoutdated ==
  \A h \in Handlers : handler[h].pc = "exchange" => token[handler[h].token] \in {"open", "expired"}

\* Nobody has a credential for an invitation that is not spent.
SpentByCredential == \A a \in agents : token[a.token] = "spent"

IInv == TypeOK /\ Granted /\ Unoutdated /\ SpentByCredential

\* What SMT needs to know of the records.
LEMMA HandlerFields ==
  ASSUME NEW x \in Handler
  PROVE  /\ x.pc \in {"idle", "begin", "stale", "exchange", "refuse", "grant"}
         /\ x.pc \in {"begin", "stale", "exchange"} =>
              x = [pc |-> x.pc, token |-> x.token] /\ x.token \in Tokens
         /\ x.pc = "grant" => x = [pc |-> "grant", agent |-> x.agent] /\ x.agent \in Agent
         /\ x.pc = "refuse" => x = [pc |-> "refuse"]
         /\ x.pc = "idle" => x = Idle
BY DEF Handler, Idle

\* What SMT needs to know of the runs.
LEMMA RunFields ==
  ASSUME NEW x \in Run
  PROVE  /\ x.pc \in {"idle", "wait", "truncate", "write"}
         /\ x.pc = "wait" => x = [pc |-> "wait", on |-> x.on] /\ x.on \in Handlers
         /\ x.pc \in {"truncate", "write"} => x = [pc |-> x.pc, agent |-> x.agent] /\ x.agent \in Agent
         /\ x.pc = "idle" => x = Idle
BY DEF Run, Idle

\* The records the handlers are set to.
LEMMA HandlerForms ==
  /\ Idle \in Handler /\ [pc |-> "refuse"] \in Handler
  /\ \A k \in Tokens, p \in {"begin", "stale", "exchange"} : [pc |-> p, token |-> k] \in Handler
  /\ \A a \in Agent : [pc |-> "grant", agent |-> a] \in Handler
BY DEF Handler

\* The records the runs are set to.
LEMMA RunForms ==
  /\ Idle \in Run
  /\ \A h \in Handlers : [pc |-> "wait", on |-> h] \in Run
  /\ \A a \in Agent, p \in {"truncate", "write"} : [pc |-> p, agent |-> a] \in Run
BY DEF Run

\* A commit outdates transactions and nothing else.
LEMMA OutdatedHandlers ==
  ASSUME NEW f \in [Handlers -> Handler]
  PROVE  /\ Outdated(f) \in [Handlers -> Handler]
         /\ \A h \in Handlers : Outdated(f)[h].pc # "exchange"
         /\ \A h \in Handlers : Outdated(f)[h].pc = "grant" => Outdated(f)[h] = f[h]
<1>1. ASSUME NEW h \in Handlers
      PROVE  /\ Outdated(f)[h] \in Handler
             /\ Outdated(f)[h].pc # "exchange"
             /\ Outdated(f)[h].pc = "grant" => Outdated(f)[h] = f[h]
  <2>1. CASE f[h].pc = "exchange"
    <3>1. f[h] = [pc |-> "exchange", token |-> f[h].token] /\ f[h].token \in Tokens
      BY <2>1, HandlerFields
    <3>2. Outdated(f)[h] = [pc |-> "stale", token |-> f[h].token]
      BY <2>1, <3>1 DEF Outdated
    <3>3. [pc |-> "stale", token |-> f[h].token] \in Handler
      BY <3>1, HandlerForms
    <3> QED
      BY <2>1, <3>2, <3>3
  <2>2. CASE f[h].pc # "exchange"
    BY <2>2 DEF Outdated
  <2> QED
    BY <2>1, <2>2
<1> QED
  BY <1>1 DEF Outdated

\* The number of faults stays within its bound.
LEMMA FaultCounted ==
  ASSUME TypeOK, NEW n \in Nat, GoWrong(n)
  PROVE  faults' \in 0..Faults
BY EnrolmentAssumption DEF TypeOK, GoWrong

\* Every action keeps the invariant.  Minting and revoking are commits: they put
\* transactions that have read out of date.
LEMMA MintKeeps ==
  ASSUME IInv, NEW k \in Tokens, Mint(k)
  PROVE  IInv'
<1> USE DEF IInv
<1>1. handler' = Outdated(handler) /\ handler \in [Handlers -> Handler]
  BY DEF Mint, TypeOK
<1>2. /\ handler' \in [Handlers -> Handler]
      /\ \A h \in Handlers : handler'[h].pc # "exchange"
      /\ \A h \in Handlers : handler'[h].pc = "grant" => handler'[h] = handler[h]
  BY <1>1, OutdatedHandlers, Zenon
<1>3. TypeOK'
  BY <1>2 DEF Mint, TypeOK, limiterVars, LimiterTypeOK
<1>4. Granted'
  BY <1>2 DEF Mint, Granted
<1>5. Unoutdated'
  BY <1>2 DEF Unoutdated
<1>6. SpentByCredential'
  <2>1. token[k] = "unused"
    BY DEF Mint
  <2>2. \A a \in agents : a \in Agent /\ a.token \in Tokens
    BY DEF TypeOK, Agent
  <2> QED
    BY <2>1, <2>2 DEF Mint, SpentByCredential, TypeOK
<1> QED
  BY <1>3, <1>4, <1>5, <1>6

\* Deleting an agent keeps the invariant: the handlers under way are outdated by it.
LEMMA RevokeKeeps ==
  ASSUME IInv, NEW a \in agents, RevokeAgent(a)
  PROVE  IInv'
<1> USE DEF IInv
<1>1. handler' = Outdated(handler) /\ handler \in [Handlers -> Handler]
  BY DEF RevokeAgent, TypeOK
<1>2. /\ handler' \in [Handlers -> Handler]
      /\ \A h \in Handlers : handler'[h].pc # "exchange"
      /\ \A h \in Handlers : handler'[h].pc = "grant" => handler'[h] = handler[h]
  BY <1>1, OutdatedHandlers, Zenon
<1>3. faults' \in 0..Faults
  BY FaultCounted DEF RevokeAgent, GoesWrong
<1>4. TypeOK'
  BY <1>2, <1>3 DEF RevokeAgent, TypeOK, limiterVars, LimiterTypeOK
<1>5. Granted'
  BY <1>2 DEF RevokeAgent, Granted
<1>6. Unoutdated'
  BY <1>2 DEF Unoutdated
<1>7. SpentByCredential'
  BY DEF RevokeAgent, SpentByCredential
<1> QED
  BY <1>4, <1>5, <1>6, <1>7

\* A transaction that has read the invitation does not notice that it expires.
LEMMA ExpireKeeps ==
  ASSUME IInv, NEW k \in Tokens, Expire(k)
  PROVE  IInv'
<1> USE DEF IInv
<1>1. faults' \in 0..Faults
  BY FaultCounted DEF Expire, GoesWrong
<1>2. TypeOK'
  BY <1>1 DEF Expire, TypeOK, limiterVars, LimiterTypeOK
<1>3. Granted'
  BY DEF Expire, Granted
<1>4. Unoutdated'
  BY DEF Expire, Unoutdated, TypeOK
<1>5. SpentByCredential'
  BY DEF Expire, SpentByCredential, TypeOK
<1> QED
  BY <1>2, <1>3, <1>4, <1>5

\* A request refused by the limiter changes the limiter only.
LEMMA StartKeeps ==
  ASSUME IInv, NEW m \in Machines, NEW k \in Tokens, NEW h \in Handlers, NEW c \in Clients,
         StartJoin(m, k, h, c)
  PROVE  IInv'
<1> USE DEF IInv
<1>1. faults' \in 0..Faults
  BY FaultCounted DEF StartJoin, GoesWrong, TypeOK
<1>2. LimiterTypeOK'
  BY AllowTakes DEF StartJoin, TypeOK
<1>3. UNCHANGED <<token, agents, revoked, conf>>
  BY DEF StartJoin
<1>4. CASE UNCHANGED <<run, handler>>
  <2>1. TypeOK'
    BY <1>1, <1>2, <1>3, <1>4 DEF TypeOK
  <2> QED
    BY <1>3, <1>4, <2>1 DEF Granted, Unoutdated, SpentByCredential
<1>5. CASE run' = [run EXCEPT ![m] = [pc |-> "wait", on |-> h]] /\ Goto(h, [pc |-> "begin", token |-> k])
  <2>1. /\ run' \in [Machines -> Run]
        /\ \A n \in Machines : n # m => run'[n] = run[n]
        /\ run'[m].pc = "wait"
    BY <1>5, RunForms DEF TypeOK
  <2>2. [pc |-> "begin", token |-> k] \in Handler
    BY HandlerForms
  <2>3. /\ handler' \in [Handlers -> Handler]
        /\ \A g \in Handlers : g # h => handler'[g] = handler[g]
        /\ handler'[h].pc = "begin"
    BY <1>5, <2>2 DEF Goto, TypeOK
  <2>4. TypeOK'
    BY <1>1, <1>2, <1>3, <2>1, <2>3 DEF TypeOK
  <2>5. Granted'
    BY <1>3, <2>1, <2>3 DEF Granted
  <2>6. Unoutdated'
    BY <1>3, <2>3 DEF Unoutdated
  <2> QED
    BY <1>3, <2>4, <2>5, <2>6 DEF SpentByCredential
<1> QED
  BY <1>4, <1>5 DEF StartJoin

\* A transaction goes on only with an invitation it has read as open.
LEMMA BeginKeeps ==
  ASSUME IInv, NEW h \in Handlers, Begin(h)
  PROVE  IInv'
<1> USE DEF IInv
<1>1. handler[h].pc = "begin" /\ handler[h].token \in Tokens
      /\ handler[h] = [pc |-> "begin", token |-> handler[h].token]
  BY HandlerFields DEF Begin, TypeOK
<1>2. UNCHANGED <<limiterVars, token, agents, revoked, run, conf, faults>>
  BY DEF Begin
<1>3. /\ handler' \in [Handlers -> Handler]
      /\ \A g \in Handlers : g # h => handler'[g] = handler[g]
      /\ \/ handler'[h].pc = "refuse"
         \/ /\ handler'[h].pc = "exchange"
            /\ handler'[h].token = handler[h].token
            /\ token[handler[h].token] = "open"
  <2>1. CASE token[handler[h].token] = "open"
    <3>1. [handler[h] EXCEPT !.pc = "exchange"] = [pc |-> "exchange", token |-> handler[h].token]
      BY <1>1
    <3>2. [pc |-> "exchange", token |-> handler[h].token] \in Handler
      BY <1>1, HandlerForms
    <3> QED
      BY <2>1, <3>1, <3>2 DEF Begin, Goto, TypeOK
  <2>2. CASE token[handler[h].token] # "open"
    BY <2>2, HandlerForms DEF Begin, Goto, TypeOK
  <2> QED
    BY <2>1, <2>2
<1>4. TypeOK'
  BY <1>2, <1>3 DEF TypeOK, limiterVars, LimiterTypeOK
<1>5. Granted'
  BY <1>2, <1>3 DEF Granted
<1>6. Unoutdated'
  BY <1>2, <1>3 DEF Unoutdated
<1> QED
  BY <1>2, <1>4, <1>5, <1>6 DEF SpentByCredential

\* The exchange is the only step that spends an invitation.
LEMMA ExchangeKeeps ==
  ASSUME IInv, NEW h \in Handlers, Exchange(h)
  PROVE  IInv'
<1> USE DEF IInv
<1> DEFINE a == [token |-> handler[h].token, by |-> h]
<1>1. handler[h] \in Handler /\ handler[h].pc \in {"exchange", "stale"} /\ handler[h].token \in Tokens
  BY HandlerFields DEF Exchange, TypeOK
<1>2. a \in Agent /\ a.token = handler[h].token
  BY <1>1 DEF Agent
<1>3. CASE handler[h].pc = "exchange"
  <2>1. /\ token' = [token EXCEPT ![a.token] = "spent"]
        /\ agents' = agents \cup {a}
        /\ handler' = [Outdated(handler) EXCEPT ![h] = [pc |-> "grant", agent |-> a]]
        /\ UNCHANGED <<limiterVars, revoked, run, conf, faults>>
    BY <1>3 DEF Exchange
  <2> HIDE DEF a
  <2>2. /\ Outdated(handler) \in [Handlers -> Handler]
        /\ \A g \in Handlers : Outdated(handler)[g].pc # "exchange"
        /\ \A g \in Handlers : Outdated(handler)[g].pc = "grant" => Outdated(handler)[g] = handler[g]
    BY OutdatedHandlers DEF TypeOK
  <2>3. [pc |-> "grant", agent |-> a] \in Handler
    BY <1>2, HandlerForms
  <2>4. /\ handler' \in [Handlers -> Handler]
        /\ \A g \in Handlers : handler'[g].pc # "exchange"
        /\ \A g \in Handlers : handler'[g].pc = "grant" => g = h \/ handler'[g] = handler[g]
        /\ handler'[h].agent = a
    <3>1. handler'[h] = [pc |-> "grant", agent |-> a]
      BY <2>1, <2>2
    <3>2. \A g \in Handlers : g # h => handler'[g] = Outdated(handler)[g]
      BY <2>1, <2>2
    <3>3. handler' \in [Handlers -> Handler]
      BY <2>1, <2>2, <2>3
    <3> QED
      BY <2>2, <3>1, <3>2, <3>3
  <2>5. TypeOK'
    BY <1>2, <2>1, <2>4 DEF TypeOK, limiterVars, LimiterTypeOK
  <2>6. Granted'
    BY <2>1, <2>4 DEF Granted
  <2>7. Unoutdated'
    BY <2>4 DEF Unoutdated
  <2>8. SpentByCredential'
    <3>1. \A b \in agents : b.token \in Tokens
      BY DEF TypeOK, Agent
    <3> QED
      BY <1>1, <1>2, <2>1, <3>1 DEF SpentByCredential, TypeOK
  <2> QED
    BY <2>5, <2>6, <2>7, <2>8
<1>4. CASE handler[h].pc = "stale"
  <2>1. UNCHANGED <<limiterVars, token, agents, revoked, run, conf, faults>>
    BY <1>4 DEF Exchange
  <2>2. /\ handler' \in [Handlers -> Handler]
        /\ \A g \in Handlers : g # h => handler'[g] = handler[g]
        /\ handler'[h].pc = "refuse"
    BY <1>4, HandlerForms DEF Exchange, Goto, TypeOK
  <2>3. TypeOK'
    BY <2>1, <2>2 DEF TypeOK, limiterVars, LimiterTypeOK
  <2> QED
    BY <2>1, <2>2, <2>3 DEF Granted, Unoutdated, SpentByCredential
<1> QED
  BY <1>1, <1>3, <1>4

\* Another commit outdates one transaction.
LEMMA DisturbKeeps ==
  ASSUME IInv, NEW h \in Handlers, Disturb(h)
  PROVE  IInv'
<1> USE DEF IInv
<1>1. handler[h].pc = "exchange" /\ handler[h].token \in Tokens
      /\ handler[h] = [pc |-> "exchange", token |-> handler[h].token]
  BY HandlerFields DEF Disturb, TypeOK
<1>2. UNCHANGED <<limiterVars, token, agents, revoked, run, conf>> /\ faults' \in 0..Faults
  BY FaultCounted DEF Disturb, GoesWrong
<1>3. /\ handler' \in [Handlers -> Handler]
      /\ \A g \in Handlers : g # h => handler'[g] = handler[g]
      /\ handler'[h].pc = "stale"
  <2>1. [handler[h] EXCEPT !.pc = "stale"] = [pc |-> "stale", token |-> handler[h].token]
    BY <1>1
  <2>2. [pc |-> "stale", token |-> handler[h].token] \in Handler
    BY <1>1, HandlerForms
  <2> QED
    BY <2>1, <2>2 DEF Disturb, Goto, TypeOK
<1>4. TypeOK'
  BY <1>2, <1>3 DEF TypeOK, limiterVars, LimiterTypeOK
<1> QED
  BY <1>2, <1>3, <1>4 DEF Granted, Unoutdated, SpentByCredential

\* A credential that is answered is in the table.
LEMMA AnswerKeeps ==
  ASSUME IInv, NEW h \in Handlers, Answer(h)
  PROVE  IInv'
<1> USE DEF IInv
<1>1. UNCHANGED <<limiterVars, token, agents, revoked, conf, faults>>
  BY DEF Answer
<1>2. /\ handler' \in [Handlers -> Handler]
      /\ \A g \in Handlers : g # h => handler'[g] = handler[g]
      /\ handler'[h].pc = "idle"
  BY HandlerForms DEF Answer, Goto, TypeOK, Idle
<1>3. handler[h].pc = "grant" => handler[h].agent \in agents /\ handler[h].agent \in Agent
  BY DEF Granted, TypeOK
<1>4. ASSUME NEW m \in Machines
      PROVE  /\ run'[m] \in Run
             /\ run'[m].pc \in {"truncate", "write"} => run'[m].agent \in agents
  <2>1. CASE run[m].pc # "wait" \/ run[m].on # h
    BY <2>1 DEF Answer, Granted, TypeOK
  <2>2. CASE ~(run[m].pc # "wait" \/ run[m].on # h) /\ handler[h].pc = "refuse"
    BY <2>2, RunForms DEF Answer, Idle
  <2>3. CASE ~(run[m].pc # "wait" \/ run[m].on # h) /\ handler[h].pc = "grant"
    <3>1. run'[m] = [pc |-> "truncate", agent |-> handler[h].agent]
      BY <2>3 DEF Answer
    <3>2. [pc |-> "truncate", agent |-> handler[h].agent] \in Run
      BY <1>3, <2>3, RunForms
    <3> QED
      BY <1>3, <2>3, <3>1, <3>2
  <2> QED
    BY <2>1, <2>2, <2>3 DEF Answer
<1>5. run' \in [Machines -> Run]
  BY <1>4 DEF Answer
<1>6. TypeOK'
  BY <1>1, <1>2, <1>5 DEF TypeOK, limiterVars, LimiterTypeOK
<1>7. Granted'
  BY <1>1, <1>2, <1>4 DEF Granted
<1>8. Unoutdated'
  BY <1>1, <1>2 DEF Unoutdated
<1> QED
  BY <1>1, <1>6, <1>7, <1>8 DEF SpentByCredential

\* What the command does by itself.
LEMMA CommandKeeps ==
  ASSUME IInv, NEW m \in Machines, GiveUp(m) \/ Truncate(m) \/ Write(m) \/ FailToWrite(m)
  PROVE  IInv'
<1> USE DEF IInv
<1>1. UNCHANGED <<limiterVars, token, agents, revoked, handler>> /\ faults' \in 0..Faults
  <2>1. CASE GiveUp(m) \/ FailToWrite(m)
    BY <2>1, FaultCounted DEF GiveUp, FailToWrite, GoesWrong
  <2>2. CASE Truncate(m) \/ Write(m)
    BY <2>2 DEF Truncate, Write, TypeOK
  <2> QED
    BY <2>1, <2>2
<1>2. /\ run' \in [Machines -> Run]
      /\ \A n \in Machines : run'[n].pc \in {"truncate", "write"} =>
            run'[n].agent = run[n].agent /\ run[n].pc \in {"truncate", "write"}
  <2>1. CASE GiveUp(m) \/ FailToWrite(m) \/ Write(m)
    BY <2>1, RunForms DEF GiveUp, FailToWrite, Write, Idle, TypeOK
  <2>2. CASE Truncate(m)
    <3>1. run[m] = [pc |-> "truncate", agent |-> run[m].agent] /\ run[m].agent \in Agent
      BY <2>2, RunFields DEF Truncate, TypeOK
    <3>2. /\ run'[m] = [pc |-> "write", agent |-> run[m].agent]
          /\ \A n \in Machines : n # m => run'[n] = run[n]
          /\ run' = [run EXCEPT ![m] = run'[m]]
      <4>1. [run[m] EXCEPT !.pc = "write"] = [pc |-> "write", agent |-> run[m].agent]
        BY <3>1
      <4> QED
        BY <2>2, <4>1 DEF Truncate, TypeOK
    <3>3. [pc |-> "write", agent |-> run[m].agent] \in Run
      BY <3>1, RunForms
    <3>4. run' \in [Machines -> Run]
      BY <3>2, <3>3 DEF TypeOK
    <3>5. run[m].pc = "truncate" /\ run'[m].agent = run[m].agent
      BY <2>2, <3>2 DEF Truncate
    <3> QED
      BY <3>2, <3>4, <3>5
  <2> QED
    BY <2>1, <2>2
<1>3. conf' \in [Machines -> {Absent, Empty} \cup agents]
  <2>1. CASE Write(m)
    BY <2>1 DEF Write, Granted, TypeOK
  <2>2. CASE ~Write(m)
    BY <2>2 DEF GiveUp, Truncate, FailToWrite, TypeOK
  <2> QED
    BY <2>1, <2>2
<1>4. TypeOK'
  BY <1>1, <1>2, <1>3 DEF TypeOK, limiterVars, LimiterTypeOK
<1>5. Granted'
  BY <1>1, <1>2 DEF Granted
<1> QED
  BY <1>1, <1>4, <1>5 DEF Unoutdated, SpentByCredential

\* A crash leaves the tables and the files.
LEMMA CrashKeeps ==
  ASSUME IInv, Crash
  PROVE  IInv'
<1> USE DEF IInv
<1> DEFINE cut == Cardinality({m \in Machines : run[m].pc = "wait"})
<1>1. cut \in Nat
  BY EnrolmentAssumption, FS_Subset, FS_CardinalityType
<1>2. faults' \in 0..Faults
  <2>1. GoWrong(IF cut = 0 THEN 1 ELSE cut)
    BY DEF Crash
  <2> HIDE DEF cut
  <2> QED
    BY <1>1, <2>1, FaultCounted
<1>3. LimiterTypeOK'
  BY RestartFills DEF Crash
<1>4. UNCHANGED <<token, agents, revoked, conf>>
  BY DEF Crash
<1>5. handler' \in [Handlers -> Handler] /\ \A h \in Handlers : handler'[h].pc = "idle"
  BY HandlerForms DEF Crash, Idle
<1>6. /\ run' \in [Machines -> Run]
      /\ \A m \in Machines : run'[m].pc \in {"truncate", "write"} => run'[m] = run[m]
  BY RunForms DEF Crash, Idle, TypeOK
<1>7. TypeOK'
  BY <1>2, <1>3, <1>4, <1>5, <1>6 DEF TypeOK
<1>8. Granted'
  BY <1>4, <1>5, <1>6 DEF Granted
<1> QED
  BY <1>4, <1>5, <1>7, <1>8 DEF Unoutdated, SpentByCredential

\* Time only touches the limiter.
LEMMA TickKeeps ==
  ASSUME IInv, Tick
  PROVE  IInv'
<1>1. LimiterTypeOK'
  BY TickRefills DEF IInv, TypeOK, Tick
<1> QED
  BY <1>1 DEF IInv, TypeOK, Tick, enrolmentVars, Granted, Unoutdated, SpentByCredential

\* The invariant holds at the start.
LEMMA InitHolds == Init => IInv
<1> SUFFICES ASSUME Init PROVE IInv
  OBVIOUS
<1>1. LimiterTypeOK
  BY LimiterAssumption DEF Init, LimiterInit, LimiterTypeOK
<1>2. TypeOK
  BY <1>1, HandlerForms, RunForms, EnrolmentAssumption DEF Init, TypeOK
<1> QED
  BY <1>2 DEF Init, IInv, Granted, Unoutdated, SpentByCredential, Idle

\* It is inductive.
LEMMA NextKeeps == IInv /\ [Next]_vars => IInv'
<1> SUFFICES ASSUME IInv, [Next]_vars PROVE IInv'
  OBVIOUS
<1>1. ASSUME NEW k \in Tokens, Mint(k) \/ Expire(k) PROVE IInv'
  BY <1>1, MintKeeps, ExpireKeeps
<1>2. ASSUME NEW a \in agents, RevokeAgent(a) PROVE IInv'
  BY <1>2, RevokeKeeps
<1>3. ASSUME NEW m \in Machines, NEW k \in Tokens, NEW h \in Handlers, NEW c \in Clients,
             StartJoin(m, k, h, c)
      PROVE IInv'
  BY <1>3, StartKeeps
<1>4. ASSUME NEW h \in Handlers, Begin(h) \/ Exchange(h) \/ Disturb(h) \/ Answer(h) PROVE IInv'
  BY <1>4, BeginKeeps, ExchangeKeeps, DisturbKeeps, AnswerKeeps
<1>5. ASSUME NEW m \in Machines, GiveUp(m) \/ Truncate(m) \/ Write(m) \/ FailToWrite(m) PROVE IInv'
  BY <1>5, CommandKeeps
<1>6. CASE Crash \/ Tick
  BY <1>6, CrashKeeps, TickKeeps
<1>7. CASE UNCHANGED vars
  BY <1>7 DEF vars, limiterVars, enrolmentVars, IInv, TypeOK, LimiterTypeOK, Granted, Unoutdated,
              SpentByCredential
<1> QED
  BY <1>1, <1>2, <1>3, <1>4, <1>5, <1>6, <1>7 DEF Next

\* Credentials under way, transactions and invitations always agree with the
\* tables: a transaction that may still commit finds its invitation unspent, and
\* nobody holds a credential for an invitation that is.
THEOREM Consistent == Spec => []IInv
BY InitHolds, NextKeeps, PTL DEF Spec

\* Every variable keeps its type.
THEOREM TypeCorrect == Spec => []TypeOK
BY Consistent, PTL DEF IInv

-----------------------------------------------------------------------------
(* Refinement.                                                             *)

Fresh == {k \in Tokens : token[k] = "unused"}
Unspent == {k \in Tokens : token[k] \in {"open", "expired"}}
Admitted == [k \in Tokens |-> {a \in agents : a.token = k}]

\* Only minting and exchanging change what Admission sees.
LEMMA StepAdmits == IInv /\ [Next]_vars => [Admits!Next]_(Admits!vars)
<1> SUFFICES ASSUME IInv, [Next]_vars PROVE [Admits!Next]_(Admits!vars)
  OBVIOUS
<1>1. TypeOK
  BY DEF IInv
<1>2. ASSUME UNCHANGED <<token, agents>>
      PROVE  UNCHANGED Admits!vars
  BY <1>2 DEF Admits!vars
<1>3. ASSUME NEW k \in Tokens, Mint(k)
      PROVE  Admits!Next
  <2>1. token[k] = "unused" /\ token' = [token EXCEPT ![k] = "open"] /\ agents' = agents
    BY <1>3 DEF Mint
  <2>2. k \in Fresh /\ Fresh' = Fresh \ {k} /\ Unspent' = Unspent \cup {k} /\ Admitted' = Admitted
    BY <1>1, <2>1 DEF Fresh, Unspent, Admitted, TypeOK
  <2> QED
    BY <2>2 DEF Admits!Next, Admits!Invite, Fresh, Unspent, Admitted
<1>4. ASSUME NEW k \in Tokens, Expire(k)
      PROVE  UNCHANGED Admits!vars
  <2>1. token[k] = "open" /\ token' = [token EXCEPT ![k] = "expired"] /\ agents' = agents
    BY <1>4 DEF Expire
  <2>2. Fresh' = Fresh /\ Unspent' = Unspent /\ Admitted' = Admitted
    BY <1>1, <2>1 DEF Fresh, Unspent, Admitted, TypeOK
  <2> QED
    BY <2>2 DEF Admits!vars, Fresh, Unspent, Admitted
<1>5. ASSUME NEW h \in Handlers, Exchange(h), handler[h].pc = "exchange"
      PROVE  Admits!Next
  <2> DEFINE k == handler[h].token
             a == [token |-> k, by |-> h]
  <2>1. k \in Tokens
    BY <1>1, <1>5, HandlerFields DEF TypeOK
  <2>2. a \in Agent /\ a.token = k
    BY <2>1 DEF Agent
  <2>3. token' = [token EXCEPT ![k] = "spent"] /\ agents' = agents \cup {a}
    BY <1>5 DEF Exchange
  <2>4. token[k] \in {"open", "expired"}
    BY <1>5 DEF IInv, Unoutdated
  <2> HIDE DEF k, a
  <2>5. \A b \in agents : b.token # k
    BY <2>4 DEF IInv, SpentByCredential
  <2>6. k \in Unspent /\ Unspent' = Unspent \ {k} /\ Fresh' = Fresh
    BY <1>1, <2>1, <2>3, <2>4 DEF Fresh, Unspent, TypeOK
  <2>7. Admitted' = [Admitted EXCEPT ![k] = {a}]
    <3>1. ASSUME NEW j \in Tokens
          PROVE  {b \in agents' : b.token = j} = IF j = k THEN {a} ELSE {b \in agents : b.token = j}
      BY <2>2, <2>3, <2>5
    <3> QED
      BY <2>1, <3>1 DEF Admitted
  <2> QED
    BY <2>1, <2>2, <2>6, <2>7 DEF Admits!Next, Admits!Admit, Fresh, Unspent, Admitted
<1>6. ASSUME NEW h \in Handlers, Begin(h) \/ (Exchange(h) /\ handler[h].pc = "stale") \/ Disturb(h) \/ Answer(h)
      PROVE  UNCHANGED <<token, agents>>
  BY <1>6 DEF Begin, Exchange, Disturb, Answer
<1>7. ASSUME NEW a \in agents, RevokeAgent(a)
      PROVE  UNCHANGED <<token, agents>>
  BY <1>7 DEF RevokeAgent
<1>8. ASSUME NEW m \in Machines, NEW k \in Tokens, NEW h \in Handlers, NEW c \in Clients,
             StartJoin(m, k, h, c)
      PROVE  UNCHANGED <<token, agents>>
  BY <1>8 DEF StartJoin
<1>9. ASSUME NEW m \in Machines, GiveUp(m) \/ Truncate(m) \/ Write(m) \/ FailToWrite(m)
      PROVE  UNCHANGED <<token, agents>>
  BY <1>9 DEF GiveUp, Truncate, Write, FailToWrite
<1>10. CASE Crash \/ Tick \/ UNCHANGED vars
  <2>1. UNCHANGED <<token, agents>>
    BY <1>10 DEF Crash, Tick, vars, enrolmentVars
  <2> QED
    BY <1>2, <2>1
<1>11. ASSUME NEW h \in Handlers, Exchange(h)
       PROVE  handler[h].pc = "exchange" \/ handler[h].pc = "stale"
  BY <1>11 DEF Exchange
<1> QED
  BY <1>2, <1>3, <1>4, <1>5, <1>6, <1>7, <1>8, <1>9, <1>10, <1>11 DEF Next

\* RedeemJoinToken is atomic: for any number of machines, invitations, requests at
\* once and faults, an invitation admits one credential, by the act that spends it.
THEOREM ExchangeAtomic == Spec => ImplementsAdmission
<1>1. Init => Admits!Init
  <2> SUFFICES ASSUME Init PROVE Fresh = Tokens /\ Unspent = {} /\ Admitted = [k \in Tokens |-> {}]
    BY DEF Admits!Init, Fresh, Unspent, Admitted
  <2> QED
    BY DEF Init, Fresh, Unspent, Admitted
<1> QED
  BY <1>1, StepAdmits, Consistent, PTL DEF Spec, ImplementsAdmission, Admits!Spec

Served == {h \in Handlers : handler[h] # Idle}

\* A request let in takes a token, an answer frees its handler, a tick refills.
LEMMA StepLimits == IInv /\ [Next]_vars => [Limits!Next]_(Limits!vars)
<1> SUFFICES ASSUME IInv, [Next]_vars PROVE [Limits!Next]_(Limits!vars)
  OBVIOUS
<1>1. TypeOK /\ LimiterTypeOK /\ handler \in [Handlers -> Handler]
  BY DEF IInv, TypeOK
<1>2. ASSUME Levels' = Levels, Quiets' = Quiets, Served' = Served
      PROVE  UNCHANGED Limits!vars
  BY <1>2 DEF Limits!vars, Levels, Quiets, Served
<1>3. UNCHANGED limiterVars => Levels' = Levels /\ Quiets' = Quiets
  BY DEF limiterVars, Levels, Level, Quiets, Quiet, IdleFullAfter, Full
<1>4. Served = {h \in Handlers : handler[h].pc # "idle"}
  BY <1>1, HandlerFields DEF Served, Idle
<1>5. Served' = {h \in Handlers : handler'[h].pc # "idle"}
  BY NextKeeps, HandlerFields DEF IInv, TypeOK, Served, Idle
<1>6. ASSUME NEW m \in Machines, NEW k \in Tokens, NEW h \in Handlers, NEW c \in Clients,
             StartJoin(m, k, h, c)
      PROVE  [Limits!Next]_(Limits!vars)
  <2>1. Limits!Enough = IdleFullAfter + 1
    BY FullTimes DEF Limits!Enough
  <2>2. Swept \in SUBSET Limits!Forgettable
    BY <1>1, <2>1, SweptQuiet DEF Limits!Forgettable
  <2>3. Limits!Forgetting(Swept) = [n \in Clients |-> Held(n)]
    BY <1>1, SweptQuiet DEF Limits!Forgetting
  <2>4. CASE Allow(c, FALSE) /\ UNCHANGED <<run, handler>>
    <3>1. /\ ~(Held(c) >= PerToken) /\ Quiets' = [Quiets EXCEPT ![c] = 0]
          /\ Levels' = [n \in Clients |-> Held(n)]
      BY <1>1, <2>4, AllowTakes
    <3>2. Limits!Forgetting(Swept)[c] < PerToken
      BY <1>1, <2>3, <3>1, HeldRange, FullTimes
    <3>3. Levels' = Limits!Forgetting(Swept)
      BY <2>3, <3>1
    <3>4. Served' = Served
      BY <2>4 DEF Served
    <3>5. Limits!Refuse(c)
      BY <2>2, <3>1, <3>2, <3>3, <3>4 DEF Limits!Refuse, Levels, Quiets, Served
    <3> QED
      BY <3>5 DEF Limits!Next
  <2>5. CASE Allow(c, TRUE) /\ Goto(h, [pc |-> "begin", token |-> k])
    <3>1. /\ Held(c) >= PerToken /\ Quiets' = [Quiets EXCEPT ![c] = 0]
          /\ Levels' = [n \in Clients |-> IF n = c THEN Held(c) - PerToken ELSE Held(n)]
      BY <1>1, <2>5, AllowTakes
    <3>2. Limits!Forgetting(Swept)[c] >= PerToken
      BY <2>3, <3>1
    <3>3. Levels' = [Limits!Forgetting(Swept) EXCEPT ![c] = @ - PerToken]
      BY <2>3, <3>1
    <3>4. h \notin Served
      BY <1>6 DEF StartJoin, Served
    <3>5. handler' = [handler EXCEPT ![h] = [pc |-> "begin", token |-> k]]
      BY <2>5 DEF Goto
    <3>6. Served' = Served \cup {h}
      BY <1>1, <1>4, <1>5, <3>5
    <3>7. Limits!Serve(c, h)
      BY <2>2, <3>1, <3>2, <3>3, <3>4, <3>6 DEF Limits!Serve, Levels, Quiets, Served
    <3> QED
      BY <3>7 DEF Limits!Next
  <2> QED
    BY <1>6, <2>4, <2>5 DEF StartJoin
<1>7. ASSUME NEW h \in Handlers, Answer(h)
      PROVE  [Limits!Next]_(Limits!vars)
  <2>1. handler[h].pc # "idle" /\ handler' = [handler EXCEPT ![h] = Idle] /\ UNCHANGED limiterVars
    BY <1>7 DEF Answer, Goto, Idle
  <2>2. h \in Served /\ Served' = Served \ {h}
    BY <1>1, <1>4, <1>5, <2>1 DEF Idle
  <2>3. Limits!Finish(h)
    BY <1>3, <2>1, <2>2 DEF Limits!Finish, Levels, Quiets, Served
  <2> QED
    BY <2>3 DEF Limits!Next
<1>8. CASE Tick
  <2>1. /\ Levels' = [c \in Clients |-> IF Levels[c] < Full THEN Levels[c] + 1 ELSE Levels[c]]
        /\ Quiets' = [c \in Clients |->
             IF Quiets[c] < IdleFullAfter + 1 THEN Quiets[c] + 1 ELSE Quiets[c]]
    BY <1>1, <1>8, TickRefills DEF Tick
  <2>2. Served' = Served
    BY <1>8 DEF Tick, enrolmentVars, Served
  <2>3. Limits!Enough = IdleFullAfter + 1
    BY FullTimes DEF Limits!Enough
  <2>4. Limits!Refill
    BY <2>1, <2>2, <2>3 DEF Limits!Refill, Levels, Quiets, Served
  <2> QED
    BY <2>4 DEF Limits!Next
<1>9. CASE Crash
  <2>1. Levels' = [c \in Clients |-> Full] /\ Quiets' = [c \in Clients |-> IdleFullAfter + 1]
    BY <1>9, RestartFills DEF Crash
  <2>2. Served' = {}
    BY <1>9 DEF Crash, Served
  <2>3. Limits!Enough = IdleFullAfter + 1
    BY FullTimes DEF Limits!Enough
  <2>4. Limits!Restart
    BY <2>1, <2>2, <2>3 DEF Limits!Restart, Levels, Quiets, Served
  <2> QED
    BY <2>4 DEF Limits!Next
<1>10. ASSUME UNCHANGED limiterVars, UNCHANGED handler
       PROVE  UNCHANGED Limits!vars
  BY <1>2, <1>3, <1>10 DEF Served
<1>11. ASSUME NEW m \in Machines, GiveUp(m) \/ Truncate(m) \/ Write(m) \/ FailToWrite(m)
       PROVE  UNCHANGED limiterVars /\ UNCHANGED handler
  BY <1>11 DEF GiveUp, Truncate, Write, FailToWrite
<1>12. ASSUME NEW k \in Tokens, Expire(k)
       PROVE  UNCHANGED limiterVars /\ UNCHANGED handler
  BY <1>12 DEF Expire
<1>13. ASSUME UNCHANGED limiterVars, handler' = Outdated(handler)
       PROVE  UNCHANGED Limits!vars
  <2>1. \A h \in Handlers : handler'[h] # Idle <=> handler[h] # Idle
    BY <1>13 DEF Outdated, Idle
  <2> QED
    BY <1>2, <1>3, <1>13, <2>1 DEF Served
<1>14. ASSUME NEW h \in Handlers, NEW f \in {handler, Outdated(handler)}, NEW x,
              x.pc # "idle", handler[h].pc # "idle",
              handler' = [f EXCEPT ![h] = x], UNCHANGED limiterVars
       PROVE  UNCHANGED Limits!vars
  <2>1. f \in [Handlers -> Handler] /\ \A g \in Handlers : f[g].pc = "idle" <=> handler[g].pc = "idle"
    <3>1. CASE f = handler
      BY <1>1, <3>1
    <3>2. CASE f = Outdated(handler)
      <4>1. \A g \in Handlers : handler[g].pc = "exchange" => f[g].pc = "stale"
        <5>1. \A g \in Handlers : handler[g].pc = "exchange" =>
                handler[g] = [pc |-> "exchange", token |-> handler[g].token]
          BY <1>1, HandlerFields
        <5>2. \A g \in Handlers : handler[g].pc = "exchange" => f[g] = [handler[g] EXCEPT !.pc = "stale"]
          BY <3>2 DEF Outdated
        <5> QED
          BY <5>1, <5>2
      <4>2. \A g \in Handlers : handler[g].pc # "exchange" => f[g] = handler[g]
        BY <3>2 DEF Outdated
      <4>3. f \in [Handlers -> Handler]
        BY <1>1, <3>2, OutdatedHandlers
      <4> QED
        BY <4>1, <4>2, <4>3
    <3> QED
      BY <3>1, <3>2
  <2>2. Served' = Served
    BY <1>4, <1>5, <1>14, <2>1
  <2> QED
    BY <1>2, <1>3, <1>14, <2>2
<1>15. ASSUME NEW h \in Handlers, Begin(h)
       PROVE  UNCHANGED Limits!vars
  <2> DEFINE x == IF token[handler[h].token] = "open"
                  THEN [handler[h] EXCEPT !.pc = "exchange"] ELSE [pc |-> "refuse"]
  <2>1. handler' = [handler EXCEPT ![h] = x] /\ handler[h].pc = "begin" /\ UNCHANGED limiterVars
    BY <1>15 DEF Begin, Goto
  <2>2. handler[h] = [pc |-> "begin", token |-> handler[h].token]
    BY <1>1, <2>1, HandlerFields
  <2>3. x.pc # "idle"
    BY <2>2
  <2> HIDE DEF x
  <2> QED
    BY <1>14, <2>1, <2>3
<1>16. ASSUME NEW h \in Handlers, Exchange(h)
       PROVE  UNCHANGED Limits!vars
  <2> DEFINE x == [pc |-> "grant", agent |-> [token |-> handler[h].token, by |-> h]]
             y == [pc |-> "refuse"]
  <2>1. /\ handler[h].pc # "idle" /\ UNCHANGED limiterVars
        /\ handler' = [Outdated(handler) EXCEPT ![h] = x] \/ handler' = [handler EXCEPT ![h] = y]
    BY <1>16 DEF Exchange, Goto
  <2>2. x.pc # "idle" /\ y.pc # "idle"
    OBVIOUS
  <2> HIDE DEF x, y
  <2> QED
    BY <1>14, <2>1, <2>2
<1>17. ASSUME NEW h \in Handlers, Disturb(h)
       PROVE  UNCHANGED Limits!vars
  <2> DEFINE x == [handler[h] EXCEPT !.pc = "stale"]
  <2>1. handler' = [handler EXCEPT ![h] = x] /\ handler[h].pc = "exchange" /\ UNCHANGED limiterVars
    BY <1>17 DEF Disturb, Goto
  <2>2. handler[h] = [pc |-> "exchange", token |-> handler[h].token]
    BY <1>1, <2>1, HandlerFields
  <2>3. x.pc # "idle"
    BY <2>2
  <2> HIDE DEF x
  <2> QED
    BY <1>14, <2>1, <2>3
<1>18. ASSUME NEW k \in Tokens, Mint(k)
       PROVE  UNCHANGED Limits!vars
  BY <1>13, <1>18 DEF Mint
<1>19. ASSUME NEW a \in agents, RevokeAgent(a)
       PROVE  UNCHANGED Limits!vars
  BY <1>13, <1>19 DEF RevokeAgent
<1>20. CASE UNCHANGED vars
  BY <1>10, <1>20 DEF vars, enrolmentVars
<1> QED
  BY <1>6, <1>7, <1>8, <1>9, <1>10, <1>11, <1>12, <1>15, <1>16, <1>17, <1>18, <1>19, <1>20 DEF Next

\* The sweep gives little away: for any burst, rate and sweep, the limiter that drops
\* idle buckets lets in what one that keeps every bucket would, but for less than a
\* second's refill to a client that has asked for nothing for the whole seconds that
\* fill a bucket; nothing at all, if Second divides the time that fills it.
THEOREM SweepForgivesLittle == Spec => ImplementsTokenBucket
<1>1. Init => Limits!Init
  <2> SUFFICES ASSUME Init
               PROVE  /\ Levels = [c \in Clients |-> Full]
                      /\ Quiets = [c \in Clients |-> Limits!Enough]
                      /\ Served = {}
    BY DEF Limits!Init, Levels, Quiets, Served
  <2>1. buckets = [c \in {} |-> 0] /\ DOMAIN buckets = {}
    BY DEF Init, LimiterInit
  <2>2. Limits!Enough = IdleFullAfter + 1
    BY FullTimes DEF Limits!Enough
  <2> QED
    BY <2>1, <2>2 DEF Init, Levels, Level, Quiets, Quiet, Served
<1> QED
  BY <1>1, StepLimits, Consistent, PTL DEF Spec, ImplementsTokenBucket, Limits!Spec

-----------------------------------------------------------------------------
(* Credentials that nobody holds.                                          *)

\* Somebody waits for the answer of h.
Awaited(h) == \E m \in Machines : run[m].pc = "wait" /\ run[m].on = h

\* Machine m has credential a, or is about to write it; h is about to deliver it.
Holds(m, a) == conf[m] = a \/ (run[m].pc \in {"truncate", "write"} /\ run[m].agent = a)
Coming(h, a) == handler[h].pc = "grant" /\ handler[h].agent = a /\ Awaited(h)

\* Join requests that may still be granted to nobody.
Orphans == {h \in Handlers : handler[h].pc \in {"begin", "exchange"} /\ ~Awaited(h)}

\* Machines that join again though they are enrolled: the credential they hold goes when
\* their file is truncated.
Doomed == {m \in Machines : run[m].pc # "idle" /\ Enrolled(m)}

\* What has been lost and what is bound to be is paid for by faults.
Blame == Cardinality(Lost) + Cardinality(Orphans) + Cardinality(Doomed) <= faults

\* Lost, in these words.
LEMMA LostIs ==
  Lost = {a \in agents \ revoked : (\A m \in Machines : ~Holds(m, a)) /\ \A h \in Handlers : ~Coming(h, a)}
BY DEF Lost, Holds, Coming, Awaited

\* How a credential gets lost: it is new, a machine lets go of it, or its delivery fails.
LEMMA GetsLost ==
  ASSUME NEW a \in Lost', a \notin Lost
  PROVE  /\ a \in (agents \ revoked)'
         /\ \/ a \notin agents \ revoked
            \/ \E m \in Machines : Holds(m, a) /\ ~Holds(m, a)'
            \/ \E h \in Handlers : Coming(h, a) /\ ~Coming(h, a)'
<1>1. /\ a \in (agents \ revoked)' 
      /\ \A m \in Machines : ~Holds(m, a)'
      /\ \A h \in Handlers : ~Coming(h, a)'
  BY DEF Lost, Holds, Coming, Awaited
<1>2. \/ a \notin agents \ revoked
      \/ \E m \in Machines : Holds(m, a)
      \/ \E h \in Handlers : Coming(h, a)
  BY LostIs
<1> QED
  BY <1>1, <1>2

\* The values of a function on a finite set.
LEMMA ImageFinite ==
  ASSUME NEW S, IsFiniteSet(S), NEW f, DOMAIN f = S
  PROVE  LET T == {f[x] : x \in S}
         IN  IsFiniteSet(T) /\ Cardinality(T) <= Cardinality(S)
<1> DEFINE T == {f[x] : x \in S}
           g == [x \in S |-> f[x]]
<1>1. g \in [S -> T]
  OBVIOUS
<1>2. \A t \in T : \E x \in S : g[x] = t
  OBVIOUS
<1>3. g \in Surjection(S, T)
  BY <1>1, <1>2 DEF Surjection
<1> HIDE DEF T, g
<1>4. IsFiniteSet(T) /\ Cardinality(T) <= Cardinality(S)
  BY <1>3, FS_Surjection
<1> QED
  BY <1>4 DEF T

\* There are finitely many of all these.
Counted ==
  /\ IsFiniteSet(Lost) /\ Cardinality(Lost) \in Nat
  /\ IsFiniteSet(Orphans) /\ Cardinality(Orphans) \in Nat
  /\ IsFiniteSet(Doomed) /\ Cardinality(Doomed) \in Nat
  /\ faults \in Nat

\* So much the types say.
LEMMA Countable == TypeOK => Counted
<1> SUFFICES ASSUME TypeOK PROVE Counted
  OBVIOUS
<1>1. IsFiniteSet(Handlers) /\ IsFiniteSet(Tokens)
  BY EnrolmentAssumption, FS_Interval DEF Handlers, Tokens
<1>2. IsFiniteSet(Tokens \X Handlers)
  BY <1>1, FS_Product
<1> DEFINE r == [p \in Tokens \X Handlers |-> [token |-> p[1], by |-> p[2]]]
<1>3. \A a \in Agent : \E p \in Tokens \X Handlers : r[p] = a
  <2> SUFFICES ASSUME NEW a \in Agent PROVE \E p \in Tokens \X Handlers : r[p] = a
    OBVIOUS
  <2>1. a = [token |-> a.token, by |-> a.by] /\ <<a.token, a.by>> \in Tokens \X Handlers
    BY DEF Agent
  <2>2. r[<<a.token, a.by>>] = a
    BY <2>1
  <2> QED
    BY <2>1, <2>2
<1>4. DOMAIN r = Tokens \X Handlers
  OBVIOUS
<1> HIDE DEF r
<1>5. IsFiniteSet({r[p] : p \in Tokens \X Handlers})
  BY <1>2, <1>4, ImageFinite
<1>6. Agent \subseteq {r[p] : p \in Tokens \X Handlers}
  BY <1>3
<1>7. IsFiniteSet(Agent)
  BY <1>5, <1>6, FS_Subset
<1>8. Lost \subseteq Agent
  BY DEF Lost, TypeOK
<1>9. IsFiniteSet(Lost) /\ IsFiniteSet(Orphans) /\ IsFiniteSet(Doomed)
  BY <1>1, <1>7, <1>8, EnrolmentAssumption, FS_Subset DEF Orphans, Doomed
<1> QED
  BY <1>9, FS_CardinalityType, EnrolmentAssumption DEF TypeOK, Counted

\* Counting when a set has one element more at most, or one less.
LEMMA OneMore ==
  ASSUME NEW S, IsFiniteSet(S), NEW x, NEW T, T \subseteq S \cup {x}
  PROVE  Cardinality(T) <= Cardinality(S) + 1
<1>1. IsFiniteSet(S \cup {x}) /\ Cardinality(S \cup {x}) <= Cardinality(S) + 1
  <2>1. Cardinality(S) \in Nat
    BY FS_CardinalityType
  <2>2. CASE x \in S
    <3>1. S \cup {x} = S
      BY <2>2
    <3> QED
      BY <2>1, <3>1
  <2>3. CASE x \notin S
    <3>1. IsFiniteSet(S \cup {x}) /\ Cardinality(S \cup {x}) = Cardinality(S) + 1
      BY <2>3, FS_AddElement
    <3> QED
      BY <2>1, <3>1
  <2> QED
    BY <2>2, <2>3
<1>2. Cardinality(T) <= Cardinality(S \cup {x}) /\ IsFiniteSet(T)
  BY <1>1, FS_Subset
<1>3. Cardinality(T) \in Nat /\ Cardinality(S) \in Nat /\ Cardinality(S \cup {x}) \in Nat
  BY <1>1, <1>2, FS_CardinalityType
<1> QED
  BY <1>1, <1>2, <1>3

\* A set that loses an element.
LEMMA OneFewer ==
  ASSUME NEW S, IsFiniteSet(S), NEW x \in S, NEW T, T \subseteq S \ {x}
  PROVE  Cardinality(T) <= Cardinality(S) - 1
<1>1. IsFiniteSet(S \ {x}) /\ Cardinality(S \ {x}) = Cardinality(S) - 1
  BY FS_RemoveElement
<1> QED
  BY <1>1, FS_Subset

\* And so they say of the next state.
LEMMA CountableNext == TypeOK' => Counted'
BY Countable, PTL

\* A step that adds nothing.
LEMMA NothingLost ==
  ASSUME TypeOK, TypeOK', Blame,
         Lost' \subseteq Lost, Orphans' \subseteq Orphans, Doomed' \subseteq Doomed, faults' >= faults
  PROVE  Blame'
<1>1. /\ Cardinality(Lost') <= Cardinality(Lost)
      /\ Cardinality(Orphans') <= Cardinality(Orphans)
      /\ Cardinality(Doomed') <= Cardinality(Doomed)
  BY Countable, FS_Subset DEF Counted
<1> QED
  BY <1>1, Countable, CountableNext DEF Counted, Blame

\* A commit under a request that has read its invitation spoils it.
LEMMA OutdatedOthers ==
  ASSUME NEW f \in [Handlers -> Handler], NEW h \in Handlers
  PROVE  /\ f[h].pc # "exchange" => Outdated(f)[h] = f[h]
         /\ f[h].pc = "exchange" => Outdated(f)[h].pc = "stale"
         /\ Outdated(f)[h].pc \in {"begin", "grant"} => Outdated(f)[h] = f[h]
<1>1. CASE f[h].pc = "exchange"
  <2>1. f[h] = [pc |-> "exchange", token |-> f[h].token]
    BY <1>1, HandlerFields
  <2>2. Outdated(f)[h] = [f[h] EXCEPT !.pc = "stale"]
    BY <1>1 DEF Outdated
  <2>3. Outdated(f)[h].pc = "stale"
    BY <2>1, <2>2
  <2> QED
    BY <1>1, <2>3
<1>2. CASE f[h].pc # "exchange"
  BY <1>2 DEF Outdated
<1> QED
  BY <1>1, <1>2

\* Minting, revoking and expiry take nothing from anybody.
LEMMA OperatorBlame ==
  ASSUME TypeOK, TypeOK', Blame, UNCHANGED <<run, conf, agents>>, revoked \subseteq revoked',
         handler' \in {handler, Outdated(handler)}, faults' >= faults
  PROVE  Blame'
<1>1. handler \in [Handlers -> Handler]
  BY DEF TypeOK
<1>2. ASSUME NEW h \in Handlers
      PROVE  /\ handler[h].pc = "grant" => handler'[h] = handler[h]
             /\ handler'[h].pc \in {"begin", "exchange"} => handler'[h] = handler[h]
  BY <1>1, OutdatedOthers, OutdatedHandlers
<1>3. \A h \in Handlers : Awaited(h)' = Awaited(h)
  BY DEF Awaited
<1>4. Lost' \subseteq Lost
  <2> SUFFICES ASSUME NEW a \in Lost', a \notin Lost PROVE FALSE
    OBVIOUS
  <2>1. \A m \in Machines : Holds(m, a) => Holds(m, a)'
    BY DEF Holds
  <2>2. \A h \in Handlers : Coming(h, a) => Coming(h, a)'
    BY <1>2, <1>3 DEF Coming
  <2> QED
    BY <2>1, <2>2, GetsLost
<1>5. Orphans' \subseteq Orphans
  BY <1>2, <1>3 DEF Orphans
<1>6. Doomed' \subseteq Doomed
  BY DEF Doomed, Enrolled
<1> QED
  BY <1>4, <1>5, <1>6, NothingLost

\* Joining again is what costs a machine that is enrolled its credential.
LEMMA StartBlame ==
  ASSUME IInv, TypeOK', Blame, NEW m \in Machines, NEW k \in Tokens, NEW h \in Handlers,
         NEW c \in Clients, StartJoin(m, k, h, c)
  PROVE  Blame'
<1>1. /\ UNCHANGED <<agents, revoked, conf>> /\ handler[h] = Idle /\ run[m] = Idle
      /\ TypeOK /\ faults \in Nat /\ run \in [Machines -> Run] /\ handler \in [Handlers -> Handler]
  BY Countable DEF StartJoin, IInv, TypeOK, Counted
<1>2. faults' = IF Enrolled(m) THEN faults + 1 ELSE faults
  BY DEF StartJoin, GoesWrong, GoWrong
<1>3. CASE UNCHANGED <<run, handler>>
  <2>1. Lost' = Lost /\ Orphans' = Orphans /\ Doomed' = Doomed
    BY <1>1, <1>3 DEF Lost, Orphans, Awaited, Doomed, Enrolled
  <2>2. faults' >= faults
    BY <1>1, <1>2
  <2> QED
    BY <1>1, <2>1, <2>2, NothingLost
<1>4. CASE run' = [run EXCEPT ![m] = [pc |-> "wait", on |-> h]] /\ Goto(h, [pc |-> "begin", token |-> k])
  <2>1. /\ \A n \in Machines : n # m => run'[n] = run[n]
        /\ run'[m].pc = "wait" /\ run'[m].on = h /\ run[m].pc = "idle"
        /\ \A g \in Handlers : g # h => handler'[g] = handler[g]
        /\ handler'[h].pc = "begin" /\ handler[h].pc = "idle"
    BY <1>1, <1>4 DEF Goto, Idle
  <2>2. Awaited(h)' /\ \A g \in Handlers : Awaited(g) => Awaited(g)'
    BY <2>1 DEF Awaited
  <2>3. Lost' \subseteq Lost
    <3> SUFFICES ASSUME NEW a \in Lost', a \notin Lost PROVE FALSE
      OBVIOUS
    <3>1. \A n \in Machines : Holds(n, a) => Holds(n, a)'
      BY <1>1, <2>1 DEF Holds
    <3>2. \A g \in Handlers : Coming(g, a) => Coming(g, a)'
      BY <2>1, <2>2 DEF Coming
    <3> QED
      BY <1>1, <3>1, <3>2, GetsLost
  <2>4. Orphans' \subseteq Orphans
    BY <2>1, <2>2 DEF Orphans
  <2>5. Doomed' \subseteq Doomed \cup {m} /\ (~Enrolled(m) => Doomed' \subseteq Doomed)
    BY <1>1, <2>1 DEF Doomed, Enrolled
  <2>6. /\ Cardinality(Lost') <= Cardinality(Lost)
        /\ Cardinality(Orphans') <= Cardinality(Orphans)
        /\ Cardinality(Doomed') <= Cardinality(Doomed) + 1
    BY <1>1, <2>3, <2>4, <2>5, Countable, FS_Subset, OneMore DEF Counted
  <2>7. CASE Enrolled(m)
    BY <1>1, <1>2, <2>6, <2>7, Countable, CountableNext DEF Counted, Blame
  <2>8. CASE ~Enrolled(m)
    BY <1>1, <1>2, <2>3, <2>4, <2>5, <2>8, NothingLost
  <2> QED
    BY <2>7, <2>8
<1> QED
  BY <1>3, <1>4 DEF StartJoin

\* A request that finds its invitation open, or not.
LEMMA BeginBlame ==
  ASSUME IInv, TypeOK', Blame, NEW h \in Handlers, Begin(h)
  PROVE  Blame'
<1>1. /\ UNCHANGED <<agents, revoked, conf, run, faults>> /\ handler[h].pc = "begin"
      /\ TypeOK /\ faults \in Nat /\ handler \in [Handlers -> Handler]
  BY Countable DEF Begin, IInv, TypeOK, Counted
<1>2. \A g \in Handlers : g # h => handler'[g] = handler[g]
  BY <1>1 DEF Begin, Goto
<1>3. \A g \in Handlers : Awaited(g)' = Awaited(g)
  BY <1>1 DEF Awaited
<1>4. Lost' \subseteq Lost
  <2> SUFFICES ASSUME NEW a \in Lost', a \notin Lost PROVE FALSE
    OBVIOUS
  <2>1. \A n \in Machines : Holds(n, a) => Holds(n, a)'
    BY <1>1 DEF Holds
  <2>2. \A g \in Handlers : Coming(g, a) => Coming(g, a)'
    BY <1>1, <1>2, <1>3 DEF Coming
  <2> QED
    BY <1>1, <2>1, <2>2, GetsLost
<1>5. Orphans' \subseteq Orphans
  BY <1>1, <1>2, <1>3 DEF Orphans
<1>6. Doomed' \subseteq Doomed
  BY <1>1 DEF Doomed, Enrolled
<1> QED
  BY <1>1, <1>4, <1>5, <1>6, NothingLost

\* A credential issued to nobody was foreseen: its request was an orphan.
LEMMA ExchangeBlame ==
  ASSUME IInv, TypeOK', Blame, NEW h \in Handlers, Exchange(h)
  PROVE  Blame'
<1> DEFINE a == [token |-> handler[h].token, by |-> h]
<1>1. /\ UNCHANGED <<revoked, conf, run, faults>>
      /\ TypeOK /\ faults \in Nat /\ handler \in [Handlers -> Handler]
  BY Countable DEF Exchange, IInv, TypeOK, Counted
<1>2. \A g \in Handlers : Awaited(g)' = Awaited(g)
  BY <1>1 DEF Awaited
<1>3. \A b \in Agent, m \in Machines : Holds(m, b) => Holds(m, b)'
  BY <1>1 DEF Holds
<1>4. CASE handler[h].pc = "exchange"
  <2>1. agents' = agents \cup {a} /\ handler' = [Outdated(handler) EXCEPT ![h] = [pc |-> "grant", agent |-> a]]
    BY <1>4 DEF Exchange
  <2> HIDE DEF a
  <2>2. Outdated(handler) \in [Handlers -> Handler]
    BY <1>1, OutdatedHandlers
  <2>3. handler'[h].pc = "grant" /\ handler'[h].agent = a
    BY <2>1, <2>2
  <2>4. ASSUME NEW g \in Handlers, g # h
        PROVE  /\ handler[g].pc = "grant" => handler'[g] = handler[g]
               /\ handler'[g].pc \in {"begin", "exchange"} => handler'[g] = handler[g]
    BY <1>1, <2>1, <2>2, <2>4, OutdatedHandlers, OutdatedOthers
  <2>5. Lost' \subseteq Lost \cup {a} /\ (Awaited(h) => Lost' \subseteq Lost)
    <3>1. ASSUME NEW b \in Lost', b \notin Lost PROVE b = a /\ ~Awaited(h)
      <4>1. b \in (agents \ revoked)' /\ b \in Agent
        BY <3>1, GetsLost DEF TypeOK
      <4>2. \A g \in Handlers : Coming(g, b) => Coming(g, b)'
        BY <1>2, <1>4, <2>4 DEF Coming
      <4>3. \A m \in Machines : Holds(m, b) => Holds(m, b)'
        BY <1>3, <4>1
      <4>4. b \notin agents \ revoked
        BY <3>1, <4>2, <4>3, GetsLost
      <4>5. b = a
        BY <1>1, <2>1, <4>1, <4>4
      <4>6. ~Coming(h, b)'
        BY <3>1 DEF Lost, Coming, Awaited
      <4> QED
        BY <1>2, <2>3, <4>5, <4>6 DEF Coming
    <3> QED
      BY <3>1
  <2>6. Orphans' \subseteq Orphans \ {h} /\ (~Awaited(h) => h \in Orphans)
    BY <1>2, <1>4, <2>3, <2>4 DEF Orphans
  <2>7. Doomed' \subseteq Doomed
    <3>1. \A m \in Machines : conf[m] \in agents' \ revoked => conf[m] \in agents \ revoked \/ conf[m] = a
      BY <2>1
    <3>2. a \in agents \/ \A m \in Machines : conf[m] # a
      <4>1. a # Absent /\ a # Empty
        BY DEF a, Absent, Empty
      <4> QED
        BY <1>1, <4>1 DEF TypeOK
    <3> QED
      BY <1>1, <3>1, <3>2 DEF Doomed, Enrolled
  <2>8. CASE Awaited(h)
    BY <1>1, <2>5, <2>6, <2>7, <2>8, NothingLost
  <2>9. CASE ~Awaited(h)
    <3>1. /\ Cardinality(Lost') <= Cardinality(Lost) + 1
          /\ Cardinality(Orphans') <= Cardinality(Orphans) - 1
          /\ Cardinality(Doomed') <= Cardinality(Doomed)
      BY <1>1, <2>5, <2>6, <2>7, <2>9, Countable, FS_Subset, OneMore, OneFewer DEF Counted
    <3> QED
      BY <1>1, <3>1, Countable, CountableNext DEF Counted, Blame
  <2> QED
    BY <2>8, <2>9
<1>5. CASE handler[h].pc = "stale"
  <2>1. /\ UNCHANGED agents
        /\ \A g \in Handlers : g # h => handler'[g] = handler[g]
        /\ handler'[h].pc = "refuse"
    BY <1>1, <1>5 DEF Exchange, Goto
  <2>2. Lost' \subseteq Lost
    <3> SUFFICES ASSUME NEW b \in Lost', b \notin Lost PROVE FALSE
      OBVIOUS
    <3>1. \A m \in Machines : Holds(m, b) => Holds(m, b)'
      BY <1>1 DEF Holds
    <3>2. \A g \in Handlers : Coming(g, b) => Coming(g, b)'
      BY <1>2, <1>5, <2>1 DEF Coming
    <3> QED
      BY <1>1, <2>1, <3>1, <3>2, GetsLost
  <2>3. Orphans' \subseteq Orphans
    BY <1>2, <2>1 DEF Orphans
  <2>4. Doomed' \subseteq Doomed
    BY <1>1, <2>1 DEF Doomed, Enrolled
  <2> QED
    BY <1>1, <2>2, <2>3, <2>4, NothingLost
<1> QED
  BY <1>4, <1>5 DEF Exchange

\* A transaction put out of date issues nothing.
LEMMA DisturbBlame ==
  ASSUME IInv, TypeOK', Blame, NEW h \in Handlers, Disturb(h)
  PROVE  Blame'
<1>1. /\ UNCHANGED <<agents, revoked, conf, run>> /\ handler[h].pc = "exchange"
      /\ TypeOK /\ faults \in Nat /\ handler \in [Handlers -> Handler] /\ faults' = faults + 1
  BY Countable DEF Disturb, GoesWrong, GoWrong, IInv, TypeOK, Counted
<1>2. \A g \in Handlers : g # h => handler'[g] = handler[g]
  BY <1>1 DEF Disturb, Goto
<1>3. \A g \in Handlers : Awaited(g)' = Awaited(g)
  BY <1>1 DEF Awaited
<1>4. Lost' \subseteq Lost
  <2> SUFFICES ASSUME NEW a \in Lost', a \notin Lost PROVE FALSE
    OBVIOUS
  <2>1. \A n \in Machines : Holds(n, a) => Holds(n, a)'
    BY <1>1 DEF Holds
  <2>2. \A g \in Handlers : Coming(g, a) => Coming(g, a)'
    BY <1>1, <1>2, <1>3 DEF Coming
  <2> QED
    BY <1>1, <2>1, <2>2, GetsLost
<1>5. Orphans' \subseteq Orphans
  BY <1>1, <1>2, <1>3 DEF Orphans
<1>6. Doomed' \subseteq Doomed
  BY <1>1 DEF Doomed, Enrolled
<1>7. faults' >= faults
  BY <1>1
<1> QED
  BY <1>1, <1>4, <1>5, <1>6, <1>7, NothingLost

\* An answer hands the credential over to whoever waits for it.
LEMMA AnswerBlame ==
  ASSUME IInv, TypeOK', Blame, NEW h \in Handlers, Answer(h)
  PROVE  Blame'
<1>1. /\ UNCHANGED <<agents, revoked, conf, faults>> /\ handler[h].pc \in {"grant", "refuse"}
      /\ TypeOK /\ faults \in Nat /\ handler \in [Handlers -> Handler] /\ run \in [Machines -> Run]
  BY Countable DEF Answer, IInv, TypeOK, Counted
<1>2. \A g \in Handlers : g # h => handler'[g] = handler[g]
  BY <1>1 DEF Answer, Goto
<1>3. handler'[h].pc = "idle"
  BY <1>1 DEF Answer, Goto, Idle
<1>4. ASSUME NEW m \in Machines
      PROVE  /\ run[m].pc # "wait" => run'[m] = run[m]
             /\ run[m].pc = "wait" /\ run[m].on # h => run'[m] = run[m]
             /\ run[m].pc = "wait" /\ run[m].on = h /\ handler[h].pc = "grant" =>
                  run'[m].pc = "truncate" /\ run'[m].agent = handler[h].agent
             /\ run[m].pc = "wait" /\ run[m].on = h /\ handler[h].pc = "refuse" => run'[m].pc = "idle"
  BY <1>1 DEF Answer, Idle
<1>5. \A g \in Handlers : g # h => Awaited(g)' = Awaited(g)
  BY <1>1, <1>4 DEF Awaited
<1>6. Lost' \subseteq Lost
  <2> SUFFICES ASSUME NEW a \in Lost', a \notin Lost PROVE FALSE
    OBVIOUS
  <2>1. \A n \in Machines : Holds(n, a) => Holds(n, a)'
    BY <1>1, <1>4 DEF Holds
  <2>2. \A g \in Handlers : g # h => (Coming(g, a) => Coming(g, a)')
    BY <1>1, <1>2, <1>5 DEF Coming
  <2>3. Coming(h, a) => \E m \in Machines : Holds(m, a)'
    BY <1>4 DEF Coming, Awaited, Holds
  <2>4. \A n \in Machines : ~Holds(n, a)'
    BY DEF Lost, Holds
  <2> QED
    BY <1>1, <2>1, <2>2, <2>3, <2>4, GetsLost
<1>7. Orphans' \subseteq Orphans
  BY <1>1, <1>2, <1>3, <1>5 DEF Orphans
<1>8. Doomed' \subseteq Doomed
  BY <1>1, <1>4 DEF Doomed, Enrolled
<1> QED
  BY <1>1, <1>6, <1>7, <1>8, NothingLost

\* A command that gives up leaves an orphan, or loses the credential it would have got.
LEMMA GiveUpBlame ==
  ASSUME IInv, TypeOK', Blame, NEW m \in Machines, GiveUp(m)
  PROVE  Blame'
<1> DEFINE h == run[m].on
<1>1. /\ UNCHANGED <<agents, revoked, conf, handler>> /\ run[m].pc = "wait"
      /\ TypeOK /\ faults \in Nat /\ run \in [Machines -> Run] /\ faults' = faults + 1
  BY Countable DEF GiveUp, GoesWrong, GoWrong, IInv, TypeOK, Counted
<1>2. /\ \A n \in Machines : n # m => run'[n] = run[n]
      /\ run'[m].pc = "idle"
  BY <1>1 DEF GiveUp, Idle
<1>3. \A g \in Handlers : g # h => Awaited(g)' = Awaited(g)
  BY <1>1, <1>2 DEF Awaited
<1> HIDE DEF h
<1>4. ASSUME NEW a \in Lost', a \notin Lost PROVE handler[h].pc = "grant" /\ a = handler[h].agent
  <2>1. \A n \in Machines : Holds(n, a) => Holds(n, a)'
    BY <1>1, <1>2 DEF Holds
  <2>2. \A g \in Handlers : g # h => (Coming(g, a) => Coming(g, a)')
    BY <1>1, <1>3 DEF Coming
  <2>3. Coming(h, a)
    BY <1>1, <1>4, <2>1, <2>2, GetsLost
  <2> QED
    BY <2>3 DEF Coming
<1>5. Doomed' \subseteq Doomed
  BY <1>1, <1>2 DEF Doomed, Enrolled
<1>6. CASE handler[h].pc = "grant"
  <2>1. Lost' \subseteq Lost \cup {handler[h].agent} /\ Orphans' \subseteq Orphans
    BY <1>1, <1>3, <1>4, <1>6 DEF Orphans
  <2>2. /\ Cardinality(Lost') <= Cardinality(Lost) + 1
        /\ Cardinality(Orphans') <= Cardinality(Orphans)
        /\ Cardinality(Doomed') <= Cardinality(Doomed)
    BY <1>1, <1>5, <2>1, Countable, FS_Subset, OneMore DEF Counted
  <2> QED
    BY <1>1, <2>2, Countable, CountableNext DEF Counted, Blame
<1>7. CASE handler[h].pc # "grant"
  <2>1. Lost' \subseteq Lost /\ Orphans' \subseteq Orphans \cup {h}
    BY <1>1, <1>3, <1>4, <1>7 DEF Orphans
  <2>2. /\ Cardinality(Lost') <= Cardinality(Lost)
        /\ Cardinality(Orphans') <= Cardinality(Orphans) + 1
        /\ Cardinality(Doomed') <= Cardinality(Doomed)
    BY <1>1, <1>5, <2>1, Countable, FS_Subset, OneMore DEF Counted
  <2> QED
    BY <1>1, <2>2, Countable, CountableNext DEF Counted, Blame
<1> QED
  BY <1>6, <1>7

\* What a file held before it is truncated or written was doomed, if it was valid.
LEMMA FileBlame ==
  ASSUME IInv, TypeOK', Blame, NEW m \in Machines, Truncate(m) \/ Write(m)
  PROVE  Blame'
<1>1. /\ UNCHANGED <<agents, revoked, handler, faults>> /\ run[m].pc \in {"truncate", "write"}
      /\ TypeOK /\ faults \in Nat /\ run \in [Machines -> Run]
  BY Countable DEF Truncate, Write, IInv, TypeOK, Counted
<1>2. /\ \A n \in Machines : n # m => run'[n] = run[n] /\ conf'[n] = conf[n]
      /\ \/ run'[m].pc = "write" /\ run'[m].agent = run[m].agent /\ conf'[m] = Empty
         \/ run'[m].pc = "idle" /\ conf'[m] = run[m].agent
  <2>1. CASE Truncate(m)
    <3>1. run[m] = [pc |-> "truncate", agent |-> run[m].agent]
      BY <1>1, <2>1, RunFields DEF Truncate
    <3>2. run'[m] = [run[m] EXCEPT !.pc = "write"]
      BY <1>1, <2>1 DEF Truncate
    <3>3. run'[m] = [pc |-> "write", agent |-> run[m].agent]
      BY <3>1, <3>2
    <3> QED
      BY <1>1, <2>1, <3>3 DEF Truncate, TypeOK
  <2>2. CASE Write(m)
    BY <1>1, <2>2 DEF Write, TypeOK, Idle
  <2> QED
    BY <2>1, <2>2
<1>3. \A g \in Handlers : Awaited(g)' = Awaited(g)
  BY <1>1, <1>2 DEF Awaited
<1>4. ASSUME NEW a \in Lost', a \notin Lost PROVE a = conf[m] /\ Enrolled(m)
  <2>1. \A n \in Machines : n # m => (Holds(n, a) => Holds(n, a)')
    BY <1>2 DEF Holds
  <2>2. \A g \in Handlers : Coming(g, a) => Coming(g, a)'
    BY <1>1, <1>3 DEF Coming
  <2>3. Holds(m, a) /\ ~Holds(m, a)' /\ a \in agents \ revoked
    BY <1>1, <1>4, <2>1, <2>2, GetsLost
  <2>4. a = conf[m]
    BY <1>1, <1>2, <2>3 DEF Holds
  <2> QED
    BY <2>3, <2>4 DEF Enrolled
<1>5. Orphans' \subseteq Orphans
  BY <1>1, <1>3 DEF Orphans
<1>6. m \notin Doomed'
  <2>1. Empty \notin agents
    BY <1>1 DEF TypeOK, Agent, Empty
  <2> QED
    BY <1>1, <1>2, <2>1 DEF Doomed, Enrolled
<1>7. Doomed' \subseteq Doomed \ {m}
  BY <1>1, <1>2, <1>6 DEF Doomed, Enrolled
<1>8. CASE Enrolled(m)
  <2>1. m \in Doomed
    BY <1>1, <1>8 DEF Doomed
  <2>2. Lost' \subseteq Lost \cup {conf[m]}
    BY <1>4
  <2>3. /\ Cardinality(Lost') <= Cardinality(Lost) + 1
        /\ Cardinality(Orphans') <= Cardinality(Orphans)
        /\ Cardinality(Doomed') <= Cardinality(Doomed) - 1
    BY <1>1, <1>5, <1>7, <2>1, <2>2, Countable, FS_Subset, OneMore, OneFewer DEF Counted
  <2> QED
    BY <1>1, <2>3, Countable, CountableNext DEF Counted, Blame
<1>9. CASE ~Enrolled(m)
  BY <1>1, <1>4, <1>5, <1>7, <1>9, NothingLost
<1> QED
  BY <1>8, <1>9


\* A write that fails loses the credential that was to be written.
LEMMA FailBlame ==
  ASSUME IInv, TypeOK', Blame, NEW m \in Machines, FailToWrite(m)
  PROVE  Blame'
<1>1. /\ UNCHANGED <<agents, revoked, conf, handler>> /\ run[m].pc \in {"truncate", "write"}
      /\ TypeOK /\ faults \in Nat /\ run \in [Machines -> Run] /\ faults' = faults + 1
  BY Countable DEF FailToWrite, GoesWrong, GoWrong, IInv, TypeOK, Counted
<1>2. /\ \A n \in Machines : n # m => run'[n] = run[n]
      /\ run'[m].pc = "idle"
  BY <1>1 DEF FailToWrite, Idle
<1>3. \A g \in Handlers : Awaited(g)' = Awaited(g)
  BY <1>1, <1>2 DEF Awaited
<1>4. ASSUME NEW a \in Lost', a \notin Lost PROVE a = run[m].agent
  <2>1. \A n \in Machines : n # m => (Holds(n, a) => Holds(n, a)')
    BY <1>1, <1>2 DEF Holds
  <2>2. \A g \in Handlers : Coming(g, a) => Coming(g, a)'
    BY <1>1, <1>3 DEF Coming
  <2>3. Holds(m, a) /\ ~Holds(m, a)'
    BY <1>1, <1>4, <2>1, <2>2, GetsLost
  <2> QED
    BY <1>1, <2>3 DEF Holds
<1>5. Orphans' \subseteq Orphans
  BY <1>1, <1>3 DEF Orphans
<1>6. Doomed' \subseteq Doomed
  BY <1>1, <1>2 DEF Doomed, Enrolled
<1>7. /\ Cardinality(Lost') <= Cardinality(Lost) + 1
      /\ Cardinality(Orphans') <= Cardinality(Orphans)
      /\ Cardinality(Doomed') <= Cardinality(Doomed)
  <2>1. Lost' \subseteq Lost \cup {run[m].agent}
    BY <1>4
  <2> QED
    BY <1>1, <1>5, <1>6, <2>1, Countable, FS_Subset, OneMore DEF Counted
<1> QED
  BY <1>1, <1>7, Countable, CountableNext DEF Counted, Blame

\* A crash loses a credential at most for every connection it cuts, and forgets the
\* requests that nobody waits for.
LEMMA CrashBlame ==
  ASSUME IInv, TypeOK', Blame, Crash
  PROVE  Blame'
<1> DEFINE Cut == {m \in Machines : run[m].pc = "wait"}
           f == [m \in Cut |-> handler[run[m].on].agent]
           Due == {f[m] : m \in Cut}
<1>1. /\ UNCHANGED <<agents, revoked, conf>> /\ TypeOK /\ faults \in Nat
      /\ run \in [Machines -> Run]
      /\ handler' = [h \in Handlers |-> Idle]
      /\ run' = [m \in Machines |-> IF run[m].pc = "wait" THEN Idle ELSE run[m]]
  BY Countable DEF Crash, IInv, TypeOK, Counted
<1>2. IsFiniteSet(Cut) /\ Cardinality(Cut) \in Nat
  BY EnrolmentAssumption, FS_Subset, FS_CardinalityType
<1>3. faults' >= faults + Cardinality(Cut)
  <2>1. faults' = faults + IF Cardinality(Cut) = 0 THEN 1 ELSE Cardinality(Cut)
    BY DEF Crash, GoWrong
  <2> HIDE DEF Cut
  <2> QED
    BY <1>1, <1>2, <2>1
<1>4. Lost' \subseteq Lost \cup Due
  <2> SUFFICES ASSUME NEW a \in Lost', a \notin Lost PROVE a \in Due
    OBVIOUS
  <2>1. \A n \in Machines : Holds(n, a) => Holds(n, a)'
    BY <1>1 DEF Holds
  <2>2. PICK h \in Handlers : Coming(h, a)
    BY <1>1, <2>1, GetsLost
  <2>3. PICK m \in Machines : run[m].pc = "wait" /\ run[m].on = h
    BY <2>2 DEF Coming, Awaited
  <2>4. m \in Cut /\ f[m] = a
    BY <2>2, <2>3 DEF Coming
  <2> QED
    BY <2>4
<1>5. Orphans' = {}
  BY <1>1 DEF Orphans, Idle
<1>6. Doomed' \subseteq Doomed
  BY <1>1 DEF Doomed, Enrolled, Idle
<1>7. DOMAIN f = Cut
  OBVIOUS
<1> HIDE DEF Cut, f
<1>8. IsFiniteSet(Due) /\ Cardinality(Due) <= Cardinality(Cut) /\ Cardinality(Due) \in Nat
  <2>1. IsFiniteSet(Due) /\ Cardinality(Due) <= Cardinality(Cut)
    BY <1>2, <1>7, ImageFinite
  <2> QED
    BY <2>1, FS_CardinalityType
<1> HIDE DEF Due
<1>9. Cardinality(Lost') <= Cardinality(Lost) + Cardinality(Cut)
  <2>1. IsFiniteSet(Lost) /\ Cardinality(Lost) \in Nat
    BY <1>1, Countable DEF Counted
  <2>2. IsFiniteSet(Lost \cup Due) /\ Cardinality(Lost \cup Due) <= Cardinality(Lost) + Cardinality(Due)
    <3>1. IsFiniteSet(Lost \cap Due) /\ Cardinality(Lost \cap Due) \in Nat
      BY <2>1, FS_Intersection, FS_CardinalityType
    <3>2. IsFiniteSet(Due) /\ Cardinality(Due) \in Nat
      BY <1>8
    <3>3. /\ IsFiniteSet(Lost \cup Due)
          /\ Cardinality(Lost \cup Due) = Cardinality(Lost) + Cardinality(Due) - Cardinality(Lost \cap Due)
      BY <2>1, <3>2, FS_Union
    <3> QED
      BY <2>1, <3>1, <3>2, <3>3
  <2>3. Cardinality(Lost') <= Cardinality(Lost \cup Due) /\ Cardinality(Lost \cup Due) \in Nat
    BY <1>4, <2>2, FS_Subset, FS_CardinalityType
  <2>4. Cardinality(Lost') \in Nat
    BY CountableNext DEF Counted
  <2> QED
    BY <1>2, <1>8, <2>1, <2>2, <2>3, <2>4
<1>10. /\ Cardinality(Orphans') = 0
       /\ Cardinality(Doomed') <= Cardinality(Doomed)
  BY <1>1, <1>5, <1>6, Countable, FS_Subset, FS_EmptySet DEF Counted
<1> QED
  BY <1>1, <1>2, <1>3, <1>9, <1>10, Countable, CountableNext DEF Counted, Blame

\* Every step is paid for.
LEMMA BlameKept == IInv /\ Blame /\ [Next]_vars => Blame'
<1> SUFFICES ASSUME IInv, Blame, [Next]_vars PROVE Blame'
  OBVIOUS
<1>1. TypeOK /\ TypeOK' /\ faults \in Nat
  BY NextKeeps, Countable DEF IInv, Counted
<1>2. ASSUME NEW k \in Tokens, Mint(k) PROVE Blame'
  BY <1>1, <1>2, OperatorBlame DEF Mint
<1>3. ASSUME NEW k \in Tokens, Expire(k) PROVE Blame'
  BY <1>1, <1>3, OperatorBlame DEF Expire, GoesWrong, GoWrong
<1>4. ASSUME NEW a \in agents, RevokeAgent(a) PROVE Blame'
  BY <1>1, <1>4, OperatorBlame DEF RevokeAgent, GoesWrong, GoWrong
<1>5. ASSUME NEW m \in Machines, NEW k \in Tokens, NEW h \in Handlers, NEW c \in Clients,
             StartJoin(m, k, h, c)
      PROVE Blame'
  BY <1>1, <1>5, StartBlame
<1>6. ASSUME NEW h \in Handlers, Begin(h) \/ Exchange(h) \/ Disturb(h) \/ Answer(h) PROVE Blame'
  BY <1>1, <1>6, BeginBlame, ExchangeBlame, DisturbBlame, AnswerBlame
<1>7. ASSUME NEW m \in Machines, GiveUp(m) \/ Truncate(m) \/ Write(m) \/ FailToWrite(m) PROVE Blame'
  BY <1>1, <1>7, GiveUpBlame, FileBlame, FailBlame
<1>8. CASE Crash
  BY <1>1, <1>8, CrashBlame
<1>9. CASE Tick \/ UNCHANGED vars
  <2>1. UNCHANGED enrolmentVars
    BY <1>9 DEF Tick, vars
  <2> QED
    BY <1>1, <2>1, OperatorBlame DEF enrolmentVars
<1> QED
  BY <1>2, <1>3, <1>4, <1>5, <1>6, <1>7, <1>8, <1>9 DEF Next

\* A fault costs one credential at most: there are never more valid credentials that
\* nobody holds or will receive than things have gone wrong.
THEOREM LostOncePerFault == Spec => []LostPerFault
<1>1. Init => Blame
  <2> SUFFICES ASSUME Init PROVE Blame
    OBVIOUS
  <2>1. Lost = {} /\ Orphans = {} /\ Doomed = {} /\ faults = 0
    BY DEF Init, Lost, Orphans, Doomed, Idle
  <2> QED
    BY <2>1, FS_EmptySet DEF Blame
<1>2. IInv /\ Blame => LostPerFault
  BY Countable DEF IInv, Counted, Blame, LostPerFault
<1> QED
  BY <1>1, <1>2, InitHolds, NextKeeps, BlameKept, PTL DEF Spec

-----------------------------------------------------------------------------
(* One machine to a credential.                                            *)

\* Handler h is about to deliver a.
Grants(h, a) == handler[h].pc = "grant" /\ handler[h].agent = a

\* One command waits for an answer, and a handler grants what it has issued.
Paired ==
  /\ \A m \in Machines : run[m].pc = "wait" => handler[run[m].on].pc # "idle"
  /\ \A m, n \in Machines : run[m].pc = "wait" /\ run[n].pc = "wait" /\ run[m].on = run[n].on => m = n
  /\ \A h \in Handlers : handler[h].pc = "grant" => handler[h].agent.by = h

\* What a machine has no other has, and none will get.
Alone ==
  \A a \in agents, m \in Machines : Holds(m, a) =>
    /\ \A n \in Machines : Holds(n, a) => n = m
    /\ \A h \in Handlers : ~Grants(h, a)

\* No credential is in the files of two machines.
OneMachineEach ==
  \A m, n \in Machines : conf[m] \in agents /\ conf[m] = conf[n] => m = n

\* Steps that hand nothing over: machines let go, handlers forget.
LEMMA AloneStays ==
  ASSUME Alone, agents' = agents,
         \A a \in agents, m \in Machines : Holds(m, a)' => Holds(m, a),
         \A a \in agents, h \in Handlers : Grants(h, a)' => Grants(h, a)
  PROVE  Alone'
BY DEF Alone

\* What a commit does to the pairing.
LEMMA OperatorAlone ==
  ASSUME TypeOK, Paired, Alone, UNCHANGED <<run, conf, agents>>, handler' \in {handler, Outdated(handler)}
  PROVE  (Paired /\ Alone)'
<1>1. handler \in [Handlers -> Handler] /\ run \in [Machines -> Run]
  BY DEF TypeOK
<1>2. ASSUME NEW h \in Handlers
      PROVE  /\ handler'[h].pc = "grant" => handler'[h] = handler[h]
             /\ handler[h].pc # "idle" => handler'[h].pc # "idle"
  BY <1>1, OutdatedOthers, OutdatedHandlers
<1>3. \A m \in Machines : run[m].pc = "wait" => run[m].on \in Handlers
  BY <1>1, RunFields
<1>4. Paired'
  BY <1>2, <1>3 DEF Paired
<1>5. Alone'
  BY <1>2, AloneStays DEF Holds, Grants
<1> QED
  BY <1>4, <1>5

\* What a machine does by itself.
LEMMA CommandAlone ==
  ASSUME TypeOK, Paired, Alone, NEW m \in Machines,
         GiveUp(m) \/ Truncate(m) \/ Write(m) \/ FailToWrite(m)
  PROVE  (Paired /\ Alone)'
<1>1. /\ UNCHANGED <<agents, handler>> /\ run \in [Machines -> Run] /\ conf \in [Machines -> {Absent, Empty} \cup agents]
  BY DEF TypeOK, GiveUp, Truncate, Write, FailToWrite
<1>2. /\ \A n \in Machines : n # m => run'[n] = run[n] /\ conf'[n] = conf[n]
      /\ run'[m].pc # "wait"
      /\ \/ run'[m].pc = "idle" /\ conf'[m] = conf[m]
         \/ run'[m].pc = "write" /\ conf'[m] = Empty /\ run'[m].agent = run[m].agent /\ run[m].pc = "truncate"
         \/ run'[m].pc = "idle" /\ conf'[m] = run[m].agent /\ run[m].pc = "write"
  <2>1. CASE GiveUp(m) \/ FailToWrite(m)
    BY <1>1, <2>1 DEF GiveUp, FailToWrite, Idle
  <2>2. CASE Truncate(m)
    <3>1. run[m] = [pc |-> "truncate", agent |-> run[m].agent]
      BY <1>1, <2>2, RunFields DEF Truncate
    <3>2. run'[m] = [run[m] EXCEPT !.pc = "write"]
      BY <1>1, <2>2 DEF Truncate
    <3>3. run'[m] = [pc |-> "write", agent |-> run[m].agent]
      BY <3>1, <3>2
    <3> QED
      BY <1>1, <2>2, <3>3 DEF Truncate
  <2>3. CASE Write(m)
    BY <1>1, <2>3 DEF Write, Idle
  <2> QED
    BY <2>1, <2>2, <2>3
<1>3. Paired'
  BY <1>1, <1>2 DEF Paired
<1>4. ASSUME NEW a \in agents, NEW n \in Machines, Holds(n, a)' PROVE Holds(n, a)
  <2>1. a # Empty
    BY DEF TypeOK, Agent, Empty
  <2> QED
    BY <1>2, <1>4, <2>1 DEF Holds
<1>5. Alone'
  BY <1>1, <1>4, AloneStays DEF Grants
<1> QED
  BY <1>3, <1>5

\* What a handler does: a new credential is held by nobody, an answer goes to the one
\* command that waits for it.
LEMMA HandlerAlone ==
  ASSUME IInv, Paired, Alone, NEW h \in Handlers,
         Begin(h) \/ Exchange(h) \/ Disturb(h) \/ Answer(h)
  PROVE  (Paired /\ Alone)'
<1>1. /\ TypeOK /\ handler \in [Handlers -> Handler] /\ run \in [Machines -> Run]
      /\ \A m \in Machines : run[m].pc = "wait" => run[m].on \in Handlers
  BY RunFields DEF IInv, TypeOK
<1>2. ASSUME UNCHANGED <<run, conf, agents>>, handler'[h].pc \notin {"grant", "idle"},
             \A g \in Handlers : g # h => handler'[g] = handler[g]
      PROVE  (Paired /\ Alone)'
  <2>1. Paired'
    BY <1>1, <1>2 DEF Paired
  <2>2. Alone'
    BY <1>2, AloneStays DEF Holds, Grants
  <2> QED
    BY <2>1, <2>2
<1>3. CASE Begin(h) \/ Disturb(h) \/ (Exchange(h) /\ handler[h].pc = "stale")
  <2>1. /\ UNCHANGED <<run, conf, agents>>
        /\ \A g \in Handlers : g # h => handler'[g] = handler[g]
    BY <1>1, <1>3 DEF Begin, Disturb, Exchange, Goto
  <2>2. handler'[h].pc \notin {"grant", "idle"}
    <3> DEFINE x == [handler[h] EXCEPT !.pc = "exchange"]
               y == [handler[h] EXCEPT !.pc = "stale"]
               z == [pc |-> "refuse"]
    <3>1. handler[h].pc \in {"begin", "exchange", "stale"} /\ handler[h] = [pc |-> handler[h].pc, token |-> handler[h].token]
      BY <1>1, <1>3, HandlerFields DEF Begin, Disturb, Exchange
    <3>2. handler'[h] \in {x, y, z}
      BY <1>1, <1>3 DEF Begin, Disturb, Exchange, Goto
    <3>3. x.pc = "exchange"
      BY <3>1
    <3>4. y.pc = "stale"
      BY <3>1
    <3>5. z.pc = "refuse"
      OBVIOUS
    <3> HIDE DEF x, y, z
    <3> QED
      BY <3>2, <3>3, <3>4, <3>5
  <2> QED
    BY <1>2, <2>1, <2>2
<1>4. CASE Exchange(h) /\ handler[h].pc = "exchange"
  <2> DEFINE a == [token |-> handler[h].token, by |-> h]
  <2>1. /\ agents' = agents \cup {a} /\ handler' = [Outdated(handler) EXCEPT ![h] = [pc |-> "grant", agent |-> a]]
        /\ UNCHANGED <<run, conf>>
    BY <1>4 DEF Exchange
  <2>2. a.by = h /\ a.token = handler[h].token
    OBVIOUS
  <2>3. a \notin agents
    <3>1. token[handler[h].token] # "spent"
      BY <1>4 DEF IInv, Unoutdated
    <3> QED
      BY <2>2, <3>1 DEF IInv, SpentByCredential
  <2>4. a # Absent /\ a # Empty
    BY DEF Absent, Empty
  <2> HIDE DEF a
  <2>5. Outdated(handler) \in [Handlers -> Handler]
    BY <1>1, OutdatedHandlers
  <2>6. handler'[h] = [pc |-> "grant", agent |-> a]
    BY <2>1, <2>5
  <2>7. ASSUME NEW g \in Handlers, g # h
        PROVE  /\ handler'[g].pc = "grant" => handler'[g] = handler[g]
               /\ handler[g].pc # "idle" => handler'[g].pc # "idle"
    BY <1>1, <2>1, <2>5, <2>7, OutdatedHandlers, OutdatedOthers
  <2>8. Paired'
    BY <1>1, <2>1, <2>2, <2>6, <2>7 DEF Paired
  <2>9. \A m \in Machines : ~Holds(m, a)
    BY <1>1, <2>3, <2>4 DEF Holds, TypeOK, IInv, Granted
  <2>10. \A b \in agents' : \A m \in Machines : Holds(m, b)' = Holds(m, b)
    BY <2>1 DEF Holds
  <2>11. \A b \in agents, g \in Handlers : Grants(g, b)' => Grants(g, b)
    BY <2>3, <2>6, <2>7 DEF Grants
  <2>12. Alone'
    BY <2>1, <2>9, <2>10, <2>11 DEF Alone
  <2> QED
    BY <2>8, <2>12
<1>5. CASE Answer(h)
  <2>1. /\ UNCHANGED <<agents, conf>> /\ handler[h].pc \in {"grant", "refuse"}
        /\ handler'[h].pc = "idle"
        /\ \A g \in Handlers : g # h => handler'[g] = handler[g]
    BY <1>1, <1>5 DEF Answer, Goto, Idle
  <2>2. ASSUME NEW m \in Machines
        PROVE  /\ ~(run[m].pc = "wait" /\ run[m].on = h) => run'[m] = run[m]
               /\ run[m].pc = "wait" /\ run[m].on = h =>
                    \/ run'[m].pc = "idle"
                    \/ run'[m].pc = "truncate" /\ run'[m].agent = handler[h].agent /\ handler[h].pc = "grant"
    BY <1>1, <1>5, <2>1 DEF Answer, Idle
  <2>3. Paired'
    BY <1>1, <2>1, <2>2 DEF Paired
  <2>4. \A b \in agents, g \in Handlers : Grants(g, b)' => g # h /\ Grants(g, b)
    BY <2>1 DEF Grants
  <2>5. ASSUME NEW b \in agents, NEW m \in Machines, Holds(m, b)'
        PROVE  Holds(m, b) \/ (Grants(h, b) /\ run[m].pc = "wait" /\ run[m].on = h)
    BY <2>1, <2>2, <2>5 DEF Holds, Grants
  <2>6. \A b \in agents, g \in Handlers : Grants(g, b) /\ Grants(h, b) => g = h
    BY DEF Grants, Paired
  <2>7. ASSUME NEW b \in agents, NEW m \in Machines, Holds(m, b)'
        PROVE  /\ \A n \in Machines : Holds(n, b)' => n = m
               /\ \A g \in Handlers : ~Grants(g, b)'
    <3>1. CASE Grants(h, b) /\ run[m].pc = "wait" /\ run[m].on = h
      <4>1. \A n \in Machines : ~Holds(n, b)
        BY <3>1 DEF Alone
      <4>2. \A n \in Machines : Holds(n, b)' => n = m
        BY <2>5, <3>1, <4>1 DEF Paired
      <4> QED
        BY <2>4, <2>6, <3>1, <4>2
    <3>2. CASE Holds(m, b)
      <4>1. ~Grants(h, b) /\ (\A g \in Handlers : ~Grants(g, b)) /\ \A n \in Machines : Holds(n, b) => n = m
        BY <3>2 DEF Alone
      <4> QED
        BY <2>4, <2>5, <4>1
    <3> QED
      BY <2>5, <2>7, <3>1, <3>2
  <2>8. Alone'
    BY <2>1, <2>7 DEF Alone
  <2> QED
    BY <2>3, <2>8
<1> QED
  BY <1>3, <1>4, <1>5 DEF Exchange

\* A command that starts waits for a handler that nobody waited for.
LEMMA StartAlone ==
  ASSUME IInv, Paired, Alone, NEW m \in Machines, NEW k \in Tokens, NEW h \in Handlers,
         NEW c \in Clients, StartJoin(m, k, h, c)
  PROVE  (Paired /\ Alone)'
<1>1. /\ TypeOK /\ UNCHANGED <<agents, conf>> /\ handler[h].pc = "idle" /\ run[m].pc = "idle"
      /\ run \in [Machines -> Run] /\ handler \in [Handlers -> Handler]
      /\ \A n \in Machines : run[n].pc = "wait" => run[n].on \in Handlers
  BY RunFields DEF StartJoin, IInv, TypeOK, Idle
<1>2. CASE UNCHANGED <<run, handler>>
  BY <1>1, <1>2, OperatorAlone
<1>3. CASE run' = [run EXCEPT ![m] = [pc |-> "wait", on |-> h]] /\ Goto(h, [pc |-> "begin", token |-> k])
  <2>1. /\ \A n \in Machines : n # m => run'[n] = run[n]
        /\ run'[m].pc = "wait" /\ run'[m].on = h
        /\ \A g \in Handlers : g # h => handler'[g] = handler[g]
        /\ handler'[h].pc = "begin"
    BY <1>1, <1>3 DEF Goto
  <2>2. Paired'
    BY <1>1, <2>1 DEF Paired
  <2>3. Alone'
    BY <1>1, <2>1, AloneStays DEF Holds, Grants
  <2> QED
    BY <2>2, <2>3
<1> QED
  BY <1>2, <1>3 DEF StartJoin

\* Every step leaves a credential with one machine.
LEMMA AloneKept == IInv /\ Paired /\ Alone /\ [Next]_vars => (Paired /\ Alone)'
<1> SUFFICES ASSUME IInv, Paired, Alone, [Next]_vars PROVE (Paired /\ Alone)'
  OBVIOUS
<1>1. TypeOK
  BY DEF IInv
<1>2. ASSUME NEW k \in Tokens, Mint(k) \/ Expire(k) PROVE (Paired /\ Alone)'
  BY <1>1, <1>2, OperatorAlone DEF Mint, Expire
<1>3. ASSUME NEW a \in agents, RevokeAgent(a) PROVE (Paired /\ Alone)'
  BY <1>1, <1>3, OperatorAlone DEF RevokeAgent
<1>4. ASSUME NEW m \in Machines, NEW k \in Tokens, NEW h \in Handlers, NEW c \in Clients,
             StartJoin(m, k, h, c)
      PROVE (Paired /\ Alone)'
  BY <1>4, StartAlone
<1>5. ASSUME NEW h \in Handlers, Begin(h) \/ Exchange(h) \/ Disturb(h) \/ Answer(h)
      PROVE (Paired /\ Alone)'
  BY <1>5, HandlerAlone
<1>6. ASSUME NEW m \in Machines, GiveUp(m) \/ Truncate(m) \/ Write(m) \/ FailToWrite(m)
      PROVE (Paired /\ Alone)'
  BY <1>1, <1>6, CommandAlone
<1>7. CASE Crash
  <2>1. /\ UNCHANGED <<agents, conf>> /\ handler' = [h \in Handlers |-> Idle]
        /\ run' = [m \in Machines |-> IF run[m].pc = "wait" THEN Idle ELSE run[m]]
    BY <1>7 DEF Crash
  <2>2. Paired'
    BY <2>1 DEF Paired, Idle
  <2>3. Alone'
    BY <2>1, AloneStays DEF Holds, Grants, Idle
  <2> QED
    BY <2>2, <2>3
<1>8. CASE Tick \/ UNCHANGED vars
  <2>1. UNCHANGED enrolmentVars
    BY <1>8 DEF Tick, vars
  <2> QED
    BY <1>1, <2>1, OperatorAlone DEF enrolmentVars
<1> QED
  BY <1>2, <1>3, <1>4, <1>5, <1>6, <1>7, <1>8 DEF Next

\* However requests, answers, retries and crashes interleave, no two machines are
\* given the same credential.
THEOREM CredentialNotShared == Spec => []OneMachineEach
<1>1. Init => Paired /\ Alone
  BY DEF Init, Paired, Alone, Idle
<1>2. Alone => OneMachineEach
  BY DEF Alone, OneMachineEach, Holds
<1> QED
  BY <1>1, <1>2, InitHolds, NextKeeps, AloneKept, PTL DEF Spec
=============================================================================
