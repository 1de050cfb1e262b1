---------------------------- MODULE RateLimiter ----------------------------
(***************************************************************************)
(* The rate limiter of internal/server/ratelimit.go.  It keeps a bucket    *)
(* for the clients it has seen lately, refills it when its client comes    *)
(* back, and drops the buckets that have been idle for the time that fills *)
(* one, cut to whole seconds.                                              *)
(*                                                                         *)
(* A bucket's credit is counted in ticks: it grows by one a tick, and a    *)
(* token is PerToken of it.  Times are ages, counted up to where the code  *)
(* can no longer tell them apart.                                          *)
(***************************************************************************)
EXTENDS Integers

CONSTANTS
  Clients,
  Burst,       \* capacity, in tokens
  PerToken,    \* perRequest: the time a token takes, in ticks
  Second,      \* ticks in a second
  SweepEvery   \* ticks in a minute

ASSUME LimiterAssumption ==
  /\ Burst \in Nat \ {0} /\ PerToken \in Nat \ {0}
  /\ Second \in Nat \ {0} /\ SweepEvery \in Nat \ {0}

VARIABLES
  buckets,    \* a bucket for every client that has one
  sinceSweep  \* age of lastSweep

limiterVars == <<buckets, sinceSweep>>

Full == Burst * PerToken

Bucket == [credit : 0..Full, idle : 0..Full + 1]

\* time.Duration(capacity / refill) * time.Second.
IdleFullAfter == (Full \div Second) * Second

Older(age, limit) == IF age < limit THEN age + 1 ELSE age

LimiterTypeOK ==
  /\ DOMAIN buckets \subseteq Clients
  /\ \A c \in DOMAIN buckets : buckets[c] \in Bucket
  /\ sinceSweep \in 0..SweepEvery

LimiterInit ==
  /\ buckets = [c \in {} |-> 0]
  /\ sinceSweep = 0

\* A mutation: every bucket that has been idle at all is dropped.
IdleAtAll == IF sinceSweep < SweepEvery THEN DOMAIN buckets
             ELSE {c \in DOMAIN buckets : buckets[c].idle = 0}

\* sweepLocked: the clients whose bucket survives it.
Kept == IF sinceSweep < SweepEvery THEN DOMAIN buckets
        ELSE {c \in DOMAIN buckets : buckets[c].idle <= IdleFullAfter}

\* What a bucket has now: what its client left, and the refill since.
Refilled(b) == IF b.credit + b.idle < Full THEN b.credit + b.idle ELSE Full

\* What a client has now, by its bucket or because it needs none.
Held(c) == IF c \in Kept THEN Refilled(buckets[c]) ELSE Full

\* allow: a refused request leaves its mark on the bucket as well.
Allow(c, ok) ==
  /\ ok = (Held(c) >= PerToken)
  /\ buckets' = [k \in Kept \cup {c} |->
       IF k = c THEN [credit |-> IF ok THEN Held(c) - PerToken ELSE Held(c), idle |-> 0]
       ELSE buckets[k]]
  /\ sinceSweep' = IF sinceSweep < SweepEvery THEN sinceSweep ELSE 0

LimiterTick ==
  /\ buckets' = [c \in DOMAIN buckets |-> [buckets[c] EXCEPT !.idle = Older(@, Full + 1)]]
  /\ sinceSweep' = Older(sinceSweep, SweepEvery)

LimiterRestart ==
  /\ buckets' = [c \in {} |-> 0]
  /\ sinceSweep' = 0

\* The level of the bucket an abstract limiter would keep for the client, and how long
\* the client has been quiet, up to where its bucket may be dropped.
Level(c) == IF c \in DOMAIN buckets THEN Refilled(buckets[c]) ELSE Full
Quiet(c) ==
  IF c \in DOMAIN buckets /\ buckets[c].idle <= IdleFullAfter
  THEN buckets[c].idle ELSE IdleFullAfter + 1
=============================================================================
