----------------------------- MODULE Enrolment -----------------------------
(***************************************************************************)
(* How a machine gets its credential: `sys-sentient agent join`            *)
(* (cmd/daemon/join.go), the endpoints of                                  *)
(* internal/server/agent_handlers.go and the join_tokens and agents tables *)
(* of internal/storage/agents.go.                                          *)
(*                                                                         *)
(* A run of the command sends one request and, when it is answered with a  *)
(* credential, truncates the configuration file and writes it.  The server *)
(* handles the request in one transaction that reads before it writes.     *)
(* SQLite runs it on a snapshot: once anything else was committed the      *)
(* write is refused, and the request answered 500.  The command gives up   *)
(* after joinTimeout, the handler does not.                                *)
(*                                                                         *)
(* A credential is the invitation it was issued for and the handler that   *)
(* issued it.  A request is let in by the login limiter, whose clients are *)
(* addresses: every machine may be behind any of them.  Everything that    *)
(* may go wrong, and every needless re-run of the command, counts against  *)
(* the bound Faults.                                                       *)
(***************************************************************************)
EXTENDS RateLimiter, FiniteSets

CONSTANTS
  Machines,
  Minted,    \* bound: invitations ever minted
  AtOnce,    \* bound: join requests the server works on at once
  Faults     \* bound: how often something goes wrong

ASSUME EnrolmentAssumption ==
  Minted \in Nat /\ AtOnce \in Nat /\ Faults \in Nat /\ IsFiniteSet(Machines)

VARIABLES
  token,    \* each invitation: "unused", "open", "expired" or "spent"
  agents,   \* credentials in the agents table
  revoked,  \* those with a revoked_at
  handler,  \* what the server does with each join request
  run,      \* the run of the command on each machine
  conf,     \* what each machine's configuration file holds
  faults    \* how often something has gone wrong

enrolmentVars == <<token, agents, revoked, handler, run, conf, faults>>
vars == <<limiterVars, enrolmentVars>>

\* Random identifiers, numbered in the order they are taken.
Tokens == 1..Minted
Handlers == 1..AtOnce

Agent == [token : Tokens, by : Handlers]

\* A configuration file that does not exist, and one truncated but not written.
Absent == [file |-> "absent"]
Empty == [file |-> "empty"]

Idle == [pc |-> "idle"]
Handler ==
  {Idle} \cup [pc : {"begin", "stale", "exchange"}, token : Tokens]
  \cup [pc : {"refuse"}] \cup [pc : {"grant"}, agent : Agent]
Run == {Idle} \cup [pc : {"wait"}, on : Handlers] \cup [pc : {"truncate", "write"}, agent : Agent]

Enrolled(m) == conf[m] \in agents \ revoked

Init ==
  /\ LimiterInit
  /\ token = [k \in Tokens |-> "unused"]
  /\ agents = {}
  /\ revoked = {}
  /\ handler = [h \in Handlers |-> Idle]
  /\ run = [m \in Machines |-> Idle]
  /\ conf = [m \in Machines |-> Absent]
  /\ faults = 0

GoWrong(n) == faults + n <= Faults /\ faults' = faults + n
GoesWrong == GoWrong(1)

Goto(h, next) == handler' = [handler EXCEPT ![h] = next]

\* A commit leaves every transaction that has read, and not written, on an old
\* snapshot.
Outdated(f) ==
  [h \in Handlers |-> IF f[h].pc = "exchange" THEN [f[h] EXCEPT !.pc = "stale"] ELSE f[h]]

-----------------------------------------------------------------------------
(* The operator.                                                           *)

\* handleCreateJoinToken.
Mint(k) ==
  /\ token[k] = "unused" /\ \A j \in 1..k - 1 : token[j] # "unused"
  /\ token' = [token EXCEPT ![k] = "open"]
  /\ handler' = Outdated(handler)
  /\ UNCHANGED <<limiterVars, agents, revoked, run, conf, faults>>

\* The invitation's hour is over, which only a request that comes later notices.
Expire(k) ==
  /\ token[k] = "open"
  /\ GoesWrong
  /\ token' = [token EXCEPT ![k] = "expired"]
  /\ UNCHANGED <<limiterVars, agents, revoked, handler, run, conf>>

\* handleRevokeAgent.
RevokeAgent(a) ==
  /\ a \in agents \ revoked
  /\ GoesWrong
  /\ revoked' = revoked \cup {a}
  /\ handler' = Outdated(handler)
  /\ UNCHANGED <<limiterVars, token, agents, run, conf>>

\* A mutation: an existing configuration does not need --force.
JoinAgain(m, k, h, c) ==
  /\ run[m] = Idle
  /\ handler[h] = Idle /\ \A g \in 1..h - 1 : handler[g] # Idle
  /\ token[k] # "unused"
  /\ \/ /\ Allow(c, TRUE)
        /\ run' = [run EXCEPT ![m] = [pc |-> "wait", on |-> h]]
        /\ Goto(h, [pc |-> "begin", token |-> k])
     \/ Allow(c, FALSE) /\ UNCHANGED <<run, handler>>
  /\ UNCHANGED <<token, agents, revoked, conf, faults>>

\* runJoin up to the request, and the limiter, which answers 429 or lets it in.  An
\* existing file needs --force, which the operator gives when the machine is not
\* enrolled; joining again is a mistake.
StartJoin(m, k, h, c) ==
  /\ run[m] = Idle
  /\ handler[h] = Idle /\ \A g \in 1..h - 1 : handler[g] # Idle
  /\ token[k] # "unused"
  /\ IF Enrolled(m) THEN GoesWrong ELSE UNCHANGED faults
  /\ \/ /\ Allow(c, TRUE)
        /\ run' = [run EXCEPT ![m] = [pc |-> "wait", on |-> h]]
        /\ Goto(h, [pc |-> "begin", token |-> k])
     \/ Allow(c, FALSE) /\ UNCHANGED <<run, handler>>
  /\ UNCHANGED <<token, agents, revoked, conf>>

-----------------------------------------------------------------------------
(* The server.                                                             *)

\* RedeemJoinToken up to its checks: one answer for spent, expired and unknown.
Begin(h) ==
  /\ handler[h].pc = "begin"
  /\ Goto(h, IF token[handler[h].token] = "open"
             THEN [handler[h] EXCEPT !.pc = "exchange"] ELSE [pc |-> "refuse"])
  /\ UNCHANGED <<limiterVars, token, agents, revoked, run, conf, faults>>

\* A mutation: the insertion fails and the rest is committed.
ExchangeHalf(h) ==
  /\ handler[h].pc = "exchange"
  /\ token' = [token EXCEPT ![handler[h].token] = "spent"]
  /\ Goto(h, [pc |-> "grant", agent |-> [token |-> handler[h].token, by |-> h]])
  /\ UNCHANGED <<limiterVars, agents, revoked, run, conf, faults>>

\* A mutation: a transaction on an old snapshot waits for ever.
ExchangeWaits(h) ==
  LET a == [token |-> handler[h].token, by |-> h]
  IN  /\ handler[h].pc = "exchange"
      /\ token' = [token EXCEPT ![a.token] = "spent"]
      /\ agents' = agents \cup {a}
      /\ handler' = [Outdated(handler) EXCEPT ![h] = [pc |-> "grant", agent |-> a]]
      /\ UNCHANGED <<limiterVars, revoked, run, conf, faults>>

\* A mutation: the token is updated and the agent inserted without a transaction.
ExchangeInTwo(h) ==
  LET a == [token |-> handler[h].token, by |-> h]
  IN  /\ handler[h].pc \in {"exchange", "stale"}
      /\ token' = [token EXCEPT ![a.token] = "spent"]
      /\ agents' = agents \cup {a}
      /\ Goto(h, [pc |-> "grant", agent |-> a])
      /\ UNCHANGED <<limiterVars, revoked, run, conf, faults>>

\* Its two writes and the commit: both or neither.  The first transaction to
\* write wins, a write on an old snapshot is refused.
Exchange(h) ==
  LET a == [token |-> handler[h].token, by |-> h]
  IN  \/ /\ handler[h].pc = "exchange"
         /\ token' = [token EXCEPT ![a.token] = "spent"]
         /\ agents' = agents \cup {a}
         /\ handler' = [Outdated(handler) EXCEPT ![h] = [pc |-> "grant", agent |-> a]]
         /\ UNCHANGED <<limiterVars, revoked, run, conf, faults>>
      \/ /\ handler[h].pc = "stale"
         /\ Goto(h, [pc |-> "refuse"])
         /\ UNCHANGED <<limiterVars, token, agents, revoked, run, conf, faults>>

\* Any other commit, or an error of the database, under a join in progress.
Disturb(h) ==
  /\ handler[h].pc = "exchange"
  /\ GoesWrong
  /\ Goto(h, [handler[h] EXCEPT !.pc = "stale"])
  /\ UNCHANGED <<limiterVars, token, agents, revoked, run, conf>>

\* The answer arrives, or finds nobody waiting.
Answer(h) ==
  /\ handler[h].pc \in {"grant", "refuse"}
  /\ Goto(h, Idle)
  /\ run' = [m \in Machines |->
       IF run[m].pc # "wait" \/ run[m].on # h THEN run[m]
       ELSE IF handler[h].pc = "refuse" THEN Idle
       ELSE [pc |-> "truncate", agent |-> handler[h].agent]]
  /\ UNCHANGED <<limiterVars, token, agents, revoked, conf, faults>>

-----------------------------------------------------------------------------
(* The machine.                                                            *)

\* joinTimeout, a lost connection, an answer that cannot be decoded.
GiveUp(m) ==
  /\ run[m].pc = "wait"
  /\ GoesWrong
  /\ run' = [run EXCEPT ![m] = Idle]
  /\ UNCHANGED <<limiterVars, token, agents, revoked, handler, conf>>

\* writeAgentConfig opens the file with O_TRUNC and writes it through viper.
Truncate(m) ==
  /\ run[m].pc = "truncate"
  /\ conf' = [conf EXCEPT ![m] = Empty]
  /\ run' = [run EXCEPT ![m].pc = "write"]
  /\ UNCHANGED <<limiterVars, token, agents, revoked, handler, faults>>

Write(m) ==
  /\ run[m].pc = "write"
  /\ conf' = [conf EXCEPT ![m] = run[m].agent]
  /\ run' = [run EXCEPT ![m] = Idle]
  /\ UNCHANGED <<limiterVars, token, agents, revoked, handler, faults>>

\* The file cannot be written, or the command is interrupted.
FailToWrite(m) ==
  /\ run[m].pc \in {"truncate", "write"}
  /\ GoesWrong
  /\ run' = [run EXCEPT ![m] = Idle]
  /\ UNCHANGED <<limiterVars, token, agents, revoked, handler, conf>>

\* The server dies: open transactions are rolled back, every connection is cut.
Crash ==
  /\ LET cut == Cardinality({m \in Machines : run[m].pc = "wait"})
     IN  GoWrong(IF cut = 0 THEN 1 ELSE cut)
  /\ LimiterRestart
  /\ handler' = [h \in Handlers |-> Idle]
  /\ run' = [m \in Machines |-> IF run[m].pc = "wait" THEN Idle ELSE run[m]]
  /\ UNCHANGED <<token, agents, revoked, conf>>

Tick == LimiterTick /\ UNCHANGED enrolmentVars

\* An attempt that is let in.
Try(m) ==
  /\ ~Enrolled(m)
  /\ \E k \in Tokens, h \in Handlers, c \in Clients :
       token[k] = "open" /\ StartJoin(m, k, h, c) /\ run'[m] # Idle

Next ==
  \/ \E k \in Tokens : Mint(k) \/ Expire(k)
  \/ \E a \in agents : RevokeAgent(a)
  \/ \E m \in Machines, k \in Tokens, h \in Handlers, c \in Clients : StartJoin(m, k, h, c)
  \/ \E h \in Handlers : Begin(h) \/ Exchange(h) \/ Disturb(h) \/ Answer(h)
  \/ \E m \in Machines : GiveUp(m) \/ Truncate(m) \/ Write(m) \/ FailToWrite(m)
  \/ Crash \/ Tick

\* Handlers and commands run to their end, time passes; the operator mints invitations and
\* tries them on a machine that is not enrolled until it is.
Fairness ==
  /\ WF_vars(Tick)
  /\ \A k \in Tokens : WF_vars(Mint(k))
  /\ \A h \in Handlers : WF_vars(Begin(h)) /\ WF_vars(Exchange(h)) /\ WF_vars(Answer(h))
  /\ \A m \in Machines : SF_vars(Try(m)) /\ WF_vars(Truncate(m)) /\ WF_vars(Write(m))

Spec == Init /\ [][Next]_vars /\ Fairness

-----------------------------------------------------------------------------
(* Properties.                                                             *)

\* Every variable keeps its type.
TypeOK ==
  /\ LimiterTypeOK
  /\ token \in [Tokens -> {"unused", "open", "expired", "spent"}]
  /\ agents \subseteq Agent
  /\ revoked \subseteq agents
  /\ handler \in [Handlers -> Handler]
  /\ run \in [Machines -> Run]
  /\ conf \in [Machines -> {Absent, Empty} \cup agents]
  /\ faults \in 0..Faults

\* An invitation admits one credential and is spent by the same act, however many
\* requests present it at once and whatever fails: the transaction of
\* RedeemJoinToken implements the atomic exchange its comment describes.
Admits == INSTANCE Admission WITH
  Agents <- Agent,
  fresh <- {k \in Tokens : token[k] = "unused"},
  unspent <- {k \in Tokens : token[k] \in {"open", "expired"}},
  admitted <- [k \in Tokens |-> {a \in agents : a.token = k}]
ImplementsAdmission == Admits!Spec

\* The limiter lets in what one that forgets nobody would, but for what the sweep gives
\* away: it drops a bucket once its client has asked for nothing for the whole seconds of
\* the time that fills it, when the refill of less than a second may be missing; for a rate
\* whose buckets fill in whole seconds, nothing.  And nobody is refused who has a token.
Limits == INSTANCE TokenBucket WITH
  Capacity <- Full,
  Price <- PerToken,
  Grace <- Full % Second,
  Requests <- Handlers,
  level <- [c \in Clients |-> Level(c)],
  quiet <- [c \in Clients |-> Quiet(c)],
  served <- {h \in Handlers : handler[h] # Idle}
ImplementsTokenBucket == Limits!Spec

\* A credential still valid that no machine holds and none will receive.
Lost ==
  {a \in agents \ revoked :
     /\ \A m \in Machines : conf[m] # a /\ ~(run[m].pc \in {"truncate", "write"} /\ run[m].agent = a)
     /\ \A h \in Handlers : handler[h].pc = "grant" /\ handler[h].agent = a =>
          \A m \in Machines : run[m].pc = "wait" => run[m].on # h}

\* A fault costs one credential at most: a retry after a lost answer, a failed
\* write or a join repeated by mistake never leaves more valid credentials behind
\* that nobody holds than things went wrong.
LostPerFault == Cardinality(Lost) <= faults

\* With an invitation to spare for every fault, every machine is enrolled in the end.
Enrols == <>[](\A m \in Machines : Enrolled(m))
=============================================================================
