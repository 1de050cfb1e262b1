------------------------------- MODULE Paging -------------------------------
(***************************************************************************)
(* From a transition of the alert evaluator to the people it pages:        *)
(* evaluateAndRecord and notifiable in internal/server/ingest.go, the      *)
(* local loop of cmd/daemon/main.go and the Dispatcher of                  *)
(* internal/alerting/notify.go, composed with RuleAdmin, which an operator *)
(* drives meanwhile.                                                       *)
(*                                                                         *)
(* A sample of an agent is evaluated under the time read before, the mutes *)
(* are then read from the database, and what is not muted goes to a        *)
(* goroutine of its own that tries the channels one after another.  The    *)
(* local loop leaves the mutes unread.  Only the path, the acknowledged    *)
(* flag copied with the alert and the position in the channel list matter. *)
(*                                                                         *)
(* muted and owed only observe: no guard reads them.                       *)
(***************************************************************************)
EXTENDS RuleAdmin

CONSTANTS
  Jobs,      \* bound: transitions under way at once
  Channels,  \* how many notifiers are configured
  MaxLag     \* bound: ticks between an evaluation and its reading of the mutes

\* Without a channel Dispatch returns at once.  A lag of two ticks could not tell a
\* mute that is over from one never given.
ASSUME PagingAssumption == Channels \in Nat \ {0} /\ MaxLag \in 0..1

VARIABLES
  job,    \* transitions on their way to the channels
  muted,  \* for each, whether its rule was muted since: "never", "always", "some"; or "unread"
  owed    \* channels a transition no mute touched has still to be tried on

vars == <<row, applied, work, alone, blind, settled, job, muted, owed>>

NoJob == [pc |-> "none"]
Job ==
  {NoJob} \cup [pc : {"filter"}, age : 0..MaxLag, acknowledged : BOOLEAN]
  \cup [pc : {"send"}, path : {"ingest", "local"}, acknowledged : BOOLEAN, next : 1..Channels]

Init ==
  /\ AdminInit
  /\ job = [j \in Jobs |-> NoJob]
  /\ muted = [j \in Jobs |-> "never"]
  /\ owed = [j \in Jobs |-> {}]

\* What is known of a job's mute once row' is stored, when its evaluation lies
\* age ticks back.
Seen(j, age) ==
  CASE muted[j] = "never" /\ Muted(row', age) -> "some"
    [] muted[j] = "always" /\ ~Muted(row', 0) -> "some"
    [] OTHER                                  -> muted[j]

\* The observers after a step that leaves the jobs alone but for their age.
Watch ==
  LET seen(j) == IF job[j].pc = "filter" THEN Seen(j, job'[j].age) ELSE muted[j]
  IN  /\ muted' = [j \in Jobs |-> seen(j)]
      /\ owed' = [j \in Jobs |->
           IF job[j].pc = "filter" /\ seen(j) # "never" THEN {} ELSE owed[j]]

Administer == Handle /\ UNCHANGED job /\ Watch

\* The evaluator returns a transition of an enabled rule.  The ingest path still
\* has the mutes to read (notifiable), the local loop dispatches at once.
Transition(j, path, acknowledged) ==
  /\ applied = "on"
  /\ job[j] = NoJob
  /\ job' = [job EXCEPT ![j] =
       IF path = "ingest"
       THEN [pc |-> "filter", age |-> 0, acknowledged |-> acknowledged]
       ELSE [pc |-> "send", path |-> path, acknowledged |-> acknowledged, next |-> 1]]
  /\ muted' = [muted EXCEPT ![j] = IF Muted(row, 0) THEN "always" ELSE "never"]
  /\ owed' = [owed EXCEPT ![j] =
       IF acknowledged \/ (path = "ingest" /\ Muted(row, 0)) THEN {} ELSE 1..Channels]
  /\ UNCHANGED adminVars

\* A mutation: the transitions are dispatched as the local loop does.
FilterNothing(j) ==
  /\ job[j].pc = "filter"
  /\ job' = [job EXCEPT ![j] = [pc |-> "send", path |-> "ingest",
                               acknowledged |-> job[j].acknowledged, next |-> 1]]
  /\ UNCHANGED <<adminVars, muted, owed>>

\* notifiable and mutedRules: a failed read mutes nothing.
Filter(j) ==
  /\ job[j].pc = "filter"
  /\ \E read \in {row, Absent} :
       /\ job' = [job EXCEPT ![j] =
            IF Muted(read, job[j].age) THEN NoJob
            ELSE [pc |-> "send", path |-> "ingest",
                  acknowledged |-> job[j].acknowledged, next |-> 1]]
       /\ muted' = [muted EXCEPT ![j] =
            CASE job'[j] = NoJob -> "never" [] read = row -> @ [] OTHER -> "unread"]
  /\ UNCHANGED <<adminVars, owed>>

\* A mutation: a channel that fails ends the dispatch.
StopsAtFailure(j) ==
  {NoJob} \cup IF job[j].next < Channels THEN {[job[j] EXCEPT !.next = @ + 1]} ELSE {}

\* The goroutine after one attempt, which may fail or run into notifyTimeout.
AfterChannel(j) ==
  {IF job[j].next < Channels THEN [job[j] EXCEPT !.next = @ + 1] ELSE NoJob}

\* Dispatch: an acknowledged alert is skipped, any other tried on every channel.
Send(j) ==
  /\ job[j].pc = "send"
  /\ \/ /\ job[j].acknowledged
        /\ job' = [job EXCEPT ![j] = NoJob]
        /\ UNCHANGED owed
     \/ /\ ~job[j].acknowledged
        /\ \E after \in AfterChannel(j) : job' = [job EXCEPT ![j] = after]
        /\ owed' = [owed EXCEPT ![j] = @ \ {job[j].next}]
  /\ muted' = [muted EXCEPT ![j] = IF job'[j] = NoJob THEN "never" ELSE @]
  /\ UNCHANGED adminVars

\* Notifications under way are lost with the process.
Crash ==
  /\ Restart
  /\ job' = [j \in Jobs |-> NoJob]
  /\ owed' = [j \in Jobs |-> {}]
  /\ muted' = [j \in Jobs |-> "never"]

Tick ==
  /\ \A j \in Jobs : job[j].pc = "filter" => job[j].age < MaxLag
  /\ AdminTick
  /\ job' = [j \in Jobs |->
       IF job[j].pc = "filter" THEN [job[j] EXCEPT !.age = @ + 1] ELSE job[j]]
  /\ Watch

Next ==
  \/ Administer
  \/ \E j \in Jobs, path \in {"ingest", "local"}, a \in BOOLEAN : Transition(j, path, a)
  \/ \E j \in Jobs : Filter(j) \/ Send(j)
  \/ Crash
  \/ Tick

\* A handler finishes its evaluation and the goroutine it started runs: Go
\* schedules every runnable goroutine, and notifyTimeout ends every attempt.
Spec ==
  Init /\ [][Next]_vars /\ \A j \in Jobs : WF_vars(Filter(j)) /\ WF_vars(Send(j))

-----------------------------------------------------------------------------
(* Properties.                                                             *)

\* Every variable keeps its type while handlers, samples and restarts interleave.
TypeOK ==
  /\ AdminTypeOK
  /\ job \in [Jobs -> Job]
  /\ muted \in [Jobs -> {"never", "always", "some", "unread"}]
  /\ owed \in [Jobs -> SUBSET (1..Channels)]

\* A muted rule stops paging: a transition of an agent's sample whose rule was
\* muted from the evaluation until the mutes were read reaches no channel,
\* whichever requests and restarts went on meanwhile, unless that read failed.
\* (The local loop pages all the same.)
MutedIsQuiet ==
  \A j \in Jobs : job[j].pc = "send" /\ job[j].path = "ingest" => muted[j] # "always"

\* A transition that nobody acknowledged and no mute touched is tried on every
\* channel, also when a channel before it fails or hangs, unless the daemon dies.
EveryChannelTried == \A j \in Jobs : owed[j] # {} ~> owed[j] = {}
=============================================================================
