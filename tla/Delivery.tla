------------------------------ MODULE Delivery ------------------------------
(***************************************************************************)
(* The path of a sample from an agent to the server's database: the        *)
(* agent's main loop and spool (internal/agent), the request on the wire   *)
(* and the ingest handler (internal/server/ingest.go) with its single      *)
(* SaveBatch transaction.                                                  *)
(*                                                                         *)
(* Samples are numbered as they are collected.  The agent loop handles one *)
(* tick at a time, so nothing is appended while a flush waits for its      *)
(* answer.  A request the agent gave up on may still reach the server and  *)
(* is served late.  A crash kills a process, not the machine: what was     *)
(* written to the spool file stays.                                        *)
(*                                                                         *)
(* Everything that goes wrong (a lost or slow message, a failed write, a   *)
(* failed transaction, a crash) costs one of MaxFaults faults.             *)
(***************************************************************************)
EXTENDS Integers, Sequences, Functions

CONSTANTS
  Capacity,    \* Spool.capacity
  BatchSize,   \* Client.batchSize
  MaxSamples,  \* bound: samples collected
  MaxFaults    \* bound: faults

ASSUME DeliveryAssumption ==
  /\ Capacity \in Nat \ {0}
  /\ BatchSize \in Nat \ {0}
  /\ MaxSamples \in Nat
  /\ MaxFaults \in Nat

VARIABLES
  collected,  \* how many samples were collected
  bad,        \* samples ingest rejects: no host id, or a time zero or too far ahead
  file,       \* what decodeSpool finds in the spool file
  torn,       \* the file does not end with a newline
  count,      \* Spool.count, Unknown until it is resolved
  sending,    \* the batch of the Flush in progress; <<>> between flushes
  answer,     \* what became of its request
  late,       \* requests given up on that may still reach the server
  admitted,   \* the server accepts the agent's credential
  copies,     \* rows of each sample in the metrics table
  refused,    \* samples some ingest counted as rejected
  evaluated,  \* the sample the alert evaluator saw last, 0 for none
  faults      \* faults so far

agentVars == <<collected, file, torn, count>>
serverVars == <<copies, refused, evaluated>>
vars == <<collected, bad, file, torn, count, sending, answer, late, admitted,
          copies, refused, evaluated, faults>>

Samples == 1..MaxSamples
Unknown == -1
Answers == {"none", "lost", "ok", "bad request", "denied", "error"}

Fault == faults < MaxFaults /\ faults' = faults + 1

Slack == IF Capacity \div 10 < 1 THEN 1 ELSE Capacity \div 10

\* Peek, Commit and the compaction of Append, on what the file holds.
Oldest(n, s) == SubSeq(s, 1, IF n < Len(s) THEN n ELSE Len(s))
Without(n, s) == IF n >= Len(s) THEN <<>> ELSE SubSeq(s, n + 1, Len(s))
Newest(n, s) == IF Len(s) > n THEN SubSeq(s, Len(s) - n + 1, Len(s)) ELSE s

Init ==
  /\ collected = 0
  /\ bad = {}
  /\ file = <<>>
  /\ torn = FALSE
  /\ count = Unknown
  /\ sending = <<>>
  /\ answer = "none"
  /\ late = {}
  /\ admitted = TRUE
  /\ copies = [s \in Samples |-> 0]
  /\ refused = {}
  /\ evaluated = 0
  /\ faults = 0

-----------------------------------------------------------------------------
(* The agent collects and spools.                                          *)

\* A mutation: the sample runs on from a torn last line and is lost with it.
WrittenOnTornLine == IF torn THEN file ELSE Append(file, collected + 1)

\* The file with the new sample on a line of its own.
Written == Append(file, collected + 1)

Known == IF count = Unknown THEN Len(file) ELSE count

\* The host takes its next sample, which the server will find valid or not.
Collect ==
  /\ sending = <<>>
  /\ collected < MaxSamples
  /\ collected' = collected + 1
  /\ bad' \in {bad, bad \cup {collected + 1}}
  /\ UNCHANGED <<sending, answer, late, admitted, serverVars>>

\* A mutation: compaction is late by one.
OverflowsLate == Known > Capacity + Slack

Overflows == Known + 1 > Capacity + Slack

Enqueue ==
  /\ Collect
  /\ file' = IF Overflows THEN Newest(Capacity, Written) ELSE Written
  /\ count' = IF Overflows THEN Len(file') ELSE Known + 1
  /\ torn' = FALSE
  /\ UNCHANGED faults

\* Opening, writing or closing the file fails, or the agent dies in between:
\* the line, part of it or only the newline before it may be in the file.
EnqueueFails ==
  /\ Collect
  /\ Fault
  /\ file' \in {file, Written}
  /\ torn' \in BOOLEAN
  /\ count' \in {Known, Unknown}

\* The sample is written but the compaction it triggers fails or is cut off.
CompactFails ==
  /\ Collect
  /\ Overflows
  /\ Fault
  /\ file' = Written
  /\ torn' = FALSE
  /\ count' \in {Known + 1, Unknown}

-----------------------------------------------------------------------------
(* The agent flushes.                                                      *)

Flush ==
  /\ sending = <<>>
  /\ file # <<>>
  /\ sending' = Oldest(BatchSize, file)
  /\ UNCHANGED <<agentVars, bad, answer, late, admitted, serverVars, faults>>

\* The call ends; a request that is still under way may be served later.
EndCall ==
  /\ sending' = <<>>
  /\ answer' = "none"
  /\ late' = IF answer = "none" /\ sending # <<>>
             THEN late \cup {[no |-> faults, batch |-> sending]}
             ELSE late

\* A mutation: the batch leaves from the wrong end.
CommittedNewest(n) == SubSeq(file, 1, Len(file) - n)

Committed(n) == Without(n, file)

\* A mutation: the cached count is adjusted without having been resolved.
CommittedCountAdjusted(n) == count - n

CommittedCount(n) == Len(Committed(n))

\* A mutation: a batch with rejected samples is kept and sent again.
AcknowledgedInFull == answer = "ok" /\ \A i \in 1..Len(sending) : sending[i] \notin bad

\* push returns without an error: a 2xx, whatever its body says.
Acknowledged == answer = "ok"

TakeReply ==
  /\ answer \in {"ok", "bad request", "denied", "error"}
  /\ EndCall
  /\ IF Acknowledged
     THEN /\ file' = Committed(Len(sending))
          /\ count' = CommittedCount(Len(sending))
          /\ torn' = FALSE
     ELSE UNCHANGED <<file, count, torn>>
  /\ UNCHANGED <<collected, bad, admitted, serverVars, faults>>

\* Reading, rewriting or renaming the spool fails, or the agent dies first.
CommitFails ==
  /\ Acknowledged
  /\ Fault
  /\ EndCall
  /\ count' \in {count, Unknown}
  /\ UNCHANGED <<collected, file, torn, bad, admitted, serverVars>>

\* A mutation: the HTTP client has no timeout.
TimeOutNever == FALSE /\ UNCHANGED vars

\* Nothing will answer any more: connection error or client timeout.
TimeOut ==
  /\ answer = "lost"
  /\ EndCall
  /\ UNCHANGED <<agentVars, bad, admitted, serverVars, faults>>

\* The client stops waiting although the request or its answer is under way:
\* a timeout, a broken connection, or the shutdown signal cancels the request.
GiveUp ==
  /\ sending # <<>>
  /\ answer # "lost"
  /\ Fault
  /\ EndCall
  /\ UNCHANGED <<agentVars, bad, admitted, serverVars>>

Crash ==
  /\ Fault
  /\ EndCall
  /\ count' = Unknown
  /\ UNCHANGED <<collected, file, torn, bad, admitted, serverVars>>

-----------------------------------------------------------------------------
(* The server.                                                             *)

Valid(batch) == Range(batch) \ bad

\* The database holds stored of the batch after SaveBatch; the newest valid
\* sample of the batch goes to the evaluator.
Save(batch, stored) ==
  /\ copies' = [s \in Samples |-> IF s \in stored THEN copies[s] + 1 ELSE copies[s]]
  /\ refused' = refused \cup (Range(batch) \ stored)
  /\ IF Valid(batch) = {} THEN evaluated' = evaluated
     ELSE evaluated' \in Valid(batch) /\ \A s \in Valid(batch) : s <= evaluated'

Status(stored) == IF stored = {} THEN "bad request" ELSE "ok"

\* authenticateAgent and handleIngest.  A failed insert is skipped; a failed
\* commit, or a failed lookup of the credential, leaves nothing behind.
Ingest(batch, status) ==
  \/ /\ ~admitted
     /\ status = "denied"
     /\ UNCHANGED <<serverVars, faults>>
  \/ /\ admitted
     /\ status = Status(Valid(batch))
     /\ Save(batch, Valid(batch))
     /\ UNCHANGED faults
  \/ /\ admitted
     /\ Fault
     /\ \E stored \in SUBSET Valid(batch) :
          /\ stored # Valid(batch)
          /\ status = Status(stored)
          /\ Save(batch, stored)
  \/ /\ Fault
     /\ status = "error"
     /\ UNCHANGED serverVars

ServeCall ==
  /\ sending # <<>>
  /\ answer = "none"
  /\ \E status \in Answers : Ingest(sending, status) /\ answer' = status
  /\ UNCHANGED <<agentVars, bad, sending, late, admitted>>

ServeLate ==
  /\ \E m \in late : /\ \E status \in Answers : Ingest(m.batch, status)
                     /\ late' = late \ {m}
  /\ UNCHANGED <<agentVars, bad, sending, answer, admitted>>

\* The request is lost before the server acts on it.
Lose ==
  /\ sending # <<>>
  /\ answer = "none"
  /\ Fault
  /\ answer' = "lost"
  /\ UNCHANGED <<agentVars, bad, sending, late, admitted, serverVars>>

-----------------------------------------------------------------------------
(* Their surroundings.                                                     *)

\* An operator revokes the agent, or enrols the machine again, which takes a
\* new start of the agent.
Revoke ==
  /\ admitted
  /\ admitted' = FALSE
  /\ UNCHANGED <<agentVars, bad, sending, answer, late, serverVars, faults>>

Rejoin ==
  /\ ~admitted
  /\ sending = <<>>
  /\ admitted' = TRUE
  /\ count' = Unknown
  /\ UNCHANGED <<collected, file, torn, bad, sending, answer, late, serverVars, faults>>

\* Time passes a sample whose clock was ahead.
Ripen ==
  /\ \E s \in bad : bad' = bad \ {s}
  /\ UNCHANGED <<agentVars, sending, answer, late, admitted, serverVars, faults>>

Next ==
  \/ Enqueue \/ EnqueueFails \/ CompactFails
  \/ Flush \/ TakeReply \/ CommitFails \/ TimeOut \/ GiveUp \/ Crash
  \/ ServeCall \/ ServeLate \/ Lose
  \/ Revoke \/ Rejoin \/ Ripen

Spec == Init /\ [][Next]_vars

\* The flush ticker, the client's timeout, and a server that answers what
\* reaches it.
Fairness ==
  WF_vars(Flush) /\ WF_vars(TimeOut) /\ WF_vars(TakeReply) /\ WF_vars(ServeCall)

LiveSpec == Spec /\ Fairness

-----------------------------------------------------------------------------
(* Properties.                                                             *)

\* Every variable keeps its type; the spool's cached count is Unknown or a
\* number of lines.
TypeOK ==
  /\ collected \in 0..MaxSamples
  /\ bad \subseteq Samples
  /\ file \in Seq(Samples)
  /\ torn \in BOOLEAN
  /\ count \in Nat \cup {Unknown}
  /\ sending \in Seq(Samples)
  /\ answer \in Answers
  /\ late \subseteq [no : 0..MaxFaults, batch : Seq(Samples)]
  /\ admitted \in BOOLEAN
  /\ copies \in [Samples -> Nat]
  /\ refused \subseteq Samples
  /\ evaluated \in 0..MaxSamples
  /\ faults \in 0..MaxFaults

Kept == {s \in Samples : copies[s] > 0}

\* The spool and the ingest handler implement Relay: no crash, lost message or
\* failed write makes a sample leave the spool before the server kept or refused
\* it, unless the spool was over capacity; and then the oldest go.  A sample that
\* Enqueue took without an error is in the spool.
Abstract == INSTANCE Relay WITH
  taken <- collected,
  pending <- file,
  kept <- Kept,
  refused <- refused,
  failures <- faults
ImplementsRelay == Abstract!Spec

\* The spool file stays bounded however long the server is away: each failure
\* lets it drift by at most one sample, and compaction makes up for the drift.
Bounded == Len(file) <= Capacity + Slack + faults

\* A sample is stored twice only because something failed in between.
Duplicates == \A s \in Samples : copies[s] <= 1 + faults

\* The alert evaluator sees an older sample after a newer one only when a
\* request the agent had given up on is served late.
Ordered == [][evaluated' < evaluated => late' # late]_vars

\* Samples do not stay in the spool for ever, unless the agent is revoked or
\* everything in the next batch is rejected.
Blocked == ~admitted \/ Valid(Oldest(BatchSize, file)) = {}
Drains ==
  \A s \in Samples : s \in Range(file) ~> s \notin Range(file) \/ Blocked

\* The strengthening that makes TypeOK, Bounded and the refinement inductive.  The
\* cached count is behind the file by no more than what failed; the batch on its
\* way is still the head of the spool; an ok answers for the whole batch; and
\* nothing is under way that was not collected.
CountAgrees == count # Unknown => count <= Len(file) /\ Len(file) <= count + faults
BatchIsHead ==
  /\ Len(sending) <= Len(file)
  /\ \A i \in 1..Len(sending) : sending[i] = file[i]
AnswerHolds ==
  /\ answer # "none" => sending # <<>>
  /\ answer = "ok" =>
       \A i \in 1..Len(sending) : copies[sending[i]] > 0 \/ sending[i] \in refused
OnlyCollected ==
  /\ file \in Seq(1..collected)
  /\ sending \in Seq(1..collected)
  /\ \A m \in late : m.batch \in Seq(1..collected)

IInv == TypeOK /\ Bounded /\ CountAgrees /\ BatchIsHead /\ AnswerHolds /\ OnlyCollected

\* agent.go: rejected samples (bad clock, missing host id) would otherwise be
\* retried forever, so the whole batch is retired.  (The server answers a batch
\* of nothing but rejected samples with 400, which refutes this.)
RejectedRetired ==
  [][TakeReply /\ Range(sending) \subseteq bad /\ answer # "denied" /\ answer # "error"
       => Range(sending) \cap Range(file') = {}]_vars
=============================================================================
