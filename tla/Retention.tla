----------------------------- MODULE Retention -----------------------------
(***************************************************************************)
(* The tiers of stored history and the maintenance pass that moves samples *)
(* down them: storage/rollup.go, storage/archive.go and the daemon's       *)
(* maintenance.run.                                                        *)
(*                                                                         *)
(* One host.  A sample is the tick it was taken at; a bucket is named by   *)
(* its first tick.  A rollup row is what it was aggregated from (of) and   *)
(* its samples column (n); averages and maxima are functions of these.     *)
(* Every SQL statement and archive file of a pass is a step of its own,    *)
(* may fail, and the daemon may die after it; samples arrive, also late    *)
(* ones, between any two steps.  No tick passes during a pass, which takes *)
(* seconds where the ages are hours: its cutoffs are those of its start.   *)
(*                                                                         *)
(* Everything out of the ordinary (a late sample, an error, a crash, a     *)
(* restore, a change of configuration) costs one of MaxEvents events.      *)
(* accepted, passed, disturbed and horizon only observe.                   *)
(***************************************************************************)
EXTENDS Integers, FiniteSets, FiniteSetsExt

CONSTANTS
  Samples,      \* the ticks at which the host is sampled
  MinuteLen,    \* ticks in a per-minute bucket
  FiveLen,      \* ticks in a per-five-minute bucket
  RawAges,      \* values of database.metrics_retention_hours
  MinuteAges,   \* values of database.minute_rollup_days
  FiveAges,     \* values of database.five_minute_rollup_days
  MaxRows,      \* maxRangeRows
  MaxTime,      \* bound: the last tick
  MaxEvents     \* bound: events out of the ordinary

ASSUME RetentionAssumption ==
  /\ MaxTime \in Nat
  /\ Samples \subseteq 0..MaxTime
  /\ MinuteLen \in Nat \ {0} /\ FiveLen \in Nat \ {0} /\ FiveLen % MinuteLen = 0
  /\ RawAges \cup MinuteAges \cup FiveAges \subseteq Nat \ {0}
  /\ MaxRows \in Nat \ {0} /\ MaxEvents \in Nat

VARIABLES
  now,
  raw,        \* table metrics
  minute,     \* the 1m rows of metric_rollups, by bucket
  five,       \* the 5m rows
  files,      \* finished archives: a tier and its rows
  pc,         \* the next step of the maintenance pass
  policy,     \* the retention the pass read when it started, and archive_path
  accepted,   \* every sample ever stored
  passed,     \* samples before this tick were due for some rollup
  disturbed,  \* five-minute buckets that a cutoff split or that grew late
  horizon,    \* five-minute buckets before this tick left the last tier
  events      \* events out of the ordinary so far

tiers == <<raw, minute, five>>
observers == <<passed, disturbed, horizon>>
vars == <<now, tiers, files, pc, policy, accepted, observers, events>>

Event == events < MaxEvents /\ events' = events + 1

MinuteOf(t) == (t \div MinuteLen) * MinuteLen
FiveOf(t) == (t \div FiveLen) * FiveLen
Minutes == {MinuteOf(t) : t \in 0..MaxTime}
Fives == {FiveOf(t) : t \in 0..MaxTime}

NoRow == [n |-> 0, of |-> {}]
Present(rows) == {b \in DOMAIN rows : rows[b] # NoRow}

\* validateRuntime: the five-minute tier lasts at least as long as the minute
\* tier; nothing relates the raw tier to the two.
Policies ==
  {p \in [raw : RawAges, minute : MinuteAges, five : FiveAges, archive : BOOLEAN] :
     p.five >= p.minute}

RawCutoff == now - policy.raw
MinuteCutoff == now - policy.minute
FiveCutoff == now - policy.five

Steps == {"idle", "rollMinutes", "rollFives", "writeMinutes", "deleteMinutes",
          "writeFives", "deleteFives", "pruneRaw", "pruneMinutes", "pruneFives"}

Init ==
  /\ now = 0
  /\ raw = {}
  /\ minute = [b \in Minutes |-> NoRow]
  /\ five = [b \in Fives |-> NoRow]
  /\ files = {}
  /\ pc = "idle"
  /\ policy \in Policies
  /\ accepted = {}
  /\ passed = 0
  /\ disturbed = {}
  /\ horizon = 0
  /\ events = 0

-----------------------------------------------------------------------------
\* A sample is stored, at once or with a backlog that arrives late.
Store(s) ==
  /\ s <= now
  /\ s \notin accepted
  /\ raw' = raw \cup {s}
  /\ accepted' = accepted \cup {s}
  /\ IF s < passed
     THEN disturbed' = disturbed \cup {FiveOf(s)} /\ Event
     ELSE UNCHANGED <<disturbed, events>>
  /\ UNCHANGED <<now, minute, five, files, pc, policy, passed, horizon>>

Tick ==
  /\ pc = "idle"
  /\ now < MaxTime
  /\ now' = now + 1
  /\ UNCHANGED <<tiers, files, pc, policy, accepted, observers, events>>

\* run reads the policy.  An operator may have changed it since the last pass,
\* at run time or by a restart with another configuration.
Begin ==
  /\ pc = "idle"
  /\ \/ UNCHANGED <<policy, events>>
     \/ policy' \in Policies \ {policy} /\ Event
  /\ pc' = "rollMinutes"
  /\ UNCHANGED <<now, tiers, files, accepted, observers>>

-----------------------------------------------------------------------------
(* Rollup.                                                                 *)

\* A mutation: a bucket that already has a row is added to.
Accumulated(rows, new) ==
  [b \in DOMAIN rows |-> [n |-> rows[b].n + new[b].n, of |-> rows[b].of \cup new[b].of]]

\* INSERT OR REPLACE of the rows that a SELECT produced.
Replaced(rows, new) == [b \in DOMAIN rows |-> IF new[b] # NoRow THEN new[b] ELSE rows[b]]

\* A mutation: a timestamp is rounded to a minute, not truncated.
RoundedRows ==
  [b \in Minutes |->
     LET of == {s \in raw : s < RawCutoff /\ MinuteOf(s + MinuteLen \div 2) = b}
     IN  [n |-> Cardinality(of), of |-> of]]

\* GROUP BY minute over the raw samples below the cutoff.
MinuteRows ==
  [b \in Minutes |->
     LET of == {s \in raw : s < RawCutoff /\ MinuteOf(s) = b}
     IN  [n |-> Cardinality(of), of |-> of]]

\* GROUP BY five minutes over the minute rows below the cutoff.
FiveRows ==
  [b \in Fives |->
     LET src == {m \in Minutes : FiveOf(m) = b /\ m < MinuteCutoff /\ minute[m].n > 0}
     IN  [n  |-> MapThenSumSet(LAMBDA m : minute[m].n, src),
          of |-> UNION {minute[m].of : m \in src}]]

\* The five-minute bucket that the cutoff c divides.
Split(c) == IF c % FiveLen = 0 THEN {} ELSE {FiveOf(c)} \cap Fives

RollMinutes ==
  /\ pc = "rollMinutes"
  /\ minute' = Replaced(minute, MinuteRows)
  /\ pc' = "rollFives"
  /\ passed' = IF RawCutoff > passed THEN RawCutoff ELSE passed
  /\ disturbed' = disturbed \cup Split(RawCutoff)
  /\ UNCHANGED <<now, raw, five, files, policy, accepted, horizon, events>>

RollFives ==
  /\ pc = "rollFives"
  /\ five' = Replaced(five, FiveRows)
  /\ pc' = "writeMinutes"
  /\ disturbed' = disturbed \cup Split(MinuteCutoff)
  /\ UNCHANGED <<now, raw, minute, files, policy, accepted, passed, horizon, events>>

\* A mutation: run prunes whether or not the rollup succeeded.
AfterFailedRollup(step) == IF step \in {"rollMinutes", "rollFives"} THEN "pruneRaw" ELSE "idle"

\* After an error in Rollup the pass skips PruneTiers, and an error in
\* PruneTiers ends it.
AfterError(step) == "idle"

\* A statement of Rollup or PruneTiers fails.
Fail ==
  /\ pc \in {"rollMinutes", "rollFives", "pruneRaw", "pruneMinutes", "pruneFives"}
  /\ pc' = AfterError(pc)
  /\ Event
  /\ UNCHANGED <<now, tiers, files, policy, accepted, observers>>

\* The daemon dies; its next start begins a pass of its own.
Crash ==
  /\ pc # "idle"
  /\ pc' = "idle"
  /\ Event
  /\ UNCHANGED <<now, tiers, files, policy, accepted, observers>>

-----------------------------------------------------------------------------
(* ArchiveTier, for the minute tier and then for the five-minute tier.     *)

\* The oldest rows up to and including the cutoff, at most MaxRows of them.
Archived(rows, cutoff) ==
  [b \in DOMAIN rows |->
     IF b <= cutoff /\ Cardinality({o \in Present(rows) : o < b}) < MaxRows
     THEN rows[b] ELSE NoRow]

Emptied(rows, cutoff) == [b \in DOMAIN rows |-> IF b <= cutoff THEN NoRow ELSE rows[b]]

\* A mutation: the rows are deleted although the file was not written.
AfterLostFile(step) ==
  CASE step = "writeMinutes"  -> "deleteMinutes"
    [] step = "deleteMinutes" -> "writeFives"
    [] step = "writeFives"    -> "deleteFives"
    [] step = "deleteFives"   -> "pruneRaw"

\* archive goes on with the next tier, and run with PruneTiers.
AfterArchiveError(step) ==
  IF step \in {"writeMinutes", "deleteMinutes"} THEN "writeFives" ELSE "pruneRaw"

\* A file is renamed into place, for a tier that has rows to archive.
Write(step, next, tier, rows, cutoff) ==
  /\ pc = step
  /\ policy.archive
  /\ Present(Archived(rows, cutoff)) # {}
  /\ files' = files \cup {[tier |-> tier, rows |-> Archived(rows, cutoff)]}
  /\ pc' = next
  /\ UNCHANGED <<now, tiers, policy, accepted, passed, horizon, events>>

\* Unlike the rollup, the archive includes a row at the cutoff itself: it divides
\* the five-minute bucket of the cutoff, in the file and by the deletion.
WriteMinutes ==
  /\ Write("writeMinutes", "deleteMinutes", "1m", minute, MinuteCutoff)
  /\ disturbed' = disturbed \cup ({FiveOf(MinuteCutoff)} \cap Fives)

WriteFives ==
  /\ Write("writeFives", "deleteFives", "5m", five, FiveCutoff)
  /\ UNCHANGED disturbed

\* An error in ArchiveTier.
ArchiveFails ==
  /\ pc \in {"writeMinutes", "deleteMinutes", "writeFives", "deleteFives"}
  /\ Event
  /\ pc' = AfterArchiveError(pc)
  /\ UNCHANGED <<now, tiers, files, policy, accepted, observers>>

\* No archive path, or a tier with nothing to archive.
NotArchived ==
  /\ \/ pc = "writeMinutes" /\ (~policy.archive \/ Present(Archived(minute, MinuteCutoff)) = {})
     \/ pc = "writeFives" /\ (~policy.archive \/ Present(Archived(five, FiveCutoff)) = {})
  /\ pc' = IF pc = "writeMinutes" THEN "writeFives" ELSE "pruneRaw"
  /\ UNCHANGED <<now, tiers, files, policy, accepted, observers, events>>

DeleteMinutes ==
  /\ pc = "deleteMinutes"
  /\ minute' = Emptied(minute, MinuteCutoff)
  /\ pc' = "writeFives"
  /\ UNCHANGED <<now, raw, five, files, policy, accepted, observers, events>>

DeleteFives ==
  /\ pc = "deleteFives"
  /\ five' = Emptied(five, FiveCutoff)
  /\ pc' = "pruneRaw"
  /\ horizon' = IF FiveCutoff + 1 > horizon THEN FiveCutoff + 1 ELSE horizon
  /\ UNCHANGED <<now, raw, minute, files, policy, accepted, passed, disturbed, events>>

\* sys-sentient --restore-archive: one transaction of another process.
Restore(f) ==
  /\ IF f.tier = "1m"
     THEN minute' = Replaced(minute, f.rows) /\ UNCHANGED five
     ELSE five' = Replaced(five, f.rows) /\ UNCHANGED minute
  /\ Event
  /\ UNCHANGED <<now, raw, files, pc, policy, accepted, observers>>

-----------------------------------------------------------------------------
(* PruneTiers.                                                             *)

PruneRaw ==
  /\ pc = "pruneRaw"
  /\ raw' = {s \in raw : s >= RawCutoff}
  /\ pc' = "pruneMinutes"
  /\ UNCHANGED <<now, minute, five, files, policy, accepted, observers, events>>

PruneMinutes ==
  /\ pc = "pruneMinutes"
  /\ minute' = Emptied(minute, MinuteCutoff - 1)
  /\ pc' = "pruneFives"
  /\ UNCHANGED <<now, raw, five, files, policy, accepted, observers, events>>

PruneFives ==
  /\ pc = "pruneFives"
  /\ five' = Emptied(five, FiveCutoff - 1)
  /\ pc' = "idle"
  /\ horizon' = IF FiveCutoff > horizon THEN FiveCutoff ELSE horizon
  /\ UNCHANGED <<now, raw, minute, files, policy, accepted, passed, disturbed, events>>

Next ==
  \/ \E s \in Samples : Store(s)
  \/ Tick \/ Begin \/ Crash \/ Fail
  \/ RollMinutes \/ RollFives
  \/ WriteMinutes \/ DeleteMinutes \/ WriteFives \/ DeleteFives \/ NotArchived \/ ArchiveFails
  \/ PruneRaw \/ PruneMinutes \/ PruneFives
  \/ \E f \in files : Restore(f)

Spec == Init /\ [][Next]_vars

-----------------------------------------------------------------------------
(* Properties.                                                             *)

\* Every variable keeps its type; a row holds samples of its own bucket only.
TypeOK ==
  /\ now \in 0..MaxTime
  /\ raw \subseteq Samples
  /\ DOMAIN minute = Minutes /\ DOMAIN five = Fives
  /\ \A b \in Minutes : /\ minute[b].n \in Nat
                        /\ \A s \in minute[b].of : s \in Samples /\ MinuteOf(s) = b
  /\ \A b \in Fives : /\ five[b].n \in Nat
                      /\ \A s \in five[b].of : s \in Samples /\ FiveOf(s) = b
  /\ \A f \in files : f.tier \in {"1m", "5m"}
  /\ pc \in Steps
  /\ policy \in Policies
  /\ accepted \subseteq Samples
  /\ passed \in 0..MaxTime
  /\ disturbed \subseteq Fives
  /\ horizon \in 0..(MaxTime + 1)
  /\ events \in 0..MaxEvents

\* Rollup is idempotent: however often a pass is cut off and repeated, and
\* whatever is restored, no row counts a sample twice.
NoDoubleCount ==
  /\ \A b \in Minutes : minute[b].n = Cardinality(minute[b].of)
  /\ \A b \in Fives : five[b].n = Cardinality(five[b].of)

Queryable == raw \cup (UNION {minute[b].of : b \in Minutes}) \cup (UNION {five[b].of : b \in Fives})

\* A sample inside the retention is in some tier, wherever a pass failed or was
\* cut off and whatever was restored: passes lose samples only in a five-minute
\* bucket that a cutoff divided, or to which samples came after its rollup.
LossOnlyAtEdges ==
  \A s \in accepted : s \in Queryable \/ FiveOf(s) \in disturbed \/ FiveOf(s) < horizon

\* archive.go: written before anything is deleted.  Every row the archiver
\* removes is in an archive file as it was.
InSomeFile(tier, b, row) == \E f \in files : f.tier = tier /\ f.rows[b] = row
ArchivedBeforeDeleted ==
  [][/\ pc = "deleteMinutes" =>
          \A b \in Present(minute) \ Present(minute') : InSomeFile("1m", b, minute[b])
     /\ pc = "deleteFives" =>
          \A b \in Present(five) \ Present(five') : InSomeFile("5m", b, five[b])]_vars

\* rollup.go: the five-minute tier is the only one where data leaves the system.
\* So a sample is in some tier, or at least in an archive, until it is past the
\* end of the five-minute tier, with its bucket.  (A bucket that a cutoff divides
\* is rolled up twice, and the second row replaces the first.)
KeptToTheEnd ==
  \A s \in accepted :
    s \in Queryable \cup (UNION {UNION {f.rows[b].of : b \in DOMAIN f.rows} : f \in files})
    \/ FiveOf(s) < horizon
=============================================================================
