------------------------------ MODULE History ------------------------------
(***************************************************************************)
(* What the console and an export read back from the tiers of Retention:   *)
(* storage/timerange.go, server/metrics_range.go, handleMetrics and        *)
(* handleExport.                                                           *)
(*                                                                         *)
(* A request is its parsed parameters; the operators below say what it is  *)
(* answered in a state of the tiers, between any two steps of a pass.  An  *)
(* answer is the samples it stands for (of), the tier and the window it is *)
(* labelled with.  The two reads of handleMetrics are one instant.         *)
(***************************************************************************)
EXTENDS Retention

CONSTANTS
  Hour,         \* ticks in the hour that ResolveResolution allows for
  MinuteSpan,   \* the widest window answered from the minute tier
  MaxExport,    \* maxExportRows
  Limits        \* values of the limit parameter, or its default

ASSUME HistoryAssumption ==
  /\ Hour \in Nat \ {0} /\ MinuteSpan \in Nat /\ MinuteSpan >= Hour
  /\ MaxExport \in Nat \ {0} /\ Limits \subseteq Nat \ {0}

\* A request that parseRangeQuery lets pass: the window does not end before it
\* begins, the tier is known and the limit positive.
Asked(from, to, resolution, limit) ==
  [from |-> from, to |-> to, resolution |-> resolution, limit |-> limit]

Clamped(limit) == IF limit > MaxRows THEN MaxRows ELSE limit

\* A mutation: the width of the window alone picks the tier.
BySpanOnly(q) ==
  IF q.to - q.from <= Hour THEN "raw" ELSE IF q.to - q.from <= MinuteSpan THEN "1m" ELSE "5m"

\* The tier that answers a window if the request names none.
Resolved(q) ==
  CASE q.resolution # "auto" -> q.resolution
    [] q.resolution = "auto" /\ q.from > RawCutoff + Hour /\ q.to - q.from <= Hour -> "raw"
    [] OTHER -> IF q.to - q.from <= MinuteSpan THEN "1m" ELSE "5m"

Within(rows, q) == {r \in rows : q.from <= r /\ r <= q.to}
Rank(r, rows) == Cardinality({o \in rows : o < r})

\* Raw samples of a window, decimated evenly to the limit.
QueryRange(q) ==
  LET in == Within(raw, q)
      stride == (Cardinality(in) + Clamped(q.limit) - 1) \div Clamped(q.limit)
  IN  {s \in in : Rank(s, in) % stride = 0}

\* Rollup rows of a window: the oldest ones, up to the limit.
RollupsRange(rows, q) ==
  LET in == Within(Present(rows), q)
  IN  {b \in in : Rank(b, in) < Clamped(q.limit)}

RollupAnswer(q, resolution) ==
  LET rows == IF resolution = "1m" THEN minute ELSE five
  IN  [resolution |-> resolution, from |-> q.from, to |-> q.to,
       of |-> UNION {rows[b].of : b \in RollupsRange(rows, q)}]

RawAnswer(q) ==
  [resolution |-> "raw", from |-> q.from, to |-> q.to, of |-> QueryRange(q)]

\* The part of a window that the raw tier should still hold.
Covered(q) == [q EXCEPT !.from = IF q.from < RawCutoff THEN RawCutoff ELSE q.from]

\* A mutation: a tier that holds nothing of the window is the last word.
NoFallback(q) ==
  IF Resolved(q) = "raw" THEN RawAnswer(q) ELSE RollupAnswer(q, Resolved(q))

\* handleMetrics: the tier, or if it holds nothing of the window the raw
\* samples of the covered part, which the answer is then labelled with.
Metrics(q) ==
  LET first == IF Resolved(q) = "raw" THEN RawAnswer(q) ELSE RollupAnswer(q, Resolved(q))
      fallback == RawAnswer(Covered(q))
  IN  IF Resolved(q) # "raw" /\ first.of = {} /\ q.to > RawCutoff /\ fallback.of # {}
      THEN fallback ELSE first

\* handleExport: the tier the caller names, and nothing else, within a limit of its own
\* and then the one of every read.
ExportLimit(limit) == IF limit > MaxExport THEN MaxExport ELSE limit
Export(request) ==
  LET q == [request EXCEPT !.limit = ExportLimit(@)]
  IN  IF q.resolution = "raw" THEN RawAnswer(q) ELSE RollupAnswer(q, q.resolution)

-----------------------------------------------------------------------------
(* Properties.                                                             *)

\* A sample younger than the raw retention that was stored in time.
Fresh(s) == s >= passed /\ s > RawCutoff

\* A sample that left the raw tier and that no cutoff and no delay put at risk.
Kept(s) == s \notin raw /\ FiveOf(s) \notin disturbed /\ FiveOf(s) >= horizon

InMinuteTier(s) == s \notin raw /\ s \in minute[MinuteOf(s)].of
InFiveTier(s) == s \notin raw \cup minute[MinuteOf(s)].of /\ s \in five[FiveOf(s)].of

Nonempty(from, to) ==
  \A limit \in Limits : Metrics(Asked(from, to, "auto", limit)).of # {}

\* The rows of a rollup tier that an export from a tick on must give before it comes to s.
RowOf(s, tier) == IF tier = "1m" THEN MinuteOf(s) ELSE FiveOf(s)
Ahead(s, tier, from) ==
  {b \in Present(IF tier = "1m" THEN minute ELSE five) : from <= b /\ b < RowOf(s, tier)}

\* One tier's exports have s, unless as many rows as both limits allow come before it.
Exported(s) ==
  \E tier \in {"1m", "5m"} : \A limit \in Limits, from \in 0..RowOf(s, tier) :
    \/ s \in Export(Asked(from, now, tier, limit)).of
    \/ Cardinality(Ahead(s, tier, from)) >= Clamped(ExportLimit(limit))

\* timerange.go: the age of a window decides first, then its width, so that the
\* tier can answer it.  A window over a stored sample is never answered empty,
\* between whatever steps of a pass, whatever failed and however the retention
\* changes: not if the sample is fresh; not if the window reaches back beyond
\* the raw tier, is at most MinuteSpan wide and its sample is in the minute
\* tier; not if it is wider and its sample has come to the five-minute tier.
\* (A narrow window over a sample that only the five-minute tier still has is
\* answered empty, as is a wide one over samples of the minute tier alone.)
Windows ==
  \A s \in accepted :
    /\ Fresh(s) => \A from \in 0..s, to \in {s, now} : Nonempty(from, to)
    /\ InMinuteTier(s) =>
         \A from \in 0..MinuteOf(s) : from <= RawCutoff + Hour =>
           \A to \in s..(from + MinuteSpan) : Nonempty(from, to)
    /\ InFiveTier(s) =>
         \A from \in 0..FiveOf(s) : \A to \in {from + MinuteSpan + 1, now} :
           s <= to /\ to - from > MinuteSpan => Nonempty(from, to)

\* export.go: the way out of what the tiers retain.  One export holds no more than
\* maxRangeRows rows, the oldest of its window; a kept sample is missing from one only
\* behind as many older rows as the limit lets through, so that a client that asks again
\* from where its last export ended comes to every kept sample, whatever the limit.
Exports == \A s \in accepted : Kept(s) => Exported(s)

\* What the server answers from the tiers (timerange.go, export.go): no window
\* over a stored sample is empty, and no kept sample is out of reach of the exports.
Answered == Windows /\ Exports
=============================================================================
