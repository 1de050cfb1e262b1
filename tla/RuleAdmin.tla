----------------------------- MODULE RuleAdmin -----------------------------
(***************************************************************************)
(* How an operator's change to an alert rule reaches the running           *)
(* evaluator: internal/server/rule_handlers.go over                        *)
(* internal/storage/rules.go.  One rule is followed.  Its stored override  *)
(* has a setting (threshold, duration and enabled are one field here: what *)
(* matters is whether the rule is on) and a time until which it is muted.  *)
(*                                                                         *)
(* A handler is a worker that touches the database once per step; any      *)
(* other worker may act between two steps, because neither the read-change *)
(* -write of a PATCH nor the reload that follows is under a lock.  Main is *)
(* the start-up reload, which runs while the API already serves.  A read   *)
(* may fail; a PATCH then goes on as if nothing were stored.               *)
(*                                                                         *)
(* A mute is kept as the ticks it still lasts; Unmuted stands for no mute  *)
(* and for one that ended at least a tick ago.  alone, blind and settled   *)
(* only observe: no guard reads them.                                      *)
(***************************************************************************)
EXTENDS Integers, FiniteSets

CONSTANTS
  Requests,  \* operators, each with at most one request under way
  AtOnce,    \* bound: requests and start-up reloads running at once
  MaxMute    \* bound: the longest mute (maxMuteHours), in ticks

ASSUME RuleAdminAssumption == MaxMute \in Nat \ {0} /\ AtOnce \in Nat \ {0}

VARIABLES
  row,      \* the stored override; no row is Absent
  applied,  \* the setting in Evaluator.rules
  work,     \* what each worker is doing
  alone,    \* workers that have met no other worker since they started
  blind,    \* requests whose read of the override failed
  settled   \* the last worker to finish was neither met nor blind

adminVars == <<row, applied, work, alone, blind, settled>>

Main == "main"
Workers == Requests \cup {Main}

Settings == {"on", "off"}

\* alerting.DefaultRules: the built-in rules are enabled.
Default == "on"

\* A nil field: not overridden in a row, not mentioned in a request.
Nil == "nil"
Unmuted == -1
Keep == -2

Override == [set : Settings \cup {Nil}, mute : Unmuted..MaxMute]
Absent == [set |-> Nil, mute |-> Unmuted]

\* The bodies of a PATCH; one that names both fields only combines them.
Change ==
  [set : Settings, mute : {Keep}] \cup [set : {Nil}, mute : {Unmuted} \cup 1..MaxMute]

Idle == [pc |-> "idle"]
Work ==
  {Idle} \cup [pc : {"delete", "list"}] \cup [pc : {"read"}, change : Change]
  \cup [pc : {"save"}, change : Change, next : Override]
  \cup [pc : {"replace"}, set : Settings]

\* A mutation: a mute goes on counting after it ended.
ShorterAlways(n) == n - 1

Shorter(n) == IF n > Unmuted THEN n - 1 ELSE n

\* RuleOverride.Muted at a time age ticks ago.
Muted(o, age) == o.mute + age > 0

\* applyOverrides: only what is stored differs from the default.
Effective(o) == IF o.set = Nil THEN Default ELSE o.set

\* A mutation: the request replaces the override instead of changing it.
Overwritten(o, c) ==
  [set |-> c.set, mute |-> IF c.mute = Keep THEN Unmuted ELSE c.mute]

\* The override a PATCH stores over the one it read.
Changed(o, c) ==
  [set |-> IF c.set = Nil THEN o.set ELSE c.set,
   mute |-> IF c.mute = Keep THEN o.mute ELSE c.mute]

-----------------------------------------------------------------------------
AdminInit ==
  /\ row = Absent
  /\ applied = Default
  /\ work = [w \in Workers |-> IF w = Main THEN [pc |-> "list"] ELSE Idle]
  /\ alone = {Main}
  /\ blind = {}
  /\ settled = FALSE

\* Worker w begins; whoever is under way has now met it.
Begin(w, first) ==
  /\ work[w] = Idle
  /\ Cardinality({v \in Workers : work[v] # Idle}) < AtOnce
  /\ work' = [work EXCEPT ![w] = first]
  /\ alone' = IF \A v \in Workers : work[v] = Idle THEN {w} ELSE {}
  /\ UNCHANGED <<row, applied, blind, settled>>

\* handleUpdateRule with a valid body, and handleResetRule.
StartUpdate(r) == \E c \in Change : Begin(r, [pc |-> "read", change |-> c])
StartReset(r) == Begin(r, [pc |-> "delete"])

Goto(w, next) == work' = [work EXCEPT ![w] = next] /\ UNCHANGED alone
Blinded(w) == blind' = blind \cup {w}
Finish(w) ==
  /\ work' = [work EXCEPT ![w] = Idle]
  /\ alone' = alone \ {w}
  /\ blind' = blind \ {w}

\* existing, _ := ListRuleOverrides(): an error leaves an empty override.
ReadOverride(r) ==
  /\ work[r].pc = "read"
  /\ \/ Goto(r, [pc |-> "save", change |-> work[r].change,
                 next |-> Changed(row, work[r].change)]) /\ UNCHANGED blind
     \/ Goto(r, [pc |-> "save", change |-> work[r].change,
                 next |-> Changed(Absent, work[r].change)]) /\ Blinded(r)
  /\ UNCHANGED <<row, applied, settled>>

\* A mutation: the overrides are listed before the new one is saved.
SaveAfterList(r) ==
  /\ work[r].pc = "save"
  /\ row' = work[r].next
  /\ Goto(r, [pc |-> "replace", set |-> Effective(row)])
  /\ settled' = FALSE
  /\ UNCHANGED <<applied, blind>>

\* SaveRuleOverride writes every column; a failure is answered 500.
SaveOverride(r) ==
  /\ work[r].pc = "save"
  /\ \/ row' = work[r].next /\ Goto(r, [pc |-> "list"]) /\ settled' = FALSE
        /\ UNCHANGED blind
     \/ Finish(r) /\ UNCHANGED <<row, settled>>
  /\ UNCHANGED applied

\* DeleteRuleOverride; ErrNotFound counts as done, another error is answered 500.
DeleteOverride(r) ==
  /\ work[r].pc = "delete"
  /\ \/ row' = Absent /\ Goto(r, [pc |-> "list"]) /\ settled' = FALSE
        /\ UNCHANGED blind
     \/ Finish(r) /\ UNCHANGED <<row, settled>>
  /\ UNCHANGED applied

\* reloadRules: list, then replace.  A failed list is only logged: the request is
\* answered as done and the evaluator keeps the rules it had.
ListForReload(w) ==
  /\ work[w].pc = "list"
  /\ \/ Goto(w, [pc |-> "replace", set |-> Effective(row)]) /\ UNCHANGED blind
     \/ Finish(w)
  /\ UNCHANGED <<row, applied, settled>>

Reload(w) ==
  /\ work[w].pc = "replace"
  /\ applied' = work[w].set
  /\ settled' = (w \in alone \ blind)
  /\ Finish(w)
  /\ UNCHANGED row

\* The daemon dies and starts again: the database stays, the evaluator is built
\* from the defaults and the API serves before ReloadRules has run.
Restart ==
  /\ applied' = Default
  /\ work' = [w \in Workers |-> IF w = Main THEN [pc |-> "list"] ELSE Idle]
  /\ alone' = {Main}
  /\ blind' = {}
  /\ settled' = FALSE
  /\ UNCHANGED row

\* Mutes run out, the one a PATCH is about to store as well.
AdminTick ==
  /\ row' = [row EXCEPT !.mute = Shorter(row.mute)]
  /\ work' = [w \in Workers |->
       IF work[w].pc = "save" THEN [work[w] EXCEPT !.next.mute = Shorter(@)] ELSE work[w]]
  /\ UNCHANGED <<applied, alone, blind, settled>>

Handle ==
  \/ \E r \in Requests : StartUpdate(r) \/ StartReset(r) \/ ReadOverride(r)
                         \/ SaveOverride(r) \/ DeleteOverride(r)
  \/ \E w \in Workers : ListForReload(w) \/ Reload(w)

-----------------------------------------------------------------------------
(* Properties.                                                             *)

AdminTypeOK ==
  /\ row \in Override
  /\ applied \in Settings
  /\ work \in [Workers -> Work]
  /\ alone \subseteq Workers /\ blind \subseteq Workers
  /\ settled \in BOOLEAN

\* Operator changes reach the evaluator and outlive a restart: when the last
\* reload to finish belonged to a request, or a start-up, that met no other and
\* whose reads succeeded, the evaluator runs what is stored, whatever races,
\* lost reloads and crashes came before.
Settled == settled => applied = Effective(row)

\* A PATCH that meets no other request and reads what is stored changes the
\* fields it names and no other: muting a rule does not re-enable it.
KeepsOtherFields ==
  [][\A r \in Requests :
       /\ work[r].pc = "save" /\ work'[r].pc = "list"
       /\ r \in alone \ blind
       => /\ work[r].change.set = Nil => row'.set = row.set
          /\ work[r].change.mute = Keep => row'.mute = row.mute]_row
=============================================================================
