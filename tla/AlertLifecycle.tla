-------------------------- MODULE AlertLifecycle --------------------------
(***************************************************************************)
(* What the alert engine promises to whoever consumes its transitions,     *)
(* told only in terms of what was observed.  A key is one rule on one      *)
(* host.  For every key the specification remembers for how long the       *)
(* observations have been breaching without interruption (held) and for    *)
(* how long they have been clear without interruption (calm), and it says  *)
(* exactly when a key starts and stops firing:                             *)
(*   - a key that is not firing starts at the first breaching observation  *)
(*     that finds the breach as old as the rule's duration;                *)
(*   - a firing key stops at the first clear observation that finds the    *)
(*     calm as old as the settle time.                                     *)
(* Both are announced once, as an event; nothing else is ever announced.   *)
(* Ages count ticks up to Horizon.  An observation carries the age of its  *)
(* own timestamp (lag): it is handled after it was stamped.                *)
(***************************************************************************)
EXTENDS Integers

CONSTANTS Keys, Durations, ResolveAfter, MaxLag, Horizon

VARIABLES wait, held, calm, firing, events

vars == <<wait, held, calm, firing, events>>

\* No observation of that kind since the last one of the other kind.
None == -1

Older(n) == IF n = None \/ n >= Horizon THEN n ELSE n + 1

Init ==
  /\ wait \in [Keys -> Durations]
  /\ held = [k \in Keys |-> None]
  /\ calm = [k \in Keys |-> None]
  /\ firing = {}
  /\ events = {}

Tick ==
  /\ held' = [k \in Keys |-> Older(held[k])]
  /\ calm' = [k \in Keys |-> Older(calm[k])]
  /\ events' = {}
  /\ UNCHANGED <<wait, firing>>

\* The operator changes durations (or does nothing that matters here).
Retune ==
  /\ wait' \in [Keys -> Durations]
  /\ events' = {}
  /\ UNCHANGED <<held, calm, firing>>

\* The age of a run of observations of one kind, after one more observation.
Extend(run, lag) == IF run = None THEN lag ELSE run

Starts(seen, lag) ==
  {k \in Keys : seen[k] = "breach" /\ k \notin firing /\ held'[k] - lag >= wait[k]}

Stops(seen, lag) ==
  {k \in Keys : seen[k] = "clear" /\ k \in firing /\ calm'[k] - lag >= ResolveAfter}

Observe(seen, lag) ==
  /\ held' = [k \in Keys |-> CASE seen[k] = "breach" -> Extend(held[k], lag)
                               [] seen[k] = "clear"  -> None
                               [] OTHER              -> held[k]]
  /\ calm' = [k \in Keys |-> CASE seen[k] = "clear"  -> Extend(calm[k], lag)
                               [] seen[k] = "breach" -> None
                               [] OTHER              -> calm[k]]
  /\ firing' = (firing \cup Starts(seen, lag)) \ Stops(seen, lag)
  /\ events' = (Starts(seen, lag) \X {"firing"}) \cup (Stops(seen, lag) \X {"resolved"})
  /\ UNCHANGED wait

Next ==
  \/ Tick
  \/ Retune
  \/ \E seen \in [Keys -> {"breach", "clear", "unseen"}], lag \in 0..MaxLag :
        Observe(seen, lag)

Spec == Init /\ [][Next]_vars
=============================================================================
