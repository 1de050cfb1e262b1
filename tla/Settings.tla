------------------------------ MODULE Settings ------------------------------
(***************************************************************************)
(* The live settings of config/runtime.go and server/settings_handlers.go, *)
(* as far as somebody is told of a change: the poll interval, to which the *)
(* collector's ticker is reset.  The log level is passed on the same way,  *)
(* by a callback that is there before the first request; the retention is  *)
(* read, not told, and is the policy of Retention.  Runtime.Apply holds    *)
(* its lock, callbacks included: one step.                                 *)
(***************************************************************************)
EXTENDS Integers

CONSTANTS
  Intervals,   \* values of poll_interval_seconds an operator sends
  MaxInterval

ASSUME SettingsAssumption ==
  MaxInterval \in Nat \ {0} /\ Intervals \subseteq Nat

VARIABLES
  interval,   \* Runtime.pollInterval
  ticker,     \* the interval the collector is timed to, once it has a ticker
  wired,      \* OnPollIntervalChange has registered a callback
  unheard     \* only observes: the interval was changed and nobody was told

settingsVars == <<interval, ticker, wired, unheard>>

\* validateRuntime, of the settings that would result.
Valid(i) == 1 <= i /\ i <= MaxInterval

\* The interval the collector starts with is that of the configuration file, and
\* NewRuntime is seeded with the same.
SettingsInit ==
  /\ interval \in {i \in Intervals : Valid(i)}
  /\ ticker = interval
  /\ wired = FALSE
  /\ unheard = FALSE

\* A mutation: the change is looked for after the update was stored.
NeverChanged(next) == FALSE

\* pollChanged.
Changed(next) == next # interval

\* Nothing is applied unless all of the update validates, and nobody is told of
\* a value that was stored already.  A request that leaves the interval alone
\* applies the one there is.
Apply(next) ==
  /\ Valid(next)
  /\ interval' = next
  /\ ticker' = IF Changed(next) /\ wired THEN next ELSE ticker
  /\ unheard' = IF next # interval THEN ~wired /\ next # ticker ELSE unheard
  /\ UNCHANGED wired

OnPollIntervalChange ==
  /\ wired' = TRUE
  /\ UNCHANGED <<interval, ticker, unheard>>

SettingsTypeOK ==
  /\ Valid(interval)
  /\ Valid(ticker)
  /\ wired \in BOOLEAN /\ unheard \in BOOLEAN
=============================================================================
