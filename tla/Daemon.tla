------------------------------- MODULE Daemon -------------------------------
(***************************************************************************)
(* The daemon's main (cmd/daemon/main.go): start-up with the API already   *)
(* served, the collector's loop, which feeds the hub and is retimed by the *)
(* live settings, and the shutdown, with Server.Start and Server.Shutdown. *)
(* In server mode there is no collector, no ticker and no broadcast.       *)
(***************************************************************************)
EXTENDS Settings, Hub

VARIABLES
  mode,        \* "all", or "server": waiting for agents
  main,        \* how far main has come
  api,         \* the goroutine of Server.Start
  signalled    \* the context is done

daemonVars == <<mode, main, api, signalled>>
vars == <<settingsVars, hubVars, daemonVars>>

Places == {"started", "attached", "reloaded", "timed", "loop", "stopping", "exited"}

\* main has created the Server, and with it the running hub, and has started the
\* goroutine that serves the API.
Init ==
  /\ SettingsInit
  /\ HubInit
  /\ mode \in {"all", "server"}
  /\ main = "started"
  /\ api = "starting"
  /\ signalled = FALSE

Goto(from, to) ==
  /\ main = from
  /\ main' = to
  /\ UNCHANGED <<mode, api, signalled>>

\* OnLogLevelChange and SetRuntime; then ReloadRules and the first maintenance.
Attach == Goto("started", "attached") /\ UNCHANGED <<settingsVars, hubVars>>
Reload == Goto("attached", "reloaded") /\ UNCHANGED <<settingsVars, hubVars>>
RunServerOnly == mode = "server" /\ Goto("reloaded", "loop") /\ UNCHANGED <<settingsVars, hubVars>>

\* The ticker is created from the configuration, not from the live settings,
\* and can be retimed from the next step on.
NewTicker == mode = "all" /\ Goto("reloaded", "timed") /\ UNCHANGED <<settingsVars, hubVars>>
Wire == Goto("timed", "loop") /\ OnPollIntervalChange /\ UNCHANGED hubVars

\* The goroutine of Start, which nothing keeps from listening after a Shutdown
\* that found no httpServer.
Listen ==
  /\ api = "starting" /\ main # "exited"
  /\ api' \in {"up", "failed"}
  /\ UNCHANGED <<settingsVars, hubVars, mode, main, signalled>>

Signal ==
  /\ ~signalled /\ main # "exited"
  /\ signalled' = TRUE
  /\ UNCHANGED <<settingsVars, hubVars, mode, main, api>>

\* An iteration of the collector's loop, as far as the hub is concerned.
Collect ==
  /\ main = "loop" /\ mode = "all"
  /\ BroadcastMetrics
  /\ UNCHANGED <<settingsVars, clients, pending, closing, running, link, daemonVars>>

\* The loop sees the signal: Shutdown closes the hub, and then the listener.
Stop ==
  /\ main = "loop" /\ signalled
  /\ main' = "stopping"
  /\ HubClose
  /\ api' = IF api = "up" THEN "closed" ELSE api
  /\ UNCHANGED <<settingsVars, clients, queue, pending, running, link, mode, signalled>>

\* The loop sees that the server failed: main returns without a Shutdown.
ServerFailed ==
  /\ api = "failed" /\ Goto("loop", "exited")
  /\ UNCHANGED <<settingsVars, hubVars>>

\* Shutdown returns when no request is in progress, or after ten seconds.  It
\* does not know of the connections that were upgraded.
Exit == Goto("stopping", "exited") /\ UNCHANGED <<settingsVars, hubVars>>

\* A request for the settings is answered 404 until the Runtime is attached.
Patch(next) ==
  /\ api = "up" /\ main \notin {"started", "exited"}
  /\ Apply(next)
  /\ UNCHANGED <<hubVars, daemonVars>>

Open(c) == api = "up" /\ Connect(c)

Pump(c) == ReadFails(c) \/ Write(c) \/ WriterEnds(c)
Selected(c) == HubRegister(c) \/ HubUnregister(c)

InHub ==
  /\ main # "exited"
  /\ \/ \E c \in Conns : Open(c) \/ PeerLeaves(c) \/ Pump(c) \/ Selected(c) \/ HubSend(c)
     \/ HubBroadcast \/ HubEnds
  /\ UNCHANGED <<settingsVars, daemonVars>>

Main ==
  \/ Attach \/ Reload \/ RunServerOnly \/ NewTicker \/ Wire
  \/ Stop \/ ServerFailed \/ Exit

Next ==
  \/ Main \/ Collect \/ Listen \/ Signal \/ InHub
  \/ \E i \in Intervals : Patch(i)

\* Nothing keeps main from its next step for ever, and a goroutine that can go on
\* does.  Go chooses at random among the ready cases of a select: none that is
\* ready time and again is passed over for ever.
Fairness ==
  /\ WF_vars(Main)
  /\ \A c \in Conns :
       /\ WF_vars(InHub /\ Pump(c))
       /\ WF_vars(InHub /\ HubSend(c))
       /\ SF_vars(InHub /\ Selected(c))
  /\ SF_vars(InHub /\ HubBroadcast)

Spec == Init /\ [][Next]_vars /\ Fairness

-----------------------------------------------------------------------------
(* Properties.                                                             *)

\* Every variable keeps its type, and the hub never touches a closed channel.
TypeOK ==
  /\ SettingsTypeOK
  /\ HubTypeOK
  /\ mode \in {"all", "server"}
  /\ main \in Places
  /\ api \in {"starting", "up", "failed", "closed"}
  /\ signalled \in BOOLEAN

\* runtime.go: a changed interval that is stored and never applied is the failure
\* this feature exists to avoid.  While the collector runs it is timed to the
\* stored interval, except after a change that came between SetRuntime and
\* OnPollIntervalChange, until the interval is changed to yet another value.
Retimed == main = "loop" /\ mode = "all" => ticker = interval \/ unheard

\* A slow or dead peer holds up nobody: whoever leaves is forgotten by the hub, a
\* full queue has room again, and the daemon stops when it is told to.
Forgets ==
  /\ \A c \in Conns : (c \in clients /\ link[c].gone) ~> (c \notin clients \/ main = "exited")
  /\ queue = QueueCap ~> (queue < QueueCap \/ ~running \/ main = "exited")
  /\ signalled ~> main = "exited"
=============================================================================
