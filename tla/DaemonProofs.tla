---------------------------- MODULE DaemonProofs ----------------------------
(* Proofs about Settings, Hub and Daemon for any number of connections, any  *)
(* capacities and any intervals.                                             *)
EXTENDS Daemon, TLAPS

-----------------------------------------------------------------------------
(* The hub.                                                                *)

\* A connection that waits to be registered has an open channel and is not in the
\* map, and whoever is in the map has a reader that will unregister it.
Linked ==
  \A c \in Conns :
    /\ link[c].conn = "waiting" => ~link[c].closed /\ c \notin clients
    /\ c \in clients => link[c].reader # "off"

HubIInv == HubTypeOK /\ Linked

\* One connection changes: what remains to be shown.
LEMMA LinkKeeps ==
  ASSUME HubIInv, NEW c \in Conns, NEW l \in Link, link' = [link EXCEPT ![c] = l],
         clients' \subseteq clients \cup {c}, pending' \subseteq clients',
         UNCHANGED <<queue, closing, running>>,
         l.conn = "waiting" => ~l.closed /\ c \notin clients',
         c \in clients' => l.reader # "off" /\ ~l.closed
  PROVE  HubIInv'
<1>1. HubTypeOK /\ Linked /\ link \in [Conns -> Link]
  BY DEF HubIInv, HubTypeOK
<1>2. link' \in [Conns -> Link] /\ link'[c] = l /\ \A d \in Conns : d # c => link'[d] = link[d]
  BY <1>1
<1> QED
  BY <1>1, <1>2 DEF HubIInv, HubTypeOK, Linked

\* The handler and the pumps.
LEMMA PumpKeeps ==
  ASSUME HubIInv, NEW c \in Conns,
         Connect(c) \/ PeerLeaves(c) \/ ReadFails(c) \/ Write(c) \/ WriterEnds(c)
  PROVE  HubIInv'
<1>1. HubTypeOK /\ Linked /\ link[c] \in Link /\ pending \subseteq clients /\ link[c].closed \in BOOLEAN
  BY DEF HubIInv, HubTypeOK, Link
<1>2. CASE Connect(c)
  <2> DEFINE l == [NoLink EXCEPT !.conn = "waiting"]
  <2>1. link' = [link EXCEPT ![c] = l]
    BY <1>2 DEF Connect
  <2>2. l \in Link /\ ~l.closed
    <3>1. NoLink \in Link /\ ~NoLink.closed
      BY HubAssumption DEF Link, NoLink
    <3> QED
      BY <3>1 DEF Link
  <2> HIDE DEF l
  <2>3. c \notin clients /\ UNCHANGED <<clients, queue, pending, closing, running>>
    BY <1>1, <1>2 DEF Connect, Linked
  <2> QED
    BY <1>1, <2>1, <2>2, <2>3, LinkKeeps
<1>3. CASE PeerLeaves(c)
  <2> DEFINE l == [link[c] EXCEPT !.gone = TRUE]
  <2>1. link' = [link EXCEPT ![c] = l] /\ UNCHANGED <<clients, queue, pending, closing, running>>
    BY <1>3 DEF PeerLeaves
  <2>2. l \in Link /\ l.closed = link[c].closed /\ l.conn = link[c].conn /\ l.reader = link[c].reader
    BY <1>1 DEF Link
  <2> HIDE DEF l
  <2> QED
    BY <1>1, <2>1, <2>2, LinkKeeps DEF HubTypeOK, Linked
<1>4. CASE ReadFails(c)
  <2> DEFINE l == [link[c] EXCEPT !.reader = "leaving"]
  <2>1. link' = [link EXCEPT ![c] = l] /\ UNCHANGED <<clients, queue, pending, closing, running>>
    BY <1>4 DEF ReadFails
  <2>2. l \in Link /\ l.closed = link[c].closed /\ l.conn = link[c].conn /\ l.reader = "leaving"
    BY <1>1 DEF Link
  <2> HIDE DEF l
  <2> QED
    BY <1>1, <2>1, <2>2, LinkKeeps DEF HubTypeOK, Linked
<1>5. CASE Write(c)
  <2> DEFINE n == link[c].queued - 1
             l == [link[c] EXCEPT !.queued = n]
  <2>1. link' = [link EXCEPT ![c] = l] /\ UNCHANGED <<clients, queue, pending, closing, running>>
    BY <1>5 DEF Write
  <2>2. link[c].queued \in 0..SendCap
    BY <1>1 DEF Link
  <2>3. n \in 0..SendCap
    BY <1>5, <2>2, HubAssumption DEF Write
  <2> HIDE DEF n
  <2>4. l \in Link /\ l.closed = link[c].closed /\ l.conn = link[c].conn /\ l.reader = link[c].reader
    BY <1>1, <2>3 DEF Link
  <2> HIDE DEF l
  <2> QED
    BY <1>1, <2>1, <2>4, LinkKeeps DEF HubTypeOK, Linked
<1>6. CASE WriterEnds(c)
  <2> DEFINE k == [link[c] EXCEPT !.writer = "off"]
             l == [k EXCEPT !.conn = "closed"]
  <2>1. link' = [link EXCEPT ![c] = l] /\ UNCHANGED <<clients, queue, pending, closing, running>>
    BY <1>6 DEF WriterEnds
  <2>2. k \in Link /\ k.closed = link[c].closed /\ k.reader = link[c].reader
    BY <1>1 DEF Link
  <2> HIDE DEF k
  <2>3. l \in Link /\ l.closed = link[c].closed /\ l.conn = "closed" /\ l.reader = link[c].reader
    BY <2>2 DEF Link
  <2> HIDE DEF l
  <2> QED
    BY <1>1, <2>1, <2>3, LinkKeeps DEF HubTypeOK, Linked
<1> QED
  BY <1>2, <1>3, <1>4, <1>5, <1>6

\* Registering and unregistering, at the select.
LEMMA SelectedKeeps ==
  ASSUME HubIInv, NEW c \in Conns, HubRegister(c) \/ HubUnregister(c)
  PROVE  HubIInv'
<1>1. HubTypeOK /\ Linked /\ link[c] \in Link /\ pending = {} /\ link[c].closed \in BOOLEAN
  BY DEF HubIInv, HubTypeOK, Link, HubRegister, HubUnregister, Selecting
<1>2. CASE HubRegister(c)
  <2> DEFINE k == [link[c] EXCEPT !.conn = "open"]
             m == [k EXCEPT !.reader = "reading"]
             l == [m EXCEPT !.writer = "writing"]
  <2>1. link' = [link EXCEPT ![c] = l] /\ UNCHANGED <<queue, pending, closing, running>>
    BY <1>2 DEF HubRegister
  <2>2. k \in Link /\ k.closed = link[c].closed /\ k.conn = "open"
    BY <1>1 DEF Link
  <2> HIDE DEF k
  <2>3. m \in Link /\ m.closed = link[c].closed /\ m.conn = "open" /\ m.reader = "reading"
    BY <2>2 DEF Link
  <2> HIDE DEF m
  <2>4. l \in Link /\ l.closed = link[c].closed /\ l.conn = "open" /\ l.reader = "reading"
    BY <2>3 DEF Link
  <2> HIDE DEF l
  <2>5. ~link[c].closed /\ clients' = clients \cup {c}
    BY <1>1, <1>2 DEF HubRegister, Linked
  <2> QED
    BY <1>1, <2>1, <2>4, <2>5, LinkKeeps
<1>3. CASE HubUnregister(c)
  <2> DEFINE k == [link[c] EXCEPT !.reader = "off"]
             m == [k EXCEPT !.conn = "closed"]
             was == link[c].closed \/ c \in clients
             l == [m EXCEPT !.closed = was]
  <2>1. link' = [link EXCEPT ![c] = l] /\ UNCHANGED <<queue, pending, closing, running>>
    BY <1>3 DEF HubUnregister
  <2>2. k \in Link
    BY <1>1 DEF Link
  <2> HIDE DEF k
  <2>3. m \in Link /\ m.conn = "closed"
    BY <2>2 DEF Link
  <2>4. was \in BOOLEAN
    OBVIOUS
  <2> HIDE DEF m, was
  <2>5. l \in Link /\ l.conn = "closed"
    BY <2>3, <2>4 DEF Link
  <2> HIDE DEF l
  <2>6. clients' = clients \ {c}
    BY <1>3 DEF HubUnregister, Removed
  <2> QED
    BY <1>1, <2>1, <2>5, <2>6, LinkKeeps
<1> QED
  BY <1>2, <1>3

\* A message is passed on to one client after another.
LEMMA SendKeeps ==
  ASSUME HubIInv, NEW c \in Conns, HubSend(c)
  PROVE  HubIInv'
<1>1. HubTypeOK /\ Linked /\ link[c] \in Link /\ c \in clients /\ ~link[c].closed
  BY DEF HubIInv, HubTypeOK, HubSend
<1>2. pending' \subseteq clients' /\ UNCHANGED <<clients, queue, closing, running>>
  BY <1>1 DEF HubSend, HubTypeOK
<1>3. CASE link' = link
  BY <1>1, <1>2, <1>3 DEF HubIInv, HubTypeOK, Linked
<1>4. CASE link[c].queued < SendCap /\ link' = [link EXCEPT ![c].queued = @ + 1]
  <2> DEFINE n == link[c].queued + 1
             l == [link[c] EXCEPT !.queued = n]
  <2>1. link' = [link EXCEPT ![c] = l]
    BY <1>4
  <2>2. link[c].queued \in 0..SendCap
    BY <1>1 DEF Link
  <2>3. n \in 0..SendCap
    BY <1>4, <2>2, HubAssumption
  <2> HIDE DEF n
  <2>4. l \in Link /\ l.closed = link[c].closed /\ l.conn = link[c].conn /\ l.reader = link[c].reader
    BY <1>1, <2>3 DEF Link
  <2> HIDE DEF l
  <2> QED
    BY <1>1, <1>2, <2>1, <2>4, LinkKeeps DEF Linked
<1> QED
  BY <1>3, <1>4 DEF HubSend, SendOrSkip

\* Run takes a message, or ends and closes the channels of its clients, none of which
\* is closed already.
LEMMA RunKeeps ==
  ASSUME HubIInv, HubBroadcast \/ HubEnds
  PROVE  HubIInv'
<1>1. HubTypeOK /\ Linked /\ link \in [Conns -> Link] /\ queue \in 0..QueueCap
  BY DEF HubIInv, HubTypeOK
<1>2. CASE HubBroadcast
  <2>1. queue' \in 0..QueueCap
    BY <1>1, <1>2, HubAssumption DEF HubBroadcast
  <2> QED
    BY <1>1, <1>2, <2>1 DEF HubBroadcast, HubIInv, HubTypeOK, Linked
<1>3. CASE HubEnds
  <2>1. ASSUME NEW c \in Conns
        PROVE  /\ link'[c] \in Link /\ link'[c].conn = link[c].conn
               /\ c \notin clients => link'[c].closed = link[c].closed
    <3> DEFINE was == link[c].closed \/ c \in clients
               l == [link[c] EXCEPT !.closed = was]
    <3>1. link'[c] = l
      BY <1>3 DEF HubEnds
    <3>2. was \in BOOLEAN /\ link[c] \in Link
      BY <1>1
    <3>3. c \notin clients => was = link[c].closed
      BY <1>1, Zenon DEF Link
    <3> HIDE DEF was
    <3>4. l \in Link /\ l.conn = link[c].conn /\ l.closed = was
      BY <3>2 DEF Link
    <3> HIDE DEF l
    <3> QED
      BY <3>1, <3>3, <3>4
  <2>2. link' \in [Conns -> Link]
    BY <1>3, <2>1 DEF HubEnds
  <2>3. clients' = {} /\ pending' = {} /\ running' = FALSE /\ UNCHANGED <<queue, closing>>
    BY <1>3 DEF HubEnds, Selecting
  <2> QED
    BY <1>1, <2>1, <2>2, <2>3 DEF HubIInv, HubTypeOK, Linked
<1> QED
  BY <1>2, <1>3

-----------------------------------------------------------------------------
(* The settings and main.                                                  *)

\* The collector is timed to the stored interval, or nobody was told of it.
Heard == ticker = interval \/ unheard

SettingsIInv == SettingsTypeOK /\ Heard

DaemonTypes ==
  /\ mode \in {"all", "server"}
  /\ main \in Places
  /\ api \in {"starting", "up", "failed", "closed"}
  /\ signalled \in BOOLEAN

IInv == SettingsIInv /\ HubIInv /\ DaemonTypes

\* A change is passed on, or is known to be missed.
LEMMA ApplyKeeps ==
  ASSUME SettingsIInv, NEW next \in Intervals, Apply(next)
  PROVE  SettingsIInv'
<1>1. Valid(interval) /\ Valid(ticker) /\ wired \in BOOLEAN /\ unheard \in BOOLEAN /\ Heard
  BY DEF SettingsIInv, SettingsTypeOK
<1>2. Valid(next) /\ interval' = next /\ wired' = wired
  BY DEF Apply
<1>3. CASE next = interval
  <2>1. ticker' = ticker /\ unheard' = unheard
    BY <1>3 DEF Apply, Changed
  <2> QED
    BY <1>1, <1>2, <1>3, <2>1 DEF SettingsIInv, SettingsTypeOK, Heard, Valid
<1>4. CASE next # interval
  <2>1. unheard' = (~wired /\ next # ticker)
    BY <1>4 DEF Apply
  <2>2. unheard' \in BOOLEAN
    BY <2>1
  <2>3. CASE wired
    <3>1. ticker' = next
      BY <1>4, <2>3 DEF Apply, Changed
    <3> QED
      BY <1>1, <1>2, <2>2, <3>1 DEF SettingsIInv, SettingsTypeOK, Heard, Valid
  <2>4. CASE ~wired
    <3>1. ticker' = ticker /\ (next # ticker => unheard')
      BY <1>4, <2>1, <2>4 DEF Apply, Changed
    <3> QED
      BY <1>1, <1>2, <2>2, <3>1 DEF SettingsIInv, SettingsTypeOK, Heard, Valid
  <2> QED
    BY <2>3, <2>4
<1> QED
  BY <1>3, <1>4

\* The invariant holds at the start.
LEMMA InitInv == Init => IInv
<1> SUFFICES ASSUME Init PROVE IInv
  OBVIOUS
<1>1. SettingsIInv
  BY DEF Init, SettingsInit, SettingsIInv, SettingsTypeOK, Heard, Valid
<1>2. NoLink \in Link /\ NoLink.conn = "none"
  BY HubAssumption DEF Link, NoLink
<1>3. link \in [Conns -> Link] /\ \A c \in Conns : link[c].conn = "none"
  BY <1>2 DEF Init, HubInit
<1>4. clients = {} /\ pending = {} /\ queue \in 0..QueueCap /\ running \in BOOLEAN
  BY HubAssumption DEF Init, HubInit
<1>5. closing \in BOOLEAN
  BY Zenon DEF Init, HubInit
<1>6. HubIInv
  BY <1>3, <1>4, <1>5 DEF HubIInv, HubTypeOK, Linked
<1>7. DaemonTypes
  BY DEF Init, DaemonTypes, Places
<1> QED
  BY <1>1, <1>6, <1>7 DEF IInv

\* Every step keeps the invariant.
LEMMA NextInv == IInv /\ [Next]_vars => IInv'
<1> SUFFICES ASSUME IInv, [Next]_vars PROVE IInv'
  OBVIOUS
<1>1. SettingsIInv /\ HubIInv /\ DaemonTypes
  BY DEF IInv
<1>2. ASSUME UNCHANGED settingsVars
      PROVE  SettingsIInv'
  BY <1>1, <1>2 DEF settingsVars, SettingsIInv, SettingsTypeOK, Heard, Valid
<1>3. ASSUME UNCHANGED hubVars
      PROVE  HubIInv'
  BY <1>1, <1>3 DEF hubVars, HubIInv, HubTypeOK, Linked
<1>4. ASSUME UNCHANGED daemonVars
      PROVE  DaemonTypes'
  BY <1>1, <1>4 DEF daemonVars, DaemonTypes
<1>5. ASSUME UNCHANGED <<clients, pending, running, link>>, queue' \in 0..QueueCap, closing' \in BOOLEAN
      PROVE  HubIInv'
  BY <1>1, <1>5 DEF HubIInv, HubTypeOK, Linked
<1>6. CASE Main
  <2>1. ASSUME NEW from, NEW to \in Places, Goto(from, to)
        PROVE  DaemonTypes'
    BY <1>1, <2>1 DEF Goto, DaemonTypes
  <2>2. CASE Attach \/ Reload \/ RunServerOnly \/ NewTicker \/ ServerFailed \/ Exit
    BY <1>2, <1>3, <2>1, <2>2 DEF Attach, Reload, RunServerOnly, NewTicker, ServerFailed, Exit, Places, IInv
  <2>3. CASE Wire
    <3>1. SettingsIInv'
      BY <1>1, <2>3 DEF Wire, OnPollIntervalChange, SettingsIInv, SettingsTypeOK, Heard, Valid
    <3> QED
      BY <1>3, <2>1, <2>3, <3>1 DEF Wire, Places, IInv
  <2>4. CASE Stop
    <3>1. HubIInv'
      BY <1>1, <1>5, <2>4 DEF Stop, HubClose, HubIInv, HubTypeOK
    <3>2. DaemonTypes'
      BY <1>1, <2>4 DEF Stop, DaemonTypes, Places
    <3> QED
      BY <1>2, <2>4, <3>1, <3>2 DEF Stop, IInv
  <2> QED
    BY <1>6, <2>2, <2>3, <2>4 DEF Main
<1>7. CASE Collect
  <2>1. queue' \in 0..QueueCap /\ closing' \in BOOLEAN
    BY <1>1, <1>7, HubAssumption DEF Collect, BroadcastMetrics, HubIInv, HubTypeOK
  <2> QED
    BY <1>2, <1>4, <1>5, <1>7, <2>1 DEF Collect, IInv
<1>8. CASE Listen \/ Signal
  BY <1>1, <1>2, <1>3, <1>8 DEF Listen, Signal, DaemonTypes, IInv
<1>9. CASE InHub
  <2>1. HubIInv'
    BY <1>1, <1>9, PumpKeeps, SelectedKeeps, SendKeeps, RunKeeps DEF InHub, Open, Pump, Selected
  <2> QED
    BY <1>2, <1>4, <1>9, <2>1 DEF InHub, IInv
<1>10. ASSUME NEW i \in Intervals, Patch(i)
       PROVE  IInv'
  BY <1>1, <1>3, <1>4, <1>10, ApplyKeeps DEF Patch, IInv
<1>11. CASE UNCHANGED vars
  BY <1>2, <1>3, <1>4, <1>11 DEF vars, IInv
<1> QED
  BY <1>6, <1>7, <1>8, <1>9, <1>10, <1>11 DEF Next

-----------------------------------------------------------------------------
(* The results.                                                            *)

\* The inductive invariant: the hub's map, the channels and the pumps agree, and so do
\* the ticker and the stored interval, unless nobody was told.
THEOREM Consistent == Spec => []IInv
<1>1. Init => IInv
  BY InitInv
<1>2. IInv /\ [Next]_vars => IInv'
  BY NextInv
<1> QED
  BY <1>1, <1>2, PTL DEF Spec

\* Every variable keeps its type, and the hub never sends on or closes a channel that
\* is closed.
THEOREM TypeCorrect == Spec => []TypeOK
<1>1. IInv => TypeOK
  BY DEF IInv, SettingsIInv, HubIInv, DaemonTypes, TypeOK
<1> QED
  BY <1>1, Consistent, PTL

\* The collector is timed to the stored interval, except after a change that came
\* before its callback was registered.
THEOREM TimedAsStored == Spec => []Retimed
<1>1. IInv => Retimed
  BY DEF IInv, SettingsIInv, Heard, Retimed
<1> QED
  BY <1>1, Consistent, PTL
=============================================================================
