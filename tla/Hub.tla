-------------------------------- MODULE Hub --------------------------------
(***************************************************************************)
(* The websocket hub of server/websocket.go: the goroutine of Hub.Run, the *)
(* read and the write pump of every connection, and the handler that       *)
(* registers it.  Channels register and unregister are unbuffered: who     *)
(* sends on them waits for Run.  Messages are counted, not told apart.     *)
(* A peer that is gone has closed its end, or has been silent beyond the   *)
(* read deadline: reads and writes fail, or stop at their deadlines.       *)
(***************************************************************************)
EXTENDS Integers

CONSTANTS
  Conns,      \* connections at once; a finished one is used again
  QueueCap,   \* capacity of Hub.broadcast
  SendCap     \* capacity of Client.send

ASSUME HubAssumption == QueueCap \in Nat \ {0} /\ SendCap \in Nat \ {0}

VARIABLES
  clients,    \* Hub.clients
  queue,      \* messages in Hub.broadcast
  pending,    \* clients to which Run still has to pass the message it took
  closing,    \* Hub.done is closed
  running,    \* Hub.Run has not returned
  link        \* every connection, with its pumps and its send channel

hubVars == <<clients, queue, pending, closing, running, link>>

Link == [conn : {"none", "waiting", "open", "closed"}, gone : BOOLEAN,
         reader : {"off", "reading", "leaving"}, writer : {"off", "writing"},
         queued : 0..SendCap, closed : BOOLEAN]

NoLink == [conn |-> "none", gone |-> FALSE, reader |-> "off", writer |-> "off",
           queued |-> 0, closed |-> FALSE]

HubInit ==
  /\ clients = {}
  /\ queue = 0
  /\ pending = {}
  /\ closing = FALSE
  /\ running = TRUE
  /\ link = [c \in Conns |-> NoLink]

-----------------------------------------------------------------------------
(* Handler and pumps.                                                      *)

\* ServeWs upgrades the connection, and waits to register it.
Connect(c) ==
  /\ link[c].conn \in {"none", "closed"} /\ link[c].reader = "off" /\ link[c].writer = "off"
  /\ link' = [link EXCEPT ![c] = [NoLink EXCEPT !.conn = "waiting"]]
  /\ UNCHANGED <<clients, queue, pending, closing, running>>

PeerLeaves(c) ==
  /\ link[c].conn \in {"waiting", "open"} /\ ~link[c].gone
  /\ link' = [link EXCEPT ![c].gone = TRUE]
  /\ UNCHANGED <<clients, queue, pending, closing, running>>

Broken(c) == link[c].gone \/ link[c].conn = "closed"

ReadFails(c) ==
  /\ link[c].reader = "reading" /\ Broken(c)
  /\ link' = [link EXCEPT ![c].reader = "leaving"]
  /\ UNCHANGED <<clients, queue, pending, closing, running>>

Write(c) ==
  /\ link[c].writer = "writing" /\ link[c].queued > 0 /\ ~Broken(c)
  /\ link' = [link EXCEPT ![c].queued = @ - 1]
  /\ UNCHANGED <<clients, queue, pending, closing, running>>

\* A message, a ping or the final close message cannot be written, or the
\* channel was closed and is drained.
WriterEnds(c) ==
  /\ link[c].writer = "writing"
  /\ Broken(c) \/ (link[c].closed /\ link[c].queued = 0)
  /\ link' = [link EXCEPT ![c].writer = "off", ![c].conn = "closed"]
  /\ UNCHANGED <<clients, queue, pending, closing, running>>

\* BroadcastMetrics never waits: a message that finds the queue full is dropped.
BroadcastMetrics == queue' = IF queue < QueueCap THEN queue + 1 ELSE queue

-----------------------------------------------------------------------------
(* Hub.Run.                                                                *)

\* Run is at its select.
Selecting == running /\ pending = {}

HubRegister(c) ==
  /\ Selecting
  /\ link[c].conn = "waiting"
  /\ clients' = clients \cup {c}
  /\ link' = [link EXCEPT ![c].conn = "open", ![c].reader = "reading", ![c].writer = "writing"]
  /\ UNCHANGED <<queue, pending, closing, running>>

\* A mutation: the client stays in the map.
NotRemoved(c) == clients

Removed(c) == clients \ {c}

HubUnregister(c) ==
  /\ Selecting
  /\ link[c].reader = "leaving"
  /\ clients' = Removed(c)
  /\ link' = [link EXCEPT ![c].reader = "off", ![c].conn = "closed", ![c].closed = @ \/ c \in clients]
  /\ UNCHANGED <<queue, pending, closing, running>>

HubBroadcast ==
  /\ Selecting /\ queue > 0
  /\ queue' = queue - 1
  /\ pending' = clients
  /\ UNCHANGED <<clients, closing, running, link>>

\* A mutation: the hub waits for a client whose channel is full.
SendOnly(c) ==
  /\ link[c].queued < SendCap
  /\ link' = [link EXCEPT ![c].queued = @ + 1]

\* A client whose channel is full is skipped.
SendOrSkip(c) ==
  link' = IF link[c].queued < SendCap THEN [link EXCEPT ![c].queued = @ + 1] ELSE link

HubSend(c) ==
  /\ c \in pending
  /\ SendOrSkip(c)
  /\ pending' = pending \ {c}
  /\ UNCHANGED <<clients, queue, closing, running>>

\* Run returns, and closes every client's channel as it does.
HubEnds ==
  /\ Selecting /\ closing
  /\ running' = FALSE
  /\ clients' = {}
  /\ link' = [c \in Conns |-> [link[c] EXCEPT !.closed = @ \/ c \in clients]]
  /\ UNCHANGED <<queue, pending, closing>>

\* Close, which may be called more than once.
HubClose == closing' = TRUE

\* Every variable keeps its type.  Run may send on and close the channel of every
\* client in its map, which panics on a channel that is closed.
HubTypeOK ==
  /\ clients \subseteq Conns
  /\ queue \in 0..QueueCap
  /\ pending \subseteq clients
  /\ closing \in BOOLEAN /\ running \in BOOLEAN
  /\ link \in [Conns -> Link]
  /\ \A c \in clients : ~link[c].closed
=============================================================================
