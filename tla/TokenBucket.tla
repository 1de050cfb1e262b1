---------------------------- MODULE TokenBucket ----------------------------
(***************************************************************************)
(* What a rate limit promises: every client has a bucket that refills by   *)
(* one unit a tick up to Capacity, and a request is served by taking Price *)
(* from it, or is refused because the bucket holds less.  A client may be  *)
(* forgotten, which fills its bucket, once it has asked for nothing for so *)
(* long that less than Grace can be missing: with Grace = 0, only when the *)
(* bucket is full anyway.  A restart fills every bucket and serves nobody  *)
(* any more.                                                               *)
(***************************************************************************)
EXTENDS Integers

CONSTANTS Clients, Capacity, Price, Grace, Requests

VARIABLES level, quiet, served

vars == <<level, quiet, served>>

Enough == Capacity - Grace + 1

Init ==
  /\ level = [c \in Clients |-> Capacity]
  /\ quiet = [c \in Clients |-> Enough]
  /\ served = {}

\* The levels once the clients of gone are forgotten.
Forgetting(gone) == [c \in Clients |-> IF c \in gone THEN Capacity ELSE level[c]]
Forgettable ==
  {c \in Clients : quiet[c] = Enough /\ (level[c] = Capacity \/ Capacity - level[c] < Grace)}

Serve(c, r) ==
  /\ r \notin served
  /\ \E gone \in SUBSET Forgettable :
       /\ Forgetting(gone)[c] >= Price
       /\ level' = [Forgetting(gone) EXCEPT ![c] = @ - Price]
  /\ quiet' = [quiet EXCEPT ![c] = 0]
  /\ served' = served \cup {r}

Refuse(c) ==
  /\ \E gone \in SUBSET Forgettable :
       /\ Forgetting(gone)[c] < Price
       /\ level' = Forgetting(gone)
  /\ quiet' = [quiet EXCEPT ![c] = 0]
  /\ UNCHANGED served

Finish(r) ==
  /\ r \in served
  /\ served' = served \ {r}
  /\ UNCHANGED <<level, quiet>>

Refill ==
  /\ level' = [c \in Clients |-> IF level[c] < Capacity THEN level[c] + 1 ELSE level[c]]
  /\ quiet' = [c \in Clients |-> IF quiet[c] < Enough THEN quiet[c] + 1 ELSE quiet[c]]
  /\ UNCHANGED served

Restart ==
  /\ level' = [c \in Clients |-> Capacity]
  /\ quiet' = [c \in Clients |-> Enough]
  /\ served' = {}

Next ==
  \/ \E r \in Requests : Finish(r) \/ \E c \in Clients : Serve(c, r)
  \/ \E c \in Clients : Refuse(c)
  \/ Refill
  \/ Restart

Spec == Init /\ [][Next]_vars
=============================================================================
