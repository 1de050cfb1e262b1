----------------------------- MODULE Admission -----------------------------
(***************************************************************************)
(* What an invitation is worth: it is issued once and admits at most one   *)
(* credential; the act that admits it closes the invitation for good.      *)
(* unspent and admitted say, of every invitation, whether it was issued    *)
(* and has let nobody in yet, and whom it let in.                          *)
(***************************************************************************)
CONSTANTS Tokens, Agents

VARIABLES fresh, unspent, admitted

vars == <<fresh, unspent, admitted>>

Init ==
  /\ fresh = Tokens
  /\ unspent = {}
  /\ admitted = [k \in Tokens |-> {}]

Invite(k) ==
  /\ k \in fresh
  /\ fresh' = fresh \ {k}
  /\ unspent' = unspent \cup {k}
  /\ UNCHANGED admitted

Admit(k, a) ==
  /\ k \in unspent
  /\ unspent' = unspent \ {k}
  /\ admitted' = [admitted EXCEPT ![k] = {a}]
  /\ UNCHANGED fresh

Next == \E k \in Tokens : Invite(k) \/ \E a \in Agents : Admit(k, a)

Spec == Init /\ [][Next]_vars
=============================================================================
