------------------------------ MODULE Sessions ------------------------------
(***************************************************************************)
(* Browser sessions: internal/server/session.go over                       *)
(* internal/storage/sessions.go.  A session carries the ages of its three  *)
(* stamps: CreatedAt (age), LastSeenAt (seen) and, as an observer, of the  *)
(* last accepted use (used).  ExpiresAt is always LastSeenAt plus the idle *)
(* time, since both are written together.  LastSeenAt is only written back *)
(* when it is older than the touch interval.                               *)
(*                                                                         *)
(* resolveSession reads the session and its user and then touches or       *)
(* deletes the row by its key.  It is one step here: deleting the row      *)
(* between its statements has the effect of deleting it after them.        *)
(***************************************************************************)
EXTENDS Integers

CONSTANTS
  Tokens,       \* bound: session tokens ever issued
  Users,        \* bound: account ids ever created
  SessionIdle,  \* Server.sessionIdle
  SessionMax,   \* Server.sessionMax
  TouchInterval \* sessionTouchInterval

ASSUME SessionsAssumption ==
  /\ SessionIdle \in Nat /\ SessionMax \in Nat /\ TouchInterval \in Nat
  /\ TouchInterval <= SessionIdle

VARIABLE session  \* the row of each token, or why there is none

Row == [user : Users, age : 0..SessionMax + 1,
        seen : 0..SessionIdle + 1, used : 0..SessionIdle + 1]
Missing(why) == [why |-> why]
NoRow == {Missing(why) : why \in {"unissued", "expired", "revoked"}}

Live == {t \in Tokens : session[t] \notin NoRow}
SessionsOf(u) == {t \in Live : session[t].user = u}

\* The two expiries of resolveSession.
Expired(s) == s.seen > SessionIdle \/ s.age > SessionMax
Accepted(t) == t \in Live /\ ~Expired(session[t])

SessionsInit == session = [t \in Tokens |-> Missing("unissued")]

\* issueSession and CreateSession.
Issue(t, u) ==
  /\ session[t] = Missing("unissued")
  /\ session' = [session EXCEPT ![t] = [user |-> u, age |-> 0, seen |-> 0, used |-> 0]]

\* A mutation: every use counts as seen lately, so nothing is written back.
NeverTouched(t) == [session EXCEPT ![t].used = 0]

\* An accepted request slides the expiry when the last write is old enough.
Touched(t) ==
  [session EXCEPT ![t] =
    [user |-> @.user, age |-> @.age,
     seen |-> IF @.seen > TouchInterval THEN 0 ELSE @.seen, used |-> 0]]

\* resolveSession: an expired session is deleted and refused; the results of both
\* writes are ignored.  used leaves out a use whose write-back failed.
Resolve(t) ==
  /\ t \in Live
  /\ \/ Accepted(t) /\ session' = Touched(t)
     \/ ~Accepted(t) /\ session' = [session EXCEPT ![t] = Missing("expired")]

\* Rows deleted by name: logout, password change, a deleted user's rows (CASCADE).
Revoke(T) == session' = [t \in Tokens |-> IF t \in T THEN Missing("revoked") ELSE session[t]]

\* PruneExpiredSessions looks at ExpiresAt alone.
Prune ==
  session' = [t \in Tokens |->
    IF t \in Live /\ session[t].seen > SessionIdle THEN Missing("expired") ELSE session[t]]

Capped(n, most) == IF n >= most THEN n ELSE n + 1

Older(s) ==
  [user |-> s.user, age |-> Capped(s.age, SessionMax + 1),
   seen |-> Capped(s.seen, SessionIdle + 1), used |-> Capped(s.used, SessionIdle + 1)]

SessionsTick ==
  session' = [t \in Tokens |-> IF t \in Live THEN Older(session[t]) ELSE session[t]]

-----------------------------------------------------------------------------
(* Properties.                                                             *)

SessionsTypeOK == session \in [Tokens -> Row \cup NoRow]

\* Somebody who keeps using the dashboard is not signed out before the absolute
\* cap, although uses are written back only now and then: a session that expires
\* was unused for the idle time less the touch interval, or reached the cap; and
\* no session unused for the idle time, or older than the cap, is accepted.
IdleWindow ==
  [][\A t \in Live :
       /\ session'[t] = Missing("expired") =>
            \/ session[t].used > SessionIdle - TouchInterval
            \/ session[t].age > SessionMax
       /\ session'[t] \notin NoRow /\ session'[t].used < session[t].used =>
            session[t].used <= SessionIdle /\ session[t].age <= SessionMax]_session
=============================================================================
