------------------------------ MODULE Accounts ------------------------------
(***************************************************************************)
(* Accounts of the console: first-run setup, login, password change and    *)
(* user administration (internal/server/auth_handlers.go,                  *)
(* user_handlers.go, auth.go over internal/storage/users.go and            *)
(* internal/auth/setup.go), on top of Sessions.                            *)
(*                                                                         *)
(* A handler is worked through one database statement at a time, others    *)
(* act in between.  Only requests that get past their validation are       *)
(* handlers here: what is refused on its input changes nothing.  The       *)
(* machine's API key is an administrator without an account.  Ids and      *)
(* tokens are random and never used twice; passwords are left out, a login *)
(* or a change being one that knew the password when it was verified.      *)
(*                                                                         *)
(* overtaken, mishap and stale only observe.                               *)
(***************************************************************************)
EXTENDS Sessions, FiniteSets

CONSTANT Handlers  \* bound: requests under way at once

ASSUME AccountsAssumption == IsFiniteSet(Users)

VARIABLES
  users,      \* the role of each id, or "unused" or "deleted"
  setup,      \* the setup token: "none", "ready" or "spent"
  work,       \* what each handler is doing
  overtaken,  \* deletions whose count of admins another deletion has outdated
  mishap,     \* the first account failed to be created, or the last went overtaken
  stale       \* sessions open when their user's password changed, which nothing
              \* went wrong in deleting

vars == <<session, users, setup, work, overtaken, mishap, stale>>

Accounts == {u \in Users : users[u] \in {"admin", "viewer"}}
Admins == {u \in Users : users[u] = "admin"}

Idle == [pc |-> "idle"]
Work ==
  {Idle} \cup [pc : {"consume", "create"}] \cup [pc : {"session", "count", "remove"}, user : Users]
  \cup [pc : {"update", "sweep"}, user : Users, token : Tokens]

Goto(h, next) == work' = [work EXCEPT ![h] = next]

Init ==
  /\ SessionsInit
  /\ users = [u \in Users |-> "unused"]
  /\ setup = "ready"
  /\ work = [h \in Handlers |-> Idle]
  /\ overtaken = {}
  /\ mishap = FALSE
  /\ stale = {}

-----------------------------------------------------------------------------
(* First-run setup.                                                        *)

\* handleSetup up to its last check of the input.
StartSetup(h) ==
  /\ work[h] = Idle
  /\ Accounts = {}
  /\ Goto(h, [pc |-> "consume"])
  /\ UNCHANGED <<session, users, setup, overtaken, mishap, stale>>

\* A mutation: the token is consumed before the password is validated.
ConsumeFirst(h) ==
  /\ work[h].pc = "consume"
  /\ setup = "ready" /\ setup' = "spent"
  /\ \E next \in {Idle, [pc |-> "create"]} : Goto(h, next)
  /\ UNCHANGED <<session, users, overtaken, mishap, stale>>

\* SetupToken.Consume: the first of two requests gets it, the other is refused.
Consume(h) ==
  /\ work[h].pc = "consume"
  /\ \/ setup = "ready" /\ setup' = "spent" /\ Goto(h, [pc |-> "create"])
     \/ setup # "ready" /\ Goto(h, Idle) /\ UNCHANGED setup
  /\ UNCHANGED <<session, users, overtaken, mishap, stale>>

\* CreateUser for the first admin; it may fail, the token being spent by then.
CreateFirst(h) ==
  /\ work[h].pc = "create"
  /\ \/ \E u \in Users : /\ users[u] = "unused"
                         /\ users' = [users EXCEPT ![u] = "admin"]
                         /\ Goto(h, [pc |-> "session", user |-> u])
                         /\ UNCHANGED mishap
     \/ Goto(h, Idle) /\ mishap' = TRUE /\ UNCHANGED users
  /\ UNCHANGED <<session, setup, overtaken, stale>>

-----------------------------------------------------------------------------
(* Sessions.                                                               *)

\* handleLogin up to the verified password.
StartLogin(h, u) ==
  /\ work[h] = Idle
  /\ u \in Accounts
  /\ Goto(h, [pc |-> "session", user |-> u])
  /\ UNCHANGED <<session, users, setup, overtaken, mishap, stale>>

\* A mutation: without foreign_keys(ON) nothing refuses the row.
OpenUnchecked(h) ==
  /\ work[h].pc = "session"
  /\ \E t \in Tokens : Issue(t, work[h].user)
  /\ Goto(h, Idle)
  /\ UNCHANGED <<users, setup, overtaken, mishap, stale>>

\* issueSession; the foreign key refuses it when the user is gone.
OpenSession(h) ==
  /\ work[h].pc = "session"
  /\ \/ work[h].user \in Accounts /\ \E t \in Tokens : Issue(t, work[h].user)
     \/ UNCHANGED session
  /\ Goto(h, Idle)
  /\ UNCHANGED <<users, setup, overtaken, mishap, stale>>

\* Any request that only authenticates.
Request(t) ==
  /\ Resolve(t)
  /\ stale' = stale \cap Live'
  /\ UNCHANGED <<users, setup, work, overtaken, mishap>>

Logout(t) ==
  /\ Accepted(t)
  /\ Revoke({t})
  /\ stale' = stale \ {t}
  /\ UNCHANGED <<users, setup, work, overtaken, mishap>>

\* handleChangePassword up to the verified password: a signed-in browser only.
StartChange(h, t) ==
  /\ work[h] = Idle
  /\ Accepted(t)
  /\ session' = Touched(t)
  /\ Goto(h, [pc |-> "update", user |-> session[t].user, token |-> t])
  /\ UNCHANGED <<users, setup, overtaken, mishap, stale>>

\* UpdatePasswordHash: fails when the user is gone, or for any other reason.
UpdatePassword(h) ==
  LET u == work[h].user
      own == work[h].token
  IN  /\ work[h].pc = "update"
      /\ \/ /\ u \in Accounts
            /\ Goto(h, [pc |-> "sweep", user |-> u, token |-> own])
            /\ stale' = (stale \cup SessionsOf(u)) \ {own}
         \/ Goto(h, Idle) /\ UNCHANGED stale
      /\ UNCHANGED <<session, users, setup, overtaken, mishap>>

\* A mutation: a password change leaves the other sessions open.
SweepNothing(h) ==
  /\ work[h].pc = "sweep"
  /\ Goto(h, Idle)
  /\ UNCHANGED <<session, users, setup, overtaken, mishap, stale>>

\* DeleteUserSessions keeps the browser that asked; its result is ignored.
Sweep(h) ==
  LET u == work[h].user
      others == SessionsOf(u) \ {work[h].token}
  IN  /\ work[h].pc = "sweep"
      /\ \/ Revoke(others)
         \/ UNCHANGED session
      /\ stale' = stale \ others
      /\ Goto(h, Idle)
      /\ UNCHANGED <<users, setup, overtaken, mishap>>

-----------------------------------------------------------------------------
(* User administration.                                                    *)

\* requireAdmin, by the API key or by a session: whose account it is, or "api-key".
AsAdmin(who) ==
  \/ who = "api-key" /\ UNCHANGED session
  \/ \E t \in Live : /\ Accepted(t)
                     /\ session[t].user = who /\ who \in Admins
                     /\ session' = Touched(t)

\* handleCreateUser.
CreateUser(u, role) ==
  /\ users[u] = "unused"
  /\ \E who \in Users \cup {"api-key"} : AsAdmin(who)
  /\ users' = [users EXCEPT ![u] = role]
  /\ UNCHANGED <<setup, work, overtaken, mishap, stale>>

\* handleDeleteUser up to the read of its target: nobody deletes his own account.
StartDelete(h, who, u) ==
  /\ work[h] = Idle
  /\ AsAdmin(who)
  /\ who # u
  /\ u \in Accounts
  /\ Goto(h, [pc |-> IF u \in Admins THEN "count" ELSE "remove", user |-> u])
  /\ UNCHANGED <<users, setup, overtaken, mishap, stale>>

\* A mutation: the guard lets the last admin go.
CountOffByOne(h) ==
  /\ work[h].pc = "count"
  /\ Goto(h, IF Cardinality(Admins) < 1 THEN Idle
             ELSE [pc |-> "remove", user |-> work[h].user])
  /\ UNCHANGED <<session, users, setup, overtaken, mishap, stale>>

\* CountAdmins: the last admin is not to be deleted.
Count(h) ==
  /\ work[h].pc = "count"
  /\ Goto(h, IF Cardinality(Admins) <= 1 THEN Idle
             ELSE [pc |-> "remove", user |-> work[h].user])
  /\ UNCHANGED <<session, users, setup, overtaken, mishap, stale>>

\* DeleteUser, the sessions by cascade; it fails when the user is gone, or for any
\* other reason.
Remove(h) ==
  LET u == work[h].user
      others == {g \in Handlers \ {h} : work[g].pc = "remove"}
  IN  /\ work[h].pc = "remove"
      /\ Goto(h, Idle)
      /\ \/ /\ u \in Accounts
            /\ users' = [users EXCEPT ![u] = "deleted"]
            /\ Revoke(SessionsOf(u))
            /\ stale' = stale \ SessionsOf(u)
            /\ overtaken' = (overtaken \cup (IF u \in Admins THEN others ELSE {})) \ {h}
            /\ mishap' = (mishap \/ (Admins = {u} /\ h \in overtaken))
         \/ overtaken' = overtaken \ {h} /\ UNCHANGED <<users, session, stale, mishap>>
      /\ UNCHANGED setup

-----------------------------------------------------------------------------
\* PruneExpiredSessions in a maintenance pass.
Maintain ==
  /\ Prune
  /\ stale' = stale \cap Live'
  /\ UNCHANGED <<users, setup, work, overtaken, mishap>>

\* The process ends; the next one mints a token only while no account exists
\* (bootstrapSetup).
Restart ==
  /\ setup' = IF Accounts = {} THEN "ready" ELSE "none"
  /\ work' = [h \in Handlers |-> Idle]
  /\ overtaken' = {}
  /\ mishap' = FALSE
  /\ stale' = {}
  /\ UNCHANGED <<session, users>>

\* A tick is minutes, a request is not that long.
Tick ==
  /\ \A h \in Handlers : work[h] = Idle
  /\ SessionsTick
  /\ UNCHANGED <<users, setup, work, overtaken, mishap, stale>>

Next ==
  \/ \E h \in Handlers : \/ StartSetup(h) \/ Consume(h) \/ CreateFirst(h)
                         \/ OpenSession(h) \/ UpdatePassword(h) \/ Sweep(h)
                         \/ Count(h) \/ Remove(h)
  \/ \E h \in Handlers, u \in Users : StartLogin(h, u)
  \/ \E h \in Handlers, t \in Tokens : StartChange(h, t)
  \/ \E h \in Handlers, who \in Users \cup {"api-key"}, u \in Users : StartDelete(h, who, u)
  \/ \E u \in Users, role \in {"admin", "viewer"} : CreateUser(u, role)
  \/ \E t \in Tokens : Request(t) \/ Logout(t)
  \/ Maintain
  \/ Restart
  \/ Tick

Spec == Init /\ [][Next]_vars

-----------------------------------------------------------------------------
(* Properties.                                                             *)

\* Every variable keeps its type, and no session outlives its account.
TypeOK ==
  /\ SessionsTypeOK
  /\ users \in [Users -> {"unused", "admin", "viewer", "deleted"}]
  /\ setup \in {"none", "ready", "spent"}
  /\ work \in [Handlers -> Work]
  /\ overtaken \subseteq Handlers
  /\ mishap \in BOOLEAN
  /\ stale \subseteq Live
  /\ \A t \in Live : session[t].user \in Accounts

\* The guard on deleting the last admin holds for as long as deletions do not
\* overlap: the last one only goes by a request that counted the admins before
\* another request deleted one.
AdminRemains ==
  [][Admins # {} /\ Admins' = {} =>
       \E h \in overtaken : work[h].pc = "remove" /\ work'[h] = Idle]_vars

\* No input spends the setup token: while there is no account it is unspent, or
\* the first account is being created, or the database refused it, or two
\* overlapping deletions removed the admins.
SetupNotWasted ==
  Accounts = {} /\ setup = "spent" => mishap \/ \E h \in Handlers : work[h].pc = "create"

\* A changed password signs out every other device: a session that was open when
\* the password of its user changed is gone when the request is answered, unless
\* the deletion failed or the process died before it.
SignedOut ==
  \A t \in stale : \E h \in Handlers :
    work[h].pc = "sweep" /\ work[h].user = session[t].user /\ work[h].token # t
=============================================================================
