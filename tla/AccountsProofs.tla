--------------------------- MODULE AccountsProofs ---------------------------
(* Proofs about Sessions and Accounts for any number of users, tokens and    *)
(* requests, and any idle time, cap and touch interval.                      *)
EXTENDS Accounts, FiniteSetTheorems, TLAPS

-----------------------------------------------------------------------------
(* Sessions.                                                               *)

\* A row is not the absence of one.
LEMMA RowIsRow == \A s \in Row : s \notin NoRow
<1> SUFFICES ASSUME NEW s \in Row, s \in NoRow PROVE FALSE
  OBVIOUS
<1>1. "user" \in DOMAIN s
  BY DEF Row
<1>2. PICK why \in {"unissued", "expired", "revoked"} : s = [why |-> why]
  BY DEF NoRow, Missing
<1> QED
  BY <1>1, <1>2

\* What is known of a row.
LEMMA RowFields ==
  ASSUME NEW s \in Row
  PROVE  /\ s = [user |-> s.user, age |-> s.age, seen |-> s.seen, used |-> s.used]
         /\ s.user \in Users /\ s.age \in 0..SessionMax + 1
         /\ s.seen \in 0..SessionIdle + 1 /\ s.used \in 0..SessionIdle + 1
BY DEF Row

\* The rows that are written.
LEMMA RowForms ==
  \A u \in Users, a \in 0..SessionMax + 1, n \in 0..SessionIdle + 1, m \in 0..SessionIdle + 1 :
    [user |-> u, age |-> a, seen |-> n, used |-> m] \in Row
BY DEF Row

\* The three reasons why a token has no row.
LEMMA NoRowForms ==
  /\ \A why \in {"unissued", "expired", "revoked"} : Missing(why) \in NoRow
  /\ Missing("revoked") # Missing("expired") /\ Missing("unissued") # Missing("expired")
<1>1. Missing("revoked").why = "revoked" /\ Missing("expired").why = "expired"
      /\ Missing("unissued").why = "unissued"
  BY DEF Missing
<1> QED
  BY <1>1 DEF NoRow

\* What is written back lags behind the use by the touch interval at most.
Slid == \A t \in Live : /\ session[t].used <= session[t].seen
                        /\ session[t].seen <= session[t].used + TouchInterval

\* The action of IdleWindow.
Window ==
  \A t \in Live :
    /\ session'[t] = Missing("expired") =>
         \/ session[t].used > SessionIdle - TouchInterval
         \/ session[t].age > SessionMax
    /\ session'[t] \notin NoRow /\ session'[t].used < session[t].used =>
         session[t].used <= SessionIdle /\ session[t].age <= SessionMax

\* A step that opens no session, and hands none to another user.
Later ==
  /\ SessionsTypeOK' /\ Slid' /\ Window
  /\ Live' \subseteq Live
  /\ \A t \in Live' : session'[t].user = session[t].user

\* It is enough to look at each token.
LEMMA EachToken ==
  ASSUME NEW f, session' = [t \in Tokens |-> f[t]],
         \A t \in Tokens \ Live : f[t] = session[t],
         \A t \in Live :
           \/ f[t] = session[t]
           \/ /\ f[t] \in Row /\ f[t].user = session[t].user
              /\ f[t].used <= f[t].seen /\ f[t].seen <= f[t].used + TouchInterval
              /\ f[t].used < session[t].used =>
                   session[t].used <= SessionIdle /\ session[t].age <= SessionMax
           \/ f[t] = Missing("revoked")
           \/ /\ f[t] = Missing("expired")
              /\ \/ session[t].used > SessionIdle - TouchInterval
                 \/ session[t].age > SessionMax,
         SessionsTypeOK, Slid
  PROVE  Later
<1>1. \A t \in Tokens : session'[t] = f[t] /\ session[t] \in Row \cup NoRow
  BY DEF SessionsTypeOK
<1>2. \A t \in Live : t \in Tokens /\ session[t] \in Row /\ session[t] \notin NoRow
  BY <1>1 DEF Live
<1>3. SessionsTypeOK'
  BY <1>1, NoRowForms DEF SessionsTypeOK
<1>4. Live' \subseteq Live
  BY <1>1 DEF Live
<1>5. ASSUME NEW t \in Live'
      PROVE  /\ session'[t].user = session[t].user
             /\ session'[t].used <= session'[t].seen
             /\ session'[t].seen <= session'[t].used + TouchInterval
  <2>1. t \in Live /\ session'[t] \notin NoRow /\ session'[t] = f[t]
    BY <1>1, <1>4 DEF Live
  <2> QED
    BY <2>1, NoRowForms DEF Slid
<1>6. Slid'
  BY <1>5 DEF Slid
<1>7. Window
  <2> SUFFICES ASSUME NEW t \in Live
               PROVE  /\ session'[t] = Missing("expired") =>
                           \/ session[t].used > SessionIdle - TouchInterval
                           \/ session[t].age > SessionMax
                      /\ session'[t] \notin NoRow /\ session'[t].used < session[t].used =>
                           session[t].used <= SessionIdle /\ session[t].age <= SessionMax
    BY DEF Window
  <2>1. session'[t] = f[t] /\ session[t] \in Row /\ session[t] \notin NoRow
    BY <1>1, <1>2
  <2>2. CASE f[t] = session[t]
    BY <2>1, <2>2, RowFields, NoRowForms, SessionsAssumption
  <2>3. CASE f[t] \in Row /\ (f[t].used < session[t].used =>
                   session[t].used <= SessionIdle /\ session[t].age <= SessionMax)
    BY <2>1, <2>3, RowIsRow, NoRowForms
  <2>4. CASE f[t] = Missing("revoked")
    BY <2>1, <2>4, NoRowForms
  <2>5. CASE f[t] = Missing("expired") /\ (\/ session[t].used > SessionIdle - TouchInterval
                                           \/ session[t].age > SessionMax)
    BY <2>1, <2>5, NoRowForms
  <2> QED
    BY <2>2, <2>3, <2>4, <2>5
<1> QED
  BY <1>3, <1>4, <1>5, <1>6, <1>7 DEF Later

\* Nothing happens to the sessions.
LEMMA SameSessions ==
  ASSUME SessionsTypeOK, Slid, UNCHANGED session
  PROVE  Later
<1>1. session' = [t \in Tokens |-> session[t]]
  BY DEF SessionsTypeOK
<1> QED
  BY <1>1, EachToken

\* An accepted request slides the expiry.
LEMMA TouchLater ==
  ASSUME SessionsTypeOK, Slid, NEW t \in Tokens, Accepted(t), session' = Touched(t)
  PROVE  Later /\ Live' = Live
<1>1. /\ t \in Live /\ session[t] \in Row /\ ~Expired(session[t])
      /\ session[t].used <= session[t].seen /\ session[t].seen <= session[t].used + TouchInterval
  BY DEF Accepted, Live, SessionsTypeOK, Slid
<1> DEFINE n == IF session[t].seen > TouchInterval THEN 0 ELSE session[t].seen
           x == [user |-> session[t].user, age |-> session[t].age, seen |-> n, used |-> 0]
           f == [session EXCEPT ![t] = x]
<1>2. session' = f
  BY DEF Touched, SessionsTypeOK
<1>3. /\ session[t].user \in Users /\ session[t].age \in 0..SessionMax + 1
      /\ session[t].seen \in 0..SessionIdle + 1 /\ session[t].used \in 0..SessionIdle + 1
  BY <1>1, RowFields
<1>4. n \in 0..SessionIdle + 1 /\ 0 \in 0..SessionIdle + 1 /\ 0 <= n /\ n <= TouchInterval
  BY <1>3, SessionsAssumption
<1>5. x \in Row /\ x.user = session[t].user /\ x.used = 0 /\ x.seen = n
  BY <1>3, <1>4, RowForms
<1>6. session[t].used <= SessionIdle /\ session[t].age <= SessionMax
  BY <1>1, <1>3, SessionsAssumption DEF Expired
<1> HIDE DEF n, x
<1>7. f = [s \in Tokens |-> f[s]]
  BY DEF SessionsTypeOK
<1>8. \A s \in Tokens : f[s] = IF s = t THEN x ELSE session[s]
  BY DEF SessionsTypeOK
<1>9. x.used <= x.seen /\ x.seen <= x.used + TouchInterval
  BY <1>4, <1>5, SessionsAssumption
<1> HIDE DEF f
<1>10. \A s \in Tokens \ Live : f[s] = session[s]
  BY <1>1, <1>8
<1>11. \A s \in Live :
           \/ f[s] = session[s]
           \/ /\ f[s] \in Row /\ f[s].user = session[s].user
              /\ f[s].used <= f[s].seen /\ f[s].seen <= f[s].used + TouchInterval
              /\ f[s].used < session[s].used =>
                   session[s].used <= SessionIdle /\ session[s].age <= SessionMax
  BY <1>5, <1>6, <1>8, <1>9 DEF Live
<1>12. Live' = Live
  BY <1>1, <1>2, <1>5, <1>8, RowIsRow DEF Live
<1> QED
  BY <1>2, <1>7, <1>10, <1>11, <1>12, EachToken

\* Rows are deleted by name, or because they expired.
LEMMA RowsGo ==
  ASSUME SessionsTypeOK, Slid, NEW T \in SUBSET Tokens, NEW why \in {"expired", "revoked"},
         why = "expired" => T \subseteq Live /\ \A t \in T : Expired(session[t]),
         session' = [t \in Tokens |-> IF t \in T THEN Missing(why) ELSE session[t]],
         T \subseteq Live
  PROVE  Later
<1> DEFINE f == [t \in Tokens |-> IF t \in T THEN Missing(why) ELSE session[t]]
<1>1. \A t \in Tokens : f[t] = IF t \in T THEN Missing(why) ELSE session[t]
  OBVIOUS
<1>2. session' = [t \in Tokens |-> f[t]]
  OBVIOUS
<1>3. ASSUME NEW t \in T, why = "expired"
      PROVE  \/ session[t].used > SessionIdle - TouchInterval
             \/ session[t].age > SessionMax
  <2>1. t \in Live /\ session[t] \in Row
    BY <1>3 DEF Live, SessionsTypeOK
  <2> QED
    BY <1>3, <2>1, RowFields, SessionsAssumption DEF Slid, Expired
<1> HIDE DEF f
<1>4. \A t \in Tokens \ Live : f[t] = session[t]
  BY <1>1
<1>5. \A t \in Live :
           \/ f[t] = session[t]
           \/ f[t] = Missing("revoked")
           \/ /\ f[t] = Missing("expired")
              /\ \/ session[t].used > SessionIdle - TouchInterval
                 \/ session[t].age > SessionMax
  BY <1>1, <1>3 DEF Live
<1> QED
  BY <1>2, <1>4, <1>5, EachToken

\* Time passes.
LEMMA TickLater ==
  ASSUME SessionsTypeOK, Slid, SessionsTick
  PROVE  Later
<1> DEFINE f == [t \in Tokens |-> IF t \in Live THEN Older(session[t]) ELSE session[t]]
<1>1. ASSUME NEW t \in Live
      PROVE  /\ Older(session[t]) \in Row /\ Older(session[t]).user = session[t].user
             /\ Older(session[t]).used <= Older(session[t]).seen
             /\ Older(session[t]).seen <= Older(session[t]).used + TouchInterval
             /\ ~(Older(session[t]).used < session[t].used)
  <2>1. session[t] \in Row
    BY DEF Live, SessionsTypeOK
  <2>2. /\ session[t] = [user |-> session[t].user, age |-> session[t].age,
                        seen |-> session[t].seen, used |-> session[t].used]
        /\ session[t].user \in Users /\ session[t].age \in 0..SessionMax + 1
        /\ session[t].seen \in 0..SessionIdle + 1 /\ session[t].used \in 0..SessionIdle + 1
    BY <2>1, RowFields
  <2>3. session[t].used <= session[t].seen /\ session[t].seen <= session[t].used + TouchInterval
    BY DEF Slid
  <2>4. /\ Capped(session[t].age, SessionMax + 1) \in 0..SessionMax + 1
        /\ Capped(session[t].seen, SessionIdle + 1) \in 0..SessionIdle + 1
        /\ Capped(session[t].used, SessionIdle + 1) \in 0..SessionIdle + 1
    BY <2>2, SessionsAssumption DEF Capped
  <2>5. /\ Capped(session[t].used, SessionIdle + 1) <= Capped(session[t].seen, SessionIdle + 1)
        /\ Capped(session[t].seen, SessionIdle + 1)
             <= Capped(session[t].used, SessionIdle + 1) + TouchInterval
        /\ session[t].used <= Capped(session[t].used, SessionIdle + 1)
    BY <2>2, <2>3, SessionsAssumption DEF Capped
  <2>6. Older(session[t]) \in Row
    BY <2>2, <2>4, RowForms DEF Older
  <2> QED
    BY <2>2, <2>4, <2>5, <2>6 DEF Older
<1>2. session' = f
  BY DEF SessionsTick
<1>3. \A t \in Tokens : f[t] = IF t \in Live THEN Older(session[t]) ELSE session[t]
  OBVIOUS
<1>4. session' = [t \in Tokens |-> f[t]]
  BY <1>2
<1> HIDE DEF f
<1>5. \A t \in Tokens \ Live : f[t] = session[t]
  BY <1>3
<1>6. \A t \in Live :
           /\ f[t] \in Row /\ f[t].user = session[t].user
           /\ f[t].used <= f[t].seen /\ f[t].seen <= f[t].used + TouchInterval
           /\ f[t].used < session[t].used =>
                session[t].used <= SessionIdle /\ session[t].age <= SessionMax
  BY <1>1, <1>3 DEF Live
<1> QED
  BY <1>4, <1>5, <1>6, EachToken
-----------------------------------------------------------------------------
(* The inductive invariant of Accounts.                                    *)

\* A deletion that was not overtaken leaves an admin.
Counted ==
  \A h \in Handlers \ overtaken :
    work[h].pc = "remove" /\ work[h].user \in Admins => \E v \in Admins : v # work[h].user

\* Nobody is asked to delete an account that does not exist yet.
Known == \A h \in Handlers : work[h].pc \in {"count", "remove"} => users[work[h].user] # "unused"

\* While there is no admin the setup token is unspent, or one of the accidents of
\* SetupNotWasted has happened.
SetupKept ==
  Admins = {} /\ setup = "spent" => mishap \/ \E h \in Handlers : work[h].pc = "create"

IInv == TypeOK /\ Slid /\ Counted /\ Known /\ SetupKept /\ SignedOut

\* What SMT needs to know of a handler.
LEMMA WorkFields ==
  ASSUME NEW x \in Work
  PROVE  /\ x.pc \in {"idle", "consume", "create", "session", "count", "remove", "update", "sweep"}
         /\ x.pc = "idle" <=> x = Idle
         /\ x.pc \in {"session", "count", "remove"} => x.user \in Users
         /\ x.pc \in {"update", "sweep"} => x.user \in Users /\ x.token \in Tokens
BY DEF Work, Idle

\* What the handlers are set to.
LEMMA WorkForms ==
  /\ Idle \in Work /\ Idle.pc = "idle"
  /\ \A p \in {"consume", "create"} : [pc |-> p] \in Work
  /\ \A p \in {"session", "count", "remove"}, u \in Users : [pc |-> p, user |-> u] \in Work
  /\ \A p \in {"update", "sweep"}, u \in Users, t \in Tokens :
       [pc |-> p, user |-> u, token |-> t] \in Work
BY DEF Work, Idle

\* One handler goes on.
LEMMA WorkGoes ==
  ASSUME work \in [Handlers -> Work], NEW h \in Handlers, NEW x \in Work, Goto(h, x)
  PROVE  /\ work' \in [Handlers -> Work] /\ work'[h] = x
         /\ \A g \in Handlers : g # h => work'[g] = work[g]
BY DEF Goto

\* The invariant holds at the start.
LEMMA InitInv == Init => IInv
<1> SUFFICES ASSUME Init PROVE IInv
  OBVIOUS
<1>1. SessionsTypeOK /\ Live = {}
  BY NoRowForms DEF Init, SessionsInit, SessionsTypeOK, Live
<1>2. work \in [Handlers -> Work] /\ \A h \in Handlers : work[h].pc = "idle"
  BY WorkForms DEF Init
<1>3. TypeOK
  BY <1>1, <1>2 DEF Init, TypeOK
<1>4. Slid /\ Counted /\ Known /\ SetupKept /\ SignedOut
  BY <1>1, <1>2 DEF Init, Slid, Counted, Known, SetupKept, SignedOut
<1> QED
  BY <1>3, <1>4 DEF IInv

\* A session that stays open keeps its user.
LEMMA LaterOwner ==
  ASSUME TypeOK, Later, Accounts \subseteq Accounts'
  PROVE  \A t \in Live' : t \in Live /\ session'[t].user \in Accounts'
BY DEF TypeOK, Later

\* A session whose password changed still waits for its handler.
LEMMA LaterSignedOut ==
  ASSUME SignedOut, Later, NEW S, S \subseteq stale, S \subseteq Live',
         \A g \in Handlers : work[g].pc = "sweep" =>
            \/ work'[g] = work[g]
            \/ \A t \in S : session[t].user # work[g].user \/ t = work[g].token,
         stale' = S
  PROVE  SignedOut'
<1> SUFFICES ASSUME NEW t \in stale'
             PROVE  \E h \in Handlers : /\ work'[h].pc = "sweep" /\ work'[h].user = session'[t].user
                                        /\ work'[h].token # t
  BY DEF SignedOut
<1>1. t \in stale /\ t \in S /\ session'[t].user = session[t].user
  BY DEF Later
<1>2. PICK h \in Handlers : /\ work[h].pc = "sweep" /\ work[h].user = session[t].user
                            /\ work[h].token # t
  BY <1>1 DEF SignedOut
<1> QED
  BY <1>1, <1>2

\* A handler begins, or goes on, without touching accounts: what remains to be shown.
LEMMA HandlerKeeps ==
  ASSUME IInv, Later, NEW h \in Handlers, NEW x \in Work, Goto(h, x), UNCHANGED <<users, mishap, overtaken>>,
         setup' \in {"none", "ready", "spent"},
         stale' \subseteq stale, stale' \subseteq Live',
         work[h].pc = "sweep" =>
            \A t \in stale' : session[t].user # work[h].user \/ t = work[h].token,
         x.pc \in {"count", "remove"} => users[x.user] # "unused",
         x.pc = "remove" /\ x.user \in Admins => \E v \in Admins : v # x.user,
         setup' = "spent" => x.pc = "create" \/ (setup = "spent" /\ work[h].pc # "create")
  PROVE  IInv'
<1>1. TypeOK /\ Counted /\ Known /\ SetupKept /\ SignedOut
  BY DEF IInv
<1>2. /\ work' \in [Handlers -> Work] /\ work'[h] = x
      /\ \A g \in Handlers : g # h => work'[g] = work[g]
  BY <1>1, WorkGoes DEF TypeOK
<1>3. Accounts' = Accounts /\ Admins' = Admins
  BY DEF Accounts, Admins
<1>4. TypeOK'
  BY <1>1, <1>2, <1>3, LaterOwner DEF TypeOK, Later
<1>5. Counted'
  BY <1>1, <1>2, <1>3 DEF Counted
<1>6. Known'
  BY <1>1, <1>2 DEF Known
<1>7. SetupKept'
  BY <1>1, <1>2, <1>3 DEF SetupKept
<1>8. SignedOut'
  BY <1>1, <1>2, LaterSignedOut
<1> QED
  BY <1>4, <1>5, <1>6, <1>7, <1>8 DEF IInv, Later

\* Requests that are one step, and maintenance.
LEMMA RequestKeeps ==
  ASSUME IInv, Later, UNCHANGED <<users, setup, work, overtaken, mishap>>,
         stale' \subseteq stale, stale' \subseteq Live'
  PROVE  IInv'
<1>1. TypeOK /\ Counted /\ Known /\ SetupKept /\ SignedOut
  BY DEF IInv
<1>2. Accounts' = Accounts /\ Admins' = Admins
  BY DEF Accounts, Admins
<1>3. TypeOK'
  BY <1>1, <1>2, LaterOwner DEF TypeOK, Later
<1>4. Counted' /\ Known' /\ SetupKept'
  BY <1>1, <1>2 DEF Counted, Known, SetupKept
<1>5. SignedOut'
  BY <1>1, LaterSignedOut
<1> QED
  BY <1>3, <1>4, <1>5 DEF IInv, Later

\* Sessions that were opened, are used, or are closed.
LEMMA SessionActionsKeep ==
  ASSUME IInv, \/ \E t \in Tokens : Request(t) \/ Logout(t)
               \/ Maintain
  PROVE  IInv' /\ Window
<1>1. TypeOK /\ SessionsTypeOK /\ Slid /\ stale \subseteq Live
  BY DEF IInv, TypeOK
<1>2. ASSUME NEW t \in Tokens, Request(t)
      PROVE  IInv' /\ Window
  <2>1. Later
    <3>1. CASE Accepted(t) /\ session' = Touched(t)
      BY <1>1, <3>1, TouchLater
    <3>2. CASE t \in Live /\ ~Accepted(t) /\ session' = [session EXCEPT ![t] = Missing("expired")]
      <4>1. session' = [s \in Tokens |-> IF s \in {t} THEN Missing("expired") ELSE session[s]]
        BY <1>1, <3>2 DEF SessionsTypeOK
      <4>2. {t} \in SUBSET Tokens /\ {t} \subseteq Live /\ \A s \in {t} : Expired(session[s])
        BY <3>2 DEF Accepted
      <4> QED
        BY <1>1, <4>1, <4>2, RowsGo
    <3> QED
      BY <1>2, <3>1, <3>2 DEF Request, Resolve
  <2>2. /\ UNCHANGED <<users, setup, work, overtaken, mishap>>
        /\ stale' \subseteq stale /\ stale' \subseteq Live'
    BY <1>2 DEF Request
  <2> QED
    BY <2>1, <2>2, RequestKeeps DEF Later
<1>3. ASSUME NEW t \in Tokens, Logout(t)
      PROVE  IInv' /\ Window
  <2>1. t \in Live /\ session' = [s \in Tokens |-> IF s \in {t} THEN Missing("revoked") ELSE session[s]]
    BY <1>3 DEF Logout, Accepted, Revoke
  <2>2. {t} \in SUBSET Tokens /\ {t} \subseteq Live /\ "revoked" # "expired"
    BY <2>1
  <2>3. Later
    BY <1>1, <2>1, <2>2, RowsGo
  <2>4. /\ UNCHANGED <<users, setup, work, overtaken, mishap>>
        /\ stale' \subseteq stale /\ stale' \subseteq Live'
    BY <1>1, <1>3, <2>1 DEF Logout, Live
  <2> QED
    BY <2>3, <2>4, RequestKeeps DEF Later
<1>4. CASE Maintain
  <2> DEFINE T == {t \in Live : session[t].seen > SessionIdle}
  <2>1. session' = [t \in Tokens |-> IF t \in T THEN Missing("expired") ELSE session[t]]
    BY <1>4 DEF Maintain, Prune
  <2>2. T \in SUBSET Tokens /\ T \subseteq Live /\ \A t \in T : Expired(session[t])
    BY DEF Live, Expired
  <2> HIDE DEF T
  <2>3. Later
    BY <1>1, <2>1, <2>2, RowsGo
  <2>4. /\ UNCHANGED <<users, setup, work, overtaken, mishap>>
        /\ stale' \subseteq stale /\ stale' \subseteq Live'
    BY <1>4 DEF Maintain
  <2> QED
    BY <2>3, <2>4, RequestKeeps DEF Later
<1> QED
  BY <1>2, <1>3, <1>4

\* Somebody acts as an admin.
LEMMA AdminActs ==
  ASSUME SessionsTypeOK, Slid, NEW who, AsAdmin(who)
  PROVE  Later /\ Live' = Live
<1>1. CASE UNCHANGED session
  BY <1>1, SameSessions DEF Live
<1>2. ASSUME NEW t \in Live, Accepted(t), session' = Touched(t)
      PROVE  Later /\ Live' = Live
  BY <1>2, TouchLater DEF Live
<1> QED
  BY <1>1, <1>2 DEF AsAdmin

\* Handlers that begin.
LEMMA StartKeeps ==
  ASSUME IInv, NEW h \in Handlers,
         \/ StartSetup(h)
         \/ \E u \in Users : StartLogin(h, u)
         \/ \E t \in Tokens : StartChange(h, t)
         \/ \E who \in Users \cup {"api-key"}, u \in Users : StartDelete(h, who, u)
  PROVE  IInv' /\ Window
<1>1. TypeOK /\ SessionsTypeOK /\ Slid /\ stale \subseteq Live
  BY DEF IInv, TypeOK
<1>2. ASSUME NEW x \in Work, work[h] = Idle, Goto(h, x), Later, Live' = Live,
             UNCHANGED <<users, setup, overtaken, mishap, stale>>,
             x.pc # "create",
             x.pc \in {"count", "remove"} => users[x.user] # "unused",
             x.pc = "remove" => x.user \notin Admins
      PROVE  IInv' /\ Window
  <2>1. work[h].pc = "idle"
    BY <1>2 DEF Idle
  <2>2. setup' \in {"none", "ready", "spent"} /\ stale' \subseteq stale /\ stale' \subseteq Live'
    BY <1>1, <1>2 DEF TypeOK
  <2> QED
    BY <1>1, <1>2, <2>1, <2>2, HandlerKeeps DEF Later
<1>3. CASE StartSetup(h)
  <2>1. [pc |-> "consume"] \in Work /\ [pc |-> "consume"].pc = "consume"
    BY WorkForms
  <2>2. Later /\ Live' = Live
    BY <1>1, <1>3, SameSessions DEF StartSetup, Live
  <2> QED
    BY <1>2, <1>3, <2>1, <2>2 DEF StartSetup
<1>4. ASSUME NEW u \in Users, StartLogin(h, u)
      PROVE  IInv' /\ Window
  <2> DEFINE x == [pc |-> "session", user |-> u]
  <2>1. x \in Work /\ x.pc = "session"
    BY WorkForms
  <2>2. Later /\ Live' = Live
    BY <1>1, <1>4, SameSessions DEF StartLogin, Live
  <2>3. Goto(h, x)
    BY <1>4 DEF StartLogin
  <2> HIDE DEF x
  <2> QED
    BY <1>2, <1>4, <2>1, <2>2, <2>3 DEF StartLogin
<1>5. ASSUME NEW t \in Tokens, StartChange(h, t)
      PROVE  IInv' /\ Window
  <2> DEFINE x == [pc |-> "update", user |-> session[t].user, token |-> t]
  <2>1. session[t].user \in Users
    BY <1>1, <1>5, RowFields DEF StartChange, Accepted, Live, SessionsTypeOK
  <2>2. x \in Work /\ x.pc = "update"
    BY <2>1, WorkForms
  <2>3. Later /\ Live' = Live
    BY <1>1, <1>5, TouchLater DEF StartChange
  <2>4. Goto(h, x)
    BY <1>5 DEF StartChange
  <2> HIDE DEF x
  <2> QED
    BY <1>2, <1>5, <2>2, <2>3, <2>4 DEF StartChange
<1>6. ASSUME NEW who \in Users \cup {"api-key"}, NEW u \in Users, StartDelete(h, who, u)
      PROVE  IInv' /\ Window
  <2> DEFINE p == IF u \in Admins THEN "count" ELSE "remove"
             x == [pc |-> p, user |-> u]
  <2>1. p \in {"count", "remove"} /\ (p = "remove" => u \notin Admins)
    OBVIOUS
  <2>2. x \in Work /\ x.pc = p /\ x.user = u
    BY <2>1, WorkForms
  <2>3. Later /\ Live' = Live
    BY <1>1, <1>6, AdminActs DEF StartDelete
  <2>4. users[u] # "unused"
    BY <1>6 DEF StartDelete, Accounts
  <2>5. Goto(h, x)
    BY <1>6 DEF StartDelete
  <2> HIDE DEF p, x
  <2> QED
    BY <1>2, <1>6, <2>1, <2>2, <2>3, <2>4, <2>5 DEF StartDelete
<1> QED
  BY <1>3, <1>4, <1>5, <1>6

\* The setup token is spent by a handler that goes on to create the first admin.
LEMMA ConsumeKeeps ==
  ASSUME IInv, NEW h \in Handlers, Consume(h)
  PROVE  IInv' /\ Window
<1>1. TypeOK /\ SessionsTypeOK /\ Slid /\ stale \subseteq Live /\ work[h].pc = "consume"
  BY DEF IInv, TypeOK, Consume
<1>2. Later /\ Live' = Live
  BY <1>1, SameSessions DEF Consume, Live
<1>3. PICK x \in {Idle, [pc |-> "create"]} :
        /\ Goto(h, x) /\ setup' \in {"none", "ready", "spent"}
        /\ setup' = "spent" => x.pc = "create" \/ setup = "spent"
  <2>1. [pc |-> "create"].pc = "create"
    OBVIOUS
  <2> QED
    BY <1>1, <2>1 DEF Consume, TypeOK
<1>4. x \in Work /\ x.pc \in {"idle", "create"}
  BY <1>3, WorkForms
<1>5. UNCHANGED <<users, mishap, overtaken, stale>>
  BY DEF Consume
<1> QED
  BY <1>1, <1>2, <1>3, <1>4, <1>5, HandlerKeeps DEF Later

\* The admins are counted.
LEMMA CountKeeps ==
  ASSUME IInv, NEW h \in Handlers, Count(h)
  PROVE  IInv' /\ Window
<1>1. /\ TypeOK /\ SessionsTypeOK /\ Slid /\ stale \subseteq Live
      /\ work[h] \in Work /\ work[h].pc = "count" /\ Known
  BY DEF IInv, TypeOK, Count
<1>2. Later /\ Live' = Live
  BY <1>1, SameSessions DEF Count, Live
<1> DEFINE u == work[h].user
<1>3. u \in Users /\ users[u] # "unused"
  BY <1>1, WorkFields DEF Known
<1>4. ASSUME ~(Cardinality(Admins) <= 1)
      PROVE  \E v \in Admins : v # u
  <2> SUFFICES ASSUME Admins \subseteq {u} PROVE Cardinality(Admins) <= 1
    BY <1>4
  <2>1. IsFiniteSet({u}) /\ Cardinality({u}) = 1
    BY FS_Singleton
  <2> QED
    BY <2>1, FS_Subset
<1> DEFINE x == IF Cardinality(Admins) <= 1 THEN Idle ELSE [pc |-> "remove", user |-> u]
<1>5. x \in Work /\ x.pc \in {"idle", "remove"} /\ (x.pc = "remove" => x.user = u /\ ~(Cardinality(Admins) <= 1))
  <2>1. CASE Cardinality(Admins) <= 1
    BY <2>1, WorkForms
  <2>2. CASE ~(Cardinality(Admins) <= 1)
    BY <1>3, <2>2, WorkForms
  <2> QED
    BY <2>1, <2>2
<1>6. Goto(h, x) /\ UNCHANGED <<users, setup, mishap, overtaken, stale>>
  BY DEF Count
<1> HIDE DEF x
<1>7. setup' \in {"none", "ready", "spent"} /\ stale' \subseteq stale /\ stale' \subseteq Live'
  BY <1>1, <1>2, <1>6 DEF TypeOK
<1> HIDE DEF u
<1> QED
  BY <1>1, <1>2, <1>3, <1>4, <1>5, <1>6, <1>7, HandlerKeeps DEF Later

\* The sweep ends what was stale because of it.
LEMMA SweepKeeps ==
  ASSUME IInv, NEW h \in Handlers, Sweep(h)
  PROVE  IInv' /\ Window
<1>1. /\ TypeOK /\ SessionsTypeOK /\ Slid /\ stale \subseteq Live
      /\ work[h] \in Work /\ work[h].pc = "sweep"
  BY DEF IInv, TypeOK, Sweep
<1> DEFINE others == SessionsOf(work[h].user) \ {work[h].token}
<1>2. others \in SUBSET Tokens /\ others \subseteq Live
  BY DEF SessionsOf, Live
<1>3. /\ Goto(h, Idle) /\ stale' = stale \ others
      /\ Revoke(others) \/ UNCHANGED session
      /\ UNCHANGED <<users, setup, overtaken, mishap>>
  BY DEF Sweep
<1>4. \A t \in stale' : session[t].user # work[h].user \/ t = work[h].token
  BY <1>1, <1>3 DEF SessionsOf
<1> HIDE DEF others
<1>5. Later /\ Live \ others \subseteq Live'
  <2>1. CASE Revoke(others)
    <3>1. session' = [t \in Tokens |-> IF t \in others THEN Missing("revoked") ELSE session[t]]
      BY <2>1 DEF Revoke
    <3>2. "revoked" # "expired"
      OBVIOUS
    <3>3. Later
      BY <1>1, <1>2, <3>1, <3>2, RowsGo
    <3> QED
      BY <3>1, <3>3 DEF Live
  <2>2. CASE UNCHANGED session
    BY <1>1, <2>2, SameSessions DEF Live
  <2> QED
    BY <1>3, <2>1, <2>2
<1>6. setup' \in {"none", "ready", "spent"} /\ stale' \subseteq stale /\ stale' \subseteq Live'
  BY <1>1, <1>3, <1>5 DEF TypeOK
<1> QED
  BY <1>1, <1>3, <1>4, <1>5, <1>6, WorkForms, HandlerKeeps DEF Later

\* The handler that changed the password is the one to sweep.
LEMMA UpdateKeeps ==
  ASSUME IInv, NEW h \in Handlers, UpdatePassword(h)
  PROVE  IInv' /\ Window
<1>1. /\ TypeOK /\ SessionsTypeOK /\ Slid /\ stale \subseteq Live /\ SignedOut
      /\ Counted /\ Known /\ SetupKept
      /\ work[h] \in Work /\ work[h].pc = "update" /\ work \in [Handlers -> Work]
  BY DEF IInv, TypeOK, UpdatePassword
<1>2. Later /\ Live' = Live
  BY <1>1, SameSessions DEF UpdatePassword, Live
<1> DEFINE u == work[h].user
           own == work[h].token
           x == [pc |-> "sweep", user |-> u, token |-> own]
<1>3. u \in Users /\ own \in Tokens
  BY <1>1, WorkFields
<1>4. UNCHANGED <<session, users, setup, overtaken, mishap>>
  BY DEF UpdatePassword
<1>5. CASE Goto(h, Idle) /\ UNCHANGED stale
  <2>1. setup' \in {"none", "ready", "spent"} /\ stale' \subseteq stale /\ stale' \subseteq Live'
    BY <1>1, <1>2, <1>4, <1>5 DEF TypeOK
  <2> QED
    BY <1>1, <1>2, <1>4, <1>5, <2>1, WorkForms, HandlerKeeps DEF Later
<1>6. CASE Goto(h, x) /\ stale' = (stale \cup SessionsOf(u)) \ {own}
  <2>1. x \in Work /\ x.pc = "sweep" /\ x.user = u /\ x.token = own
    BY <1>3, WorkForms
  <2> HIDE DEF x
  <2>2. /\ work' \in [Handlers -> Work] /\ work'[h] = x
        /\ \A g \in Handlers : g # h => work'[g] = work[g]
    BY <1>1, <1>6, <2>1, WorkGoes
  <2>3. Accounts' = Accounts /\ Admins' = Admins
    BY <1>4 DEF Accounts, Admins
  <2>4. stale' \subseteq Live'
    BY <1>1, <1>2, <1>6 DEF SessionsOf
  <2>5. TypeOK'
    BY <1>1, <1>2, <1>4, <2>2, <2>3, <2>4, LaterOwner DEF TypeOK, Later
  <2>6. Counted' /\ Known' /\ SetupKept'
    BY <1>1, <1>4, <2>1, <2>2, <2>3 DEF Counted, Known, SetupKept
  <2>7. SignedOut'
    <3> SUFFICES ASSUME NEW t \in stale'
                 PROVE  \E g \in Handlers : /\ work'[g].pc = "sweep" /\ work'[g].user = session'[t].user
                                            /\ work'[g].token # t
      BY DEF SignedOut
    <3>1. CASE t \in SessionsOf(u)
      BY <1>4, <1>6, <2>1, <2>2, <3>1 DEF SessionsOf
    <3>2. CASE t \in stale
      <4>1. PICK g \in Handlers : /\ work[g].pc = "sweep" /\ work[g].user = session[t].user
                                  /\ work[g].token # t
        BY <1>1, <3>2 DEF SignedOut
      <4> QED
        BY <1>1, <1>4, <2>2, <4>1
    <3> QED
      BY <1>6, <3>1, <3>2
  <2> QED
    BY <1>2, <2>5, <2>6, <2>7 DEF IInv, Later
<1> QED
  BY <1>5, <1>6 DEF UpdatePassword

\* An account more: nobody was about to delete it.
LEMMA NewAccount ==
  ASSUME IInv, NEW u \in Users, NEW role \in {"admin", "viewer"}, users[u] = "unused",
         users' = [users EXCEPT ![u] = role]
  PROVE  /\ users' \in [Users -> {"unused", "admin", "viewer", "deleted"}]
         /\ Accounts \subseteq Accounts' /\ Admins \subseteq Admins'
         /\ role = "admin" => u \in Admins'
         /\ \A v \in Users : users[v] # "unused" =>
              users'[v] # "unused" /\ (v \in Admins' => v \in Admins)
BY DEF IInv, TypeOK, Accounts, Admins

\* A new account opens no session and takes no administrator away.
LEMMA CreateUserKeeps ==
  ASSUME IInv, NEW u \in Users, NEW role \in {"admin", "viewer"}, CreateUser(u, role)
  PROVE  IInv' /\ Window
<1>1. /\ TypeOK /\ SessionsTypeOK /\ Slid /\ SignedOut /\ Counted /\ Known /\ SetupKept
      /\ users[u] = "unused" /\ users' = [users EXCEPT ![u] = role]
      /\ UNCHANGED <<setup, work, overtaken, mishap, stale>>
  BY DEF IInv, TypeOK, CreateUser
<1>2. Later /\ Live' = Live
  BY <1>1, AdminActs DEF CreateUser
<1>3. /\ users' \in [Users -> {"unused", "admin", "viewer", "deleted"}]
      /\ Accounts \subseteq Accounts' /\ Admins \subseteq Admins'
      /\ \A v \in Users : users[v] # "unused" =>
           users'[v] # "unused" /\ (v \in Admins' => v \in Admins)
  BY <1>1, NewAccount
<1>4. \A h \in Handlers : work[h].pc \in {"count", "remove"} =>
        work[h].user \in Users /\ users[work[h].user] # "unused"
  BY <1>1, WorkFields DEF TypeOK, Known
<1>5. TypeOK'
  BY <1>1, <1>2, <1>3, LaterOwner DEF TypeOK, Later
<1>6. Counted'
  BY <1>1, <1>3, <1>4 DEF Counted
<1>7. Known'
  BY <1>1, <1>3, <1>4 DEF Known
<1>8. SetupKept'
  BY <1>1, <1>3 DEF SetupKept
<1>9. SignedOut'
  BY <1>1, <1>2, LaterSignedOut DEF TypeOK
<1> QED
  BY <1>2, <1>5, <1>6, <1>7, <1>8, <1>9 DEF IInv, Later

\* The first admin is created, or that was the mishap.
LEMMA CreateFirstKeeps ==
  ASSUME IInv, NEW h \in Handlers, CreateFirst(h)
  PROVE  IInv' /\ Window
<1>1. /\ TypeOK /\ SessionsTypeOK /\ Slid /\ SignedOut /\ Counted /\ Known /\ SetupKept
      /\ work \in [Handlers -> Work] /\ work[h].pc = "create"
      /\ UNCHANGED <<session, setup, overtaken, stale>>
  BY DEF IInv, TypeOK, CreateFirst
<1>2. Later /\ Live' = Live
  BY <1>1, SameSessions DEF Live
<1>3. \A g \in Handlers : work[g].pc \in {"count", "remove"} =>
        work[g].user \in Users /\ users[work[g].user] # "unused"
  BY <1>1, WorkFields DEF TypeOK, Known
<1>4. ASSUME NEW x \in Work, x.pc \in {"idle", "session"}, Goto(h, x),
             users' \in [Users -> {"unused", "admin", "viewer", "deleted"}],
             Accounts \subseteq Accounts', Admins \subseteq Admins',
             \A v \in Users : users[v] # "unused" =>
               users'[v] # "unused" /\ (v \in Admins' => v \in Admins),
             mishap' \in BOOLEAN, mishap' \/ Admins' # {}
      PROVE  IInv' /\ Window
  <2>1. /\ work' \in [Handlers -> Work] /\ work'[h] = x
        /\ \A g \in Handlers : g # h => work'[g] = work[g]
    BY <1>1, <1>4, WorkGoes
  <2>2. TypeOK'
    BY <1>1, <1>2, <1>4, <2>1, LaterOwner DEF TypeOK, Later
  <2>3. Counted'
    BY <1>1, <1>3, <1>4, <2>1 DEF Counted
  <2>4. Known'
    BY <1>3, <1>4, <2>1 DEF Known
  <2>5. SetupKept'
    BY <1>4 DEF SetupKept
  <2>6. SignedOut'
    BY <1>1, <1>2, <2>1, LaterSignedOut DEF TypeOK
  <2> QED
    BY <1>2, <2>2, <2>3, <2>4, <2>5, <2>6 DEF IInv, Later
<1>5. ASSUME NEW u \in Users, users[u] = "unused", users' = [users EXCEPT ![u] = "admin"],
             Goto(h, [pc |-> "session", user |-> u]), UNCHANGED mishap
      PROVE  IInv' /\ Window
  <2> DEFINE x == [pc |-> "session", user |-> u]
  <2>1. x \in Work /\ x.pc = "session" /\ Goto(h, x)
    BY <1>5, WorkForms
  <2> HIDE DEF x
  <2>2. /\ users' \in [Users -> {"unused", "admin", "viewer", "deleted"}]
        /\ Accounts \subseteq Accounts' /\ Admins \subseteq Admins' /\ u \in Admins'
        /\ \A v \in Users : users[v] # "unused" =>
             users'[v] # "unused" /\ (v \in Admins' => v \in Admins)
    BY <1>5, NewAccount
  <2> QED
    BY <1>1, <1>4, <1>5, <2>1, <2>2 DEF TypeOK
<1>6. CASE Goto(h, Idle) /\ mishap' = TRUE /\ UNCHANGED users
  BY <1>1, <1>4, <1>6, WorkForms DEF TypeOK, Accounts, Admins
<1> QED
  BY <1>5, <1>6 DEF CreateFirst

\* A session is opened for an account that exists.
LEMMA OpenKeeps ==
  ASSUME IInv, NEW h \in Handlers, OpenSession(h)
  PROVE  IInv' /\ Window
<1>1. /\ TypeOK /\ SessionsTypeOK /\ Slid /\ SignedOut /\ Counted /\ Known /\ SetupKept
      /\ work \in [Handlers -> Work] /\ work[h].pc = "session" /\ stale \subseteq Live
      /\ UNCHANGED <<users, setup, overtaken, mishap, stale>> /\ Goto(h, Idle)
  BY DEF IInv, TypeOK, OpenSession
<1>2. CASE UNCHANGED session
  <2>1. Later /\ Live' = Live
    BY <1>1, <1>2, SameSessions DEF Live
  <2>2. setup' \in {"none", "ready", "spent"} /\ stale' \subseteq stale /\ stale' \subseteq Live'
    BY <1>1, <2>1 DEF TypeOK
  <2> QED
    BY <1>1, <2>1, <2>2, WorkForms, HandlerKeeps DEF Later
<1>3. ASSUME NEW t \in Tokens, work[h].user \in Accounts, Issue(t, work[h].user)
      PROVE  IInv' /\ Window
  <2> DEFINE u == work[h].user
             x == [user |-> u, age |-> 0, seen |-> 0, used |-> 0]
  <2>1. u \in Users /\ u \in Accounts
    BY <1>3 DEF Accounts
  <2>2. x \in Row /\ x.user = u /\ x.seen = 0 /\ x.used = 0
    BY <2>1, RowForms, SessionsAssumption
  <2>3. t \notin Live /\ session[t] \in NoRow
    BY <1>3, NoRowForms DEF Issue, Live
  <2>4. session' = [session EXCEPT ![t] = x]
    BY <1>3 DEF Issue
  <2> HIDE DEF x, u
  <2>5. /\ \A s \in Tokens : session'[s] = IF s = t THEN x ELSE session[s]
        /\ SessionsTypeOK'
    BY <1>1, <2>2, <2>4 DEF SessionsTypeOK
  <2>6. Live' = Live \cup {t}
    BY <2>2, <2>3, <2>5, RowIsRow DEF Live
  <2>7. \A s \in Live : s \in Tokens /\ session'[s] = session[s]
    BY <2>3, <2>5 DEF Live
  <2>8. Slid'
    BY <1>1, <2>2, <2>5, <2>6, <2>7, SessionsAssumption DEF Slid
  <2>9. Window
    <3>1. \A s \in Live : session[s] \in Row /\ session[s] \notin NoRow
      BY <1>1 DEF Live, SessionsTypeOK
    <3>2. \A s \in Live : session'[s] # Missing("expired") /\ ~(session'[s].used < session[s].used)
      BY <2>7, <3>1, RowFields, NoRowForms
    <3> QED
      BY <3>2 DEF Window
  <2>10. /\ work' \in [Handlers -> Work] /\ work'[h] = Idle
         /\ \A g \in Handlers : g # h => work'[g] = work[g]
    BY <1>1, WorkForms, WorkGoes
  <2>11. Accounts' = Accounts /\ Admins' = Admins
    BY <1>1 DEF Accounts, Admins
  <2>12. TypeOK'
    BY <1>1, <2>1, <2>2, <2>5, <2>6, <2>7, <2>10, <2>11 DEF TypeOK
  <2>13. Counted' /\ Known' /\ SetupKept'
    BY <1>1, <2>10, <2>11, WorkForms DEF Counted, Known, SetupKept
  <2>14. SignedOut'
    BY <1>1, <2>7, <2>10, WorkForms DEF SignedOut
  <2> QED
    BY <2>8, <2>9, <2>12, <2>13, <2>14 DEF IInv
<1> QED
  BY <1>2, <1>3 DEF OpenSession

\* The action of AdminRemains.
AdminStays ==
  Admins # {} /\ Admins' = {} => \E h \in overtaken : work[h].pc = "remove" /\ work'[h] = Idle

\* A deletion outdates the counts of the others, and what it leaves no admin of was
\* counted too early.
LEMMA RemoveKeeps ==
  ASSUME IInv, NEW h \in Handlers, Remove(h)
  PROVE  IInv' /\ Window /\ AdminStays
<1>1. /\ TypeOK /\ SessionsTypeOK /\ Slid /\ SignedOut /\ Counted /\ Known /\ SetupKept
      /\ work \in [Handlers -> Work] /\ work[h] \in Work /\ work[h].pc = "remove"
      /\ stale \subseteq Live /\ Goto(h, Idle) /\ setup' = setup
  BY DEF IInv, TypeOK, Remove
<1> DEFINE u == work[h].user
           others == {g \in Handlers \ {h} : work[g].pc = "remove"}
<1>2. u \in Users /\ users[u] # "unused"
  BY <1>1, WorkFields DEF Known
<1>3. /\ work' \in [Handlers -> Work] /\ work'[h] = Idle /\ Idle.pc = "idle"
      /\ \A g \in Handlers : g # h => work'[g] = work[g]
  BY <1>1, WorkForms, WorkGoes
<1>4. CASE overtaken' = overtaken \ {h} /\ UNCHANGED <<users, session, stale, mishap>>
  <2>1. Later /\ Live' = Live
    BY <1>1, <1>4, SameSessions DEF Live
  <2>2. Accounts' = Accounts /\ Admins' = Admins
    BY <1>4 DEF Accounts, Admins
  <2>3. TypeOK'
    BY <1>1, <1>3, <1>4, <2>1, <2>2, LaterOwner DEF TypeOK, Later
  <2>4. Counted' /\ Known' /\ SetupKept'
    BY <1>1, <1>3, <1>4, <2>2 DEF Counted, Known, SetupKept
  <2>5. SignedOut'
    BY <1>1, <1>3, <1>4, <2>1, LaterSignedOut
  <2> QED
    BY <2>1, <2>2, <2>3, <2>4, <2>5 DEF IInv, Later, AdminStays
<1>5. CASE /\ u \in Accounts
           /\ users' = [users EXCEPT ![u] = "deleted"]
           /\ Revoke(SessionsOf(u))
           /\ stale' = stale \ SessionsOf(u)
           /\ overtaken' = (overtaken \cup (IF u \in Admins THEN others ELSE {})) \ {h}
           /\ mishap' = (mishap \/ (Admins = {u} /\ h \in overtaken))
  <2>1. /\ users' \in [Users -> {"unused", "admin", "viewer", "deleted"}]
        /\ Admins' = Admins \ {u} /\ Accounts' = Accounts \ {u}
        /\ \A v \in Users : users[v] # "unused" => users'[v] # "unused"
    BY <1>1, <1>2, <1>5 DEF TypeOK, Accounts, Admins
  <2>2. mishap' \in BOOLEAN /\ (mishap => mishap') /\ (Admins = {u} /\ h \in overtaken => mishap')
    BY <1>5, Zenon
  <2>3. session' = [t \in Tokens |-> IF t \in SessionsOf(u) THEN Missing("revoked") ELSE session[t]]
    BY <1>5 DEF Revoke
  <2>4. SessionsOf(u) \in SUBSET Tokens /\ SessionsOf(u) \subseteq Live /\ "revoked" # "expired"
    BY DEF SessionsOf, Live
  <2>5. Later
    BY <1>1, <2>3, <2>4, RowsGo
  <2>6. Live' = Live \ SessionsOf(u)
    BY <2>3, <2>4, NoRowForms DEF Live
  <2>7. \A t \in Live' : session'[t].user \in Accounts'
    BY <1>1, <2>1, <2>5, <2>6 DEF TypeOK, Later, SessionsOf
  <2>8. stale' \subseteq stale /\ stale' \subseteq Live'
    BY <1>1, <1>5, <2>6
  <2>9. overtaken' \subseteq Handlers
    BY <1>1, <1>5 DEF TypeOK
  <2>10. TypeOK'
    BY <1>1, <1>3, <2>1, <2>2, <2>5, <2>7, <2>8, <2>9 DEF TypeOK, Later
  <2>11. Counted'
    <3> SUFFICES ASSUME NEW g \in Handlers, g \notin overtaken', work'[g].pc = "remove",
                        work'[g].user \in Admins'
                 PROVE  \E v \in Admins' : v # work'[g].user
      BY DEF Counted
    <3>1. g # h /\ work'[g] = work[g]
      BY <1>3
    <3>2. u \notin Admins /\ g \notin overtaken
      BY <1>5, <3>1
    <3> QED
      BY <1>1, <2>1, <3>1, <3>2 DEF Counted
  <2>12. Known'
    BY <1>1, <1>3, <2>1, WorkFields DEF Known
  <2>13. Admins # {} /\ Admins' = {} => h \in overtaken /\ Admins = {u}
    BY <1>1, <2>1 DEF Counted
  <2>14. SetupKept'
    BY <1>1, <1>3, <2>2, <2>13 DEF SetupKept
  <2>15. SignedOut'
    BY <1>1, <1>3, <2>5, <2>8, LaterSignedOut
  <2>16. AdminStays
    BY <1>1, <1>3, <2>13 DEF AdminStays
  <2> QED
    BY <2>5, <2>10, <2>11, <2>12, <2>14, <2>15, <2>16 DEF IInv, Later
<1> QED
  BY <1>4, <1>5 DEF Remove

\* No session is stale once every handler is done.
LEMMA TickKeeps ==
  ASSUME IInv, Tick
  PROVE  IInv' /\ Window
<1>1. TypeOK /\ SessionsTypeOK /\ Slid /\ SignedOut /\ UNCHANGED <<users, setup, work, overtaken, mishap, stale>>
  BY DEF IInv, TypeOK, Tick
<1>2. Later
  BY <1>1, TickLater DEF Tick
<1>3. stale = {}
  BY <1>1 DEF SignedOut, Tick, Idle
<1> QED
  BY <1>1, <1>2, <1>3, RequestKeeps DEF Later

\* The next process mints a token if there is no account; otherwise the one that was
\* consumed is forgotten.
LEMMA RestartKeeps ==
  ASSUME IInv, Restart
  PROVE  IInv' /\ Window
<1>1. TypeOK /\ SessionsTypeOK /\ Slid /\ UNCHANGED <<session, users>>
  BY DEF IInv, TypeOK, Restart
<1>2. Later
  BY <1>1, SameSessions
<1>3. \A h \in Handlers : work'[h] = Idle /\ work'[h].pc = "idle"
  BY WorkForms DEF Restart
<1>4. Accounts' = Accounts
  BY <1>1 DEF Accounts
<1>5. TypeOK'
  BY <1>1, <1>2, <1>4, WorkForms, LaterOwner DEF Restart, TypeOK, Later
<1>6. Counted' /\ Known' /\ SetupKept' /\ SignedOut'
  BY <1>3 DEF Restart, Counted, Known, SetupKept, SignedOut
<1> QED
  BY <1>2, <1>5, <1>6 DEF IInv, Later

\* Every step keeps the invariant, and is allowed by both action properties.
LEMMA NextInv == IInv /\ [Next]_vars => IInv' /\ Window /\ AdminStays
<1> SUFFICES ASSUME IInv, [Next]_vars PROVE IInv' /\ Window /\ AdminStays
  OBVIOUS
<1>1. TypeOK /\ SessionsTypeOK /\ Slid
  BY DEF IInv, TypeOK
<1>2. CASE \E h \in Handlers : Remove(h)
  BY <1>2, RemoveKeeps
<1>3. CASE ~ \E h \in Handlers : Remove(h)
  <2>1. Admins \subseteq Admins'
    <3>1. CASE users' = users
      BY <3>1 DEF Admins
    <3>2. CASE users' # users
      <4>1. PICK u \in Users, role \in {"admin", "viewer"} :
              users[u] = "unused" /\ users' = [users EXCEPT ![u] = role]
        BY <1>3, <3>2 DEF Next, vars, StartSetup, Consume, CreateFirst, OpenSession, UpdatePassword,
           Sweep, Count, StartLogin, StartChange, StartDelete, CreateUser, Request, Logout,
           Maintain, Restart, Tick
      <4> QED
        BY <4>1, NewAccount
    <3> QED
      BY <3>1, <3>2
  <2>2. AdminStays
    BY <2>1 DEF AdminStays
  <2>3. IInv' /\ Window
    <3>1. CASE UNCHANGED vars
      <4>1. Later
        BY <1>1, <3>1, SameSessions DEF vars
      <4>2. stale' = stale /\ stale' \subseteq Live'
        BY <1>1, <3>1 DEF vars, TypeOK, Live
      <4> QED
        BY <3>1, <4>1, <4>2, RequestKeeps DEF vars, Later
    <3>2. CASE Next
      BY <1>3, <3>2, StartKeeps, ConsumeKeeps, CreateFirstKeeps, OpenKeeps, UpdateKeeps, SweepKeeps,
         CountKeeps, CreateUserKeeps, SessionActionsKeep, RestartKeeps, TickKeeps DEF Next
    <3> QED
      BY <3>1, <3>2
  <2> QED
    BY <2>2, <2>3
<1> QED
  BY <1>2, <1>3

-----------------------------------------------------------------------------
(* The results.                                                            *)

\* The inductive invariant: the count behind a deletion is good until another
\* deletion, and what a use left unwritten is less than the touch interval.
THEOREM Consistent == Spec => []IInv
<1>1. Init => IInv
  BY InitInv
<1>2. IInv /\ [Next]_vars => IInv'
  BY NextInv
<1> QED
  BY <1>1, <1>2, PTL DEF Spec

\* Every variable keeps its type, and no session outlives its account.
THEOREM TypeCorrect == Spec => []TypeOK
<1>1. IInv => TypeOK
  BY DEF IInv
<1> QED
  BY <1>1, Consistent, PTL

\* No input spends the setup token: it takes a database that refuses the first
\* account, or two overlapping deletions, to be left without token and account.
THEOREM TokenKept == Spec => []SetupNotWasted
<1>1. IInv => SetupNotWasted
  BY DEF IInv, SetupKept, SetupNotWasted, Accounts, Admins
<1> QED
  BY <1>1, Consistent, PTL

\* A changed password signs out every session that was open, before the request is
\* answered.
THEOREM PasswordChangeSignsOut == Spec => []SignedOut
<1>1. IInv => SignedOut
  BY DEF IInv
<1> QED
  BY <1>1, Consistent, PTL

\* The last admin only goes by a deletion another deletion has overtaken.
THEOREM LastAdminStays == Spec => AdminRemains
<1>1. IInv /\ [Next]_vars => AdminStays
  BY NextInv
<1>2. IInv /\ [Next]_vars => [AdminStays]_vars
  BY <1>1
<1> QED
  BY <1>2, Consistent, PTL DEF Spec, AdminRemains, AdminStays

\* An active browser stays signed in up to the cap, and an idle one does not stay.
THEOREM IdleExpiry == Spec => IdleWindow
<1>1. IInv /\ [Next]_vars => [Window]_session
  BY NextInv
<1> QED
  BY <1>1, Consistent, PTL DEF Spec, IdleWindow, Window
=============================================================================
