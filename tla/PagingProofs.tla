---------------------------- MODULE PagingProofs ----------------------------
(* Proofs about RuleAdmin and Paging for any number of operators, requests, *)
(* transitions and channels that satisfy their assumptions.                 *)
EXTENDS Paging, TLAPS

-----------------------------------------------------------------------------
(* Records.                                                                *)

\* What SMT needs to know of a worker's state.
LEMMA WorkFields ==
  ASSUME NEW x \in Work
  PROVE  /\ x.pc \in {"idle", "delete", "list", "read", "save", "replace"}
         /\ x.pc = "idle" => x = Idle
         /\ x.pc \in {"delete", "list"} => x = [pc |-> x.pc]
         /\ x.pc = "read" => x = [pc |-> "read", change |-> x.change] /\ x.change \in Change
         /\ x.pc = "save" => /\ x = [pc |-> "save", change |-> x.change, next |-> x.next]
                             /\ x.change \in Change /\ x.next \in Override
         /\ x.pc = "replace" => x = [pc |-> "replace", set |-> x.set] /\ x.set \in Settings
BY DEF Work, Idle

\* The records the workers are set to.
LEMMA WorkForms ==
  /\ Idle \in Work
  /\ \A p \in {"delete", "list"} : [pc |-> p] \in Work
  /\ \A c \in Change : [pc |-> "read", change |-> c] \in Work
  /\ \A c \in Change, o \in Override : [pc |-> "save", change |-> c, next |-> o] \in Work
  /\ \A s \in Settings : [pc |-> "replace", set |-> s] \in Work
BY DEF Work

\* An override is a setting and a mute.
LEMMA OverrideFields ==
  ASSUME NEW o \in Override
  PROVE  /\ o = [set |-> o.set, mute |-> o.mute]
         /\ o.set \in Settings \cup {Nil} /\ o.mute \in Int /\ o.mute <= MaxMute
         /\ o.mute >= Unmuted
BY RuleAdminAssumption DEF Override, Unmuted

\* No row is an override that changes nothing.
LEMMA AbsentOverride == Absent \in Override /\ Effective(Absent) \in Settings
BY RuleAdminAssumption DEF Absent, Override, Unmuted, Effective, Default, Settings

\* A rule is on or off whatever is stored.
LEMMA EffectiveSetting ==
  ASSUME NEW o \in Override
  PROVE  Effective(o) \in Settings
BY OverrideFields DEF Effective, Default, Settings

\* A PATCH stores an override, and leaves what it does not name.
LEMMA ChangedOverride ==
  ASSUME NEW o \in Override, NEW c \in Change
  PROVE  /\ Changed(o, c) \in Override
         /\ c.set = Nil => Changed(o, c).set = o.set
         /\ c.mute = Keep => Changed(o, c).mute = o.mute
<1>1. c.set \in Settings \cup {Nil} /\ c.mute \in {Keep, Unmuted} \cup 1..MaxMute
  BY DEF Change
<1>2. (IF c.set = Nil THEN o.set ELSE c.set) \in Settings \cup {Nil}
  BY <1>1, OverrideFields
<1>3. (IF c.mute = Keep THEN o.mute ELSE c.mute) \in Unmuted..MaxMute
  BY <1>1, OverrideFields, RuleAdminAssumption DEF Keep, Unmuted
<1> QED
  BY <1>2, <1>3 DEF Changed, Override

\* A tick shortens a mute and changes nothing else.
LEMMA ShorterOverride ==
  ASSUME NEW o \in Override
  PROVE  /\ [o EXCEPT !.mute = Shorter(o.mute)] = [set |-> o.set, mute |-> Shorter(o.mute)]
         /\ [set |-> o.set, mute |-> Shorter(o.mute)] \in Override
<1>1. Shorter(o.mute) \in Unmuted..MaxMute
  BY OverrideFields, RuleAdminAssumption DEF Shorter, Unmuted
<1> QED
  BY <1>1, OverrideFields DEF Override

-----------------------------------------------------------------------------
(* The inductive invariant of RuleAdmin.                                   *)

\* Who is alone has nobody beside him.
Alone == \A w \in alone : \A v \in Workers : v # w => work[v].pc = "idle"

\* What somebody alone listed is still what is stored.
Listed == \A w \in alone : work[w].pc = "replace" => work[w].set = Effective(row)

\* What somebody alone read, and did not fail to read, is still what is stored,
\* but for the fields the request names.
ReadBack ==
  \A r \in Requests : r \in alone /\ r \notin blind /\ work[r].pc = "save" =>
    /\ work[r].change.set = Nil => work[r].next.set = row.set
    /\ work[r].change.mute = Keep => work[r].next.mute = row.mute

AdminIInv == AdminTypeOK /\ Alone /\ Listed /\ ReadBack /\ Settled

\* The invariant holds at the start.
LEMMA InitAdmin == AdminInit => AdminIInv
<1> SUFFICES ASSUME AdminInit PROVE AdminIInv
  OBVIOUS
<1>1. work \in [Workers -> Work] /\ \A w \in Workers : w # Main => work[w].pc = "idle"
  BY WorkForms DEF AdminInit, Workers, Idle
<1>2. \A w \in Workers : work[w].pc \in {"idle", "list"}
  BY DEF AdminInit, Workers, Idle
<1>3. AdminTypeOK
  BY <1>1, AbsentOverride DEF AdminInit, AdminTypeOK, Workers, Default, Settings
<1>4. Alone
  BY <1>1 DEF AdminInit, Alone
<1>5. Listed /\ ReadBack /\ Settled
  BY <1>2 DEF AdminInit, Listed, ReadBack, Settled, Workers
<1> QED
  BY <1>3, <1>4, <1>5 DEF AdminIInv

\* A worker that begins is alone only if everybody else is idle.
LEMMA BeginKeeps ==
  ASSUME AdminIInv, NEW w \in Workers, NEW x \in Work, x.pc \in {"read", "delete"}, Begin(w, x)
  PROVE  AdminIInv'
<1>1. AdminTypeOK /\ Alone /\ Listed /\ ReadBack /\ Settled
  BY DEF AdminIInv
<1>2. work' = [work EXCEPT ![w] = x] /\ UNCHANGED <<row, applied, blind, settled>>
  BY DEF Begin
<1>3. work' \in [Workers -> Work] /\ work'[w] = x /\ \A v \in Workers : v # w => work'[v] = work[v]
  BY <1>1, <1>2 DEF AdminTypeOK
<1>4. /\ alone' \subseteq {w}
      /\ alone' # {} => \A v \in Workers : work[v].pc = "idle"
  BY DEF Begin, Idle
<1>5. AdminTypeOK'
  BY <1>1, <1>2, <1>3, <1>4 DEF AdminTypeOK
<1>6. Alone'
  BY <1>3, <1>4 DEF Alone
<1>7. Listed' /\ ReadBack' /\ Settled'
  BY <1>1, <1>2, <1>3, <1>4 DEF Listed, ReadBack, Settled
<1> QED
  BY <1>5, <1>6, <1>7 DEF AdminIInv

\* A PATCH over an override it failed to read is blind.
LEMMA ReadKeeps ==
  ASSUME AdminIInv, NEW r \in Requests, ReadOverride(r)
  PROVE  AdminIInv'
<1>1. AdminTypeOK /\ Alone /\ Listed /\ ReadBack /\ Settled
  BY DEF AdminIInv
<1>2. r \in Workers /\ work[r] \in Work /\ work[r].pc = "read" /\ work[r].change \in Change
  BY <1>1, WorkFields DEF AdminTypeOK, Workers, ReadOverride
<1>3. UNCHANGED <<row, applied, settled, alone>>
  BY DEF ReadOverride, Goto
<1>4. ASSUME NEW o \in Override, Goto(r, [pc |-> "save", change |-> work[r].change,
                                         next |-> Changed(o, work[r].change)]),
             blind' \subseteq Workers, o = row \/ r \in blind', blind \subseteq blind'
      PROVE  AdminIInv'
  <2> DEFINE c == work[r].change
             n == Changed(o, c)
             x == [pc |-> "save", change |-> c, next |-> n]
  <2>1. n \in Override /\ (c.set = Nil => n.set = o.set) /\ (c.mute = Keep => n.mute = o.mute)
    BY <1>2, ChangedOverride
  <2>2. work' = [work EXCEPT ![r] = x]
    BY <1>4 DEF Goto
  <2> HIDE DEF n
  <2>3. x \in Work
    BY <1>2, <2>1, WorkForms
  <2>4. /\ work' \in [Workers -> Work] /\ work'[r] = x
        /\ \A v \in Workers : v # r => work'[v] = work[v]
    BY <1>1, <1>2, <2>2, <2>3 DEF AdminTypeOK
  <2>5. AdminTypeOK'
    BY <1>1, <1>3, <1>4, <2>4 DEF AdminTypeOK
  <2>6. Alone'
    BY <1>1, <1>2, <1>3, <2>4 DEF Alone, AdminTypeOK
  <2>7. Listed'
    BY <1>1, <1>3, <2>4 DEF Listed, AdminTypeOK
  <2>8. ReadBack'
    <3> SUFFICES ASSUME NEW q \in Requests, q \in alone, q \notin blind', work'[q].pc = "save"
                 PROVE  /\ work'[q].change.set = Nil => work'[q].next.set = row.set
                        /\ work'[q].change.mute = Keep => work'[q].next.mute = row.mute
      BY <1>3 DEF ReadBack
    <3>1. CASE q = r
      BY <1>4, <2>1, <2>4, <3>1
    <3>2. CASE q # r
      BY <1>1, <1>4, <2>4, <3>2 DEF ReadBack, Workers
    <3> QED
      BY <3>1, <3>2
  <2>9. Settled'
    BY <1>1, <1>3 DEF Settled
  <2> QED
    BY <2>5, <2>6, <2>7, <2>8, <2>9 DEF AdminIInv
<1>5. row \in Override /\ Absent \in Override /\ blind \subseteq Workers
  BY <1>1, AbsentOverride DEF AdminTypeOK
<1> QED
  BY <1>2, <1>4, <1>5 DEF ReadOverride, Blinded

\* While a worker is busy, nobody else is alone.
LEMMA NobodyElseAlone ==
  ASSUME AdminIInv, NEW w \in Workers, work[w].pc # "idle"
  PROVE  alone \subseteq {w}
BY DEF AdminIInv, AdminTypeOK, Alone

\* A worker that goes on to x, nobody else being alone: what remains to be shown.
LEMMA GoesOn ==
  ASSUME AdminIInv, NEW w \in Workers, work[w].pc # "idle", NEW x \in Work, Goto(w, x),
         x.pc # "save", row' \in Override, applied' \in Settings, blind' \subseteq Workers,
         settled' \in BOOLEAN, Settled',
         x.pc = "replace" => x.set = Effective(row)'
  PROVE  AdminIInv'
<1>1. AdminTypeOK /\ Alone /\ alone \subseteq {w}
  BY NobodyElseAlone DEF AdminIInv
<1>2. work' = [work EXCEPT ![w] = x] /\ alone' = alone
  BY DEF Goto
<1>3. work' \in [Workers -> Work] /\ work'[w] = x /\ \A v \in Workers : v # w => work'[v] = work[v]
  BY <1>1, <1>2 DEF AdminTypeOK
<1>4. AdminTypeOK'
  BY <1>1, <1>2, <1>3 DEF AdminTypeOK
<1>5. Alone'
  BY <1>1, <1>2, <1>3 DEF Alone
<1>6. Listed' /\ ReadBack'
  BY <1>1, <1>2, <1>3 DEF Listed, ReadBack
<1> QED
  BY <1>4, <1>5, <1>6 DEF AdminIInv

\* A worker that finishes leaves nobody alone.
LEMMA Finishes ==
  ASSUME AdminIInv, NEW w \in Workers, work[w].pc # "idle", Finish(w), UNCHANGED row,
         applied' \in Settings, settled' \in BOOLEAN, Settled'
  PROVE  AdminIInv'
<1>1. AdminTypeOK /\ alone \subseteq {w}
  BY NobodyElseAlone DEF AdminIInv
<1>2. alone' = {} /\ blind' \subseteq Workers /\ work' \in [Workers -> Work]
  BY <1>1, WorkForms DEF Finish, AdminTypeOK
<1>3. AdminTypeOK'
  BY <1>1, <1>2 DEF AdminTypeOK
<1> QED
  BY <1>2, <1>3 DEF AdminIInv, Alone, Listed, ReadBack

\* Writing the row unsettles whatever was settled.
LEMMA WriteKeeps ==
  ASSUME AdminIInv, NEW r \in Requests, SaveOverride(r) \/ DeleteOverride(r)
  PROVE  AdminIInv'
<1>1. AdminTypeOK /\ Settled
  BY DEF AdminIInv
<1>2. r \in Workers /\ work[r] \in Work /\ work[r].pc \in {"save", "delete"}
  BY <1>1 DEF AdminTypeOK, Workers, SaveOverride, DeleteOverride
<1>3. applied' = applied /\ applied' \in Settings
  BY <1>1 DEF SaveOverride, DeleteOverride, AdminTypeOK
<1>4. CASE Finish(r) /\ UNCHANGED <<row, settled>>
  <2>1. Settled' /\ settled' \in BOOLEAN
    BY <1>1, <1>3, <1>4 DEF Settled, AdminTypeOK
  <2> QED
    BY <1>2, <1>3, <1>4, <2>1, Finishes
<1>5. CASE Goto(r, [pc |-> "list"]) /\ settled' = FALSE /\ UNCHANGED blind /\ row' \in Override
  <2>1. [pc |-> "list"] \in Work /\ [pc |-> "list"].pc = "list"
    BY WorkForms
  <2>2. Settled' /\ blind' \subseteq Workers
    BY <1>1, <1>5 DEF Settled, AdminTypeOK
  <2> QED
    BY <1>2, <1>3, <1>5, <2>1, <2>2, GoesOn
<1>6. CASE SaveOverride(r)
  <2>1. work[r].pc = "save" => work[r].next \in Override
    BY <1>2, WorkFields
  <2> QED
    BY <1>4, <1>5, <1>6, <2>1 DEF SaveOverride
<1>7. CASE DeleteOverride(r)
  BY <1>4, <1>5, <1>7, AbsentOverride DEF DeleteOverride
<1> QED
  BY <1>6, <1>7

\* Reading the overrides for a reload keeps the administration's invariant.
LEMMA ListKeeps ==
  ASSUME AdminIInv, NEW w \in Workers, ListForReload(w)
  PROVE  AdminIInv'
<1>1. AdminTypeOK /\ Settled
  BY DEF AdminIInv
<1>2. work[w].pc # "idle" /\ UNCHANGED <<row, applied, settled>>
  BY DEF ListForReload
<1>3. Settled' /\ settled' \in BOOLEAN /\ applied' \in Settings /\ row' \in Override
  BY <1>1, <1>2 DEF Settled, AdminTypeOK
<1>4. CASE Finish(w)
  BY <1>2, <1>3, <1>4, Finishes
<1>5. CASE Goto(w, [pc |-> "replace", set |-> Effective(row)]) /\ UNCHANGED blind
  <2> DEFINE x == [pc |-> "replace", set |-> Effective(row)]
  <2>1. x \in Work
    BY <1>1, EffectiveSetting, WorkForms DEF AdminTypeOK
  <2>2. x.pc = "replace" /\ x.set = Effective(row)'
    BY <1>2
  <2>3. blind' \subseteq Workers
    BY <1>1, <1>5 DEF AdminTypeOK
  <2>4. Goto(w, x)
    BY <1>5
  <2> HIDE DEF x
  <2> QED
    BY <1>2, <1>3, <2>1, <2>2, <2>3, <2>4, GoesOn
<1> QED
  BY <1>4, <1>5 DEF ListForReload

\* The reload of somebody alone puts into force what is stored.
LEMMA ReloadKeeps ==
  ASSUME AdminIInv, NEW w \in Workers, Reload(w)
  PROVE  AdminIInv'
<1>1. AdminTypeOK /\ Listed
  BY DEF AdminIInv
<1>2. work[w].pc = "replace" /\ applied' = work[w].set /\ row' = row /\ Finish(w)
  BY DEF Reload
<1>3. applied' \in Settings
  BY <1>1, <1>2, WorkFields DEF AdminTypeOK
<1>4. settled' \in BOOLEAN
  BY DEF Reload
<1>5. settled' => w \in alone
  BY Zenon DEF Reload
<1>6. Settled'
  BY <1>1, <1>2, <1>5 DEF Settled, Listed
<1> QED
  BY <1>2, <1>3, <1>4, <1>6, Finishes

\* A restart begins anew over the row as it is.
LEMMA RestartKeeps ==
  ASSUME AdminIInv, Restart
  PROVE  AdminIInv'
<1>1. work' \in [Workers -> Work] /\ \A w \in Workers : w # Main => work'[w].pc = "idle"
  BY WorkForms DEF Restart, Workers, Idle
<1>2. \A w \in Workers : work'[w].pc \in {"idle", "list"}
  BY DEF Restart, Workers, Idle
<1>3. AdminTypeOK'
  BY <1>1 DEF Restart, AdminIInv, AdminTypeOK, Workers, Default, Settings
<1>4. Alone'
  BY <1>1 DEF Restart, Alone
<1>5. Listed' /\ ReadBack' /\ Settled'
  BY <1>2 DEF Restart, Listed, ReadBack, Settled, Workers
<1> QED
  BY <1>3, <1>4, <1>5 DEF AdminIInv

\* A tick shortens the mute that is stored and the one about to be.
LEMMA TickKeeps ==
  ASSUME AdminIInv, AdminTick
  PROVE  AdminIInv'
<1>1. AdminTypeOK /\ Alone /\ Listed /\ ReadBack /\ Settled
  BY DEF AdminIInv
<1>2. UNCHANGED <<applied, alone, blind, settled>>
  BY DEF AdminTick
<1>3. row' \in Override /\ row'.set = row.set /\ row'.mute = Shorter(row.mute)
  <2>1. row \in Override /\ row' = [row EXCEPT !.mute = Shorter(row.mute)]
    BY <1>1 DEF AdminTypeOK, AdminTick
  <2>2. /\ row' = [set |-> row.set, mute |-> Shorter(row.mute)]
        /\ [set |-> row.set, mute |-> Shorter(row.mute)] \in Override
    BY <2>1, ShorterOverride, Zenon
  <2> QED
    BY ONLY <2>2
<1>4. Effective(row)' = Effective(row)
  BY <1>3 DEF Effective
<1>5. ASSUME NEW w \in Workers
      PROVE  /\ work'[w] \in Work
             /\ work'[w].pc = work[w].pc
             /\ work[w].pc = "replace" => work'[w] = work[w]
             /\ work[w].pc = "save" => /\ work'[w].change = work[w].change
                                       /\ work'[w].next.set = work[w].next.set
                                       /\ work'[w].next.mute = Shorter(work[w].next.mute)
  <2>1. CASE work[w].pc = "save"
    <3> DEFINE n == work[w].next
               m == [set |-> n.set, mute |-> Shorter(n.mute)]
    <3>1. /\ work[w] = [pc |-> "save", change |-> work[w].change, next |-> n]
          /\ work[w].change \in Change /\ n \in Override
      BY <1>1, <2>1, WorkFields DEF AdminTypeOK
    <3>2. [n EXCEPT !.mute = Shorter(n.mute)] = m /\ m \in Override
      BY <3>1, ShorterOverride
    <3>3. work'[w] = [pc |-> "save", change |-> work[w].change, next |-> [n EXCEPT !.mute = Shorter(n.mute)]]
      BY <2>1, <3>1 DEF AdminTick
    <3>4. work'[w] = [pc |-> "save", change |-> work[w].change, next |-> m]
      BY <3>2, <3>3
    <3>5. m.set = n.set /\ m.mute = Shorter(n.mute)
      OBVIOUS
    <3> HIDE DEF m, n
    <3>6. work'[w] \in Work
      BY <3>1, <3>2, <3>4, WorkForms
    <3> QED
      BY <2>1, <3>4, <3>5, <3>6 DEF n
  <2>2. CASE work[w].pc # "save"
    BY <1>1, <2>2 DEF AdminTick, AdminTypeOK
  <2> QED
    BY <2>1, <2>2
<1>6. work' \in [Workers -> Work]
  BY <1>5 DEF AdminTick
<1>7. AdminTypeOK'
  BY <1>1, <1>2, <1>3, <1>6 DEF AdminTypeOK
<1>8. Alone'
  BY <1>1, <1>2, <1>5 DEF Alone, AdminTypeOK
<1>9. Listed' /\ Settled'
  BY <1>1, <1>2, <1>4, <1>5 DEF Listed, Settled, AdminTypeOK
<1>10. ReadBack'
  BY <1>1, <1>2, <1>3, <1>5 DEF ReadBack, Workers
<1> QED
  BY <1>7, <1>8, <1>9, <1>10 DEF AdminIInv

\* A step of a rule request keeps the administration's invariant.
LEMMA HandleKeeps ==
  ASSUME AdminIInv, Handle
  PROVE  AdminIInv'
<1>1. ASSUME NEW r \in Requests, StartUpdate(r)
      PROVE  AdminIInv'
  <2>1. PICK c \in Change : Begin(r, [pc |-> "read", change |-> c])
    BY <1>1 DEF StartUpdate
  <2>2. [pc |-> "read", change |-> c] \in Work /\ r \in Workers
    BY WorkForms DEF Workers
  <2>3. [pc |-> "read", change |-> c].pc \in {"read", "delete"}
    OBVIOUS
  <2> QED
    BY <2>1, <2>2, <2>3, BeginKeeps
<1>2. ASSUME NEW r \in Requests, StartReset(r)
      PROVE  AdminIInv'
  <2>1. [pc |-> "delete"] \in Work /\ r \in Workers /\ [pc |-> "delete"].pc \in {"read", "delete"}
    BY WorkForms DEF Workers
  <2> QED
    BY <1>2, <2>1, BeginKeeps DEF StartReset
<1> QED
  BY <1>1, <1>2, ReadKeeps, WriteKeeps, ListKeeps, ReloadKeeps DEF Handle
-----------------------------------------------------------------------------
(* The inductive invariant of Paging.                                      *)

\* A transition whose rule was muted ever since its evaluation finds it muted.
MuteSeen == \A j \in Jobs : job[j].pc = "filter" /\ muted[j] = "always" => row.mute > 0

\* What Paging adds to the state of RuleAdmin keeps its type.
JobTypes ==
  /\ job \in [Jobs -> Job]
  /\ muted \in [Jobs -> {"never", "always", "some", "unread"}]
  /\ owed \in [Jobs -> SUBSET (1..Channels)]

IInv == AdminIInv /\ JobTypes /\ MuteSeen /\ MutedIsQuiet

\* What SMT needs to know of a job.
LEMMA JobFields ==
  ASSUME NEW x \in Job
  PROVE  /\ x.pc \in {"none", "filter", "send"}
         /\ x.pc = "none" <=> x = NoJob
         /\ x.pc = "filter" => /\ x = [pc |-> "filter", age |-> x.age, acknowledged |-> x.acknowledged]
                               /\ x.age \in 0..MaxLag /\ x.acknowledged \in BOOLEAN
         /\ x.pc = "send" => /\ x = [pc |-> "send", path |-> x.path,
                                     acknowledged |-> x.acknowledged, next |-> x.next]
                             /\ x.path \in {"ingest", "local"} /\ x.acknowledged \in BOOLEAN
                             /\ x.next \in 1..Channels
BY DEF Job, NoJob

\* The records the jobs are set to.
LEMMA JobForms ==
  /\ NoJob \in Job
  /\ \A g \in 0..MaxLag, a \in BOOLEAN :
       [pc |-> "filter", age |-> g, acknowledged |-> a] \in Job
  /\ \A p \in {"ingest", "local"}, a \in BOOLEAN, n \in 1..Channels :
       [pc |-> "send", path |-> p, acknowledged |-> a, next |-> n] \in Job
BY DEF Job

\* The observers, when no job changes but for the age of those that wait.
LEMMA WatchKeeps ==
  ASSUME JobTypes, MutedIsQuiet, Watch, job' \in [Jobs -> Job],
         \A j \in Jobs : job'[j].pc = job[j].pc,
         \A j \in Jobs : job[j].pc = "send" => job'[j] = job[j],
         row' \in Override
  PROVE  JobTypes' /\ MuteSeen' /\ MutedIsQuiet'
<1> DEFINE seen(j) == IF job[j].pc = "filter" THEN Seen(j, job'[j].age) ELSE muted[j]
<1>1. /\ muted' = [j \in Jobs |-> seen(j)]
      /\ owed' = [j \in Jobs |->
           IF job[j].pc = "filter" /\ seen(j) # "never" THEN {} ELSE owed[j]]
  BY DEF Watch
<1>2. ASSUME NEW j \in Jobs
      PROVE  /\ seen(j) \in {"never", "always", "some", "unread"}
             /\ job[j].pc = "filter" /\ seen(j) = "always" => Muted(row', 0)
             /\ job[j].pc # "filter" => seen(j) = muted[j]
  BY DEF Seen, JobTypes
<1> HIDE DEF seen
<1>3. muted' \in [Jobs -> {"never", "always", "some", "unread"}]
  BY <1>1, <1>2
<1>4. owed' \in [Jobs -> SUBSET (1..Channels)]
  BY <1>1 DEF JobTypes
<1>5. MuteSeen'
  <2> SUFFICES ASSUME NEW j \in Jobs, job'[j].pc = "filter", muted'[j] = "always"
               PROVE  row'.mute > 0
    BY DEF MuteSeen
  <2>1. Muted(row', 0) /\ row'.mute \in Int
    BY <1>1, <1>2, OverrideFields
  <2> QED
    BY <2>1 DEF Muted
<1>6. MutedIsQuiet'
  BY <1>1, <1>2 DEF MutedIsQuiet
<1> QED
  BY <1>3, <1>4, <1>5, <1>6 DEF JobTypes

\* The invariant holds at the start.
LEMMA InitInv == Init => IInv
<1> SUFFICES ASSUME Init PROVE IInv
  OBVIOUS
<1>1. AdminIInv
  BY InitAdmin DEF Init
<1>2. JobTypes /\ MuteSeen /\ MutedIsQuiet
  BY JobForms DEF Init, JobTypes, MuteSeen, MutedIsQuiet, NoJob
<1> QED
  BY <1>1, <1>2 DEF IInv

\* A new transition is muted as the rule is.
LEMMA TransitionKeeps ==
  ASSUME IInv, NEW j \in Jobs, NEW path \in {"ingest", "local"}, NEW a \in BOOLEAN,
         Transition(j, path, a)
  PROVE  JobTypes' /\ MuteSeen' /\ MutedIsQuiet'
<1>1. JobTypes /\ MuteSeen /\ MutedIsQuiet /\ row' = row /\ row.mute \in Int
  BY OverrideFields DEF IInv, AdminIInv, AdminTypeOK, Transition, adminVars
<1> DEFINE x == IF path = "ingest"
                THEN [pc |-> "filter", age |-> 0, acknowledged |-> a]
                ELSE [pc |-> "send", path |-> path, acknowledged |-> a, next |-> 1]
           m == IF Muted(row, 0) THEN "always" ELSE "never"
<1>2. x \in Job
  BY JobForms, PagingAssumption
<1>3. /\ job' = [job EXCEPT ![j] = x] /\ muted' = [muted EXCEPT ![j] = m]
      /\ owed' = [owed EXCEPT ![j] =
           IF a \/ (path = "ingest" /\ Muted(row, 0)) THEN {} ELSE 1..Channels]
  BY DEF Transition
<1>4. /\ x.pc = "filter" /\ m = "always" => row.mute > 0
      /\ x.pc = "send" => x.path # "ingest"
      /\ m \in {"never", "always"}
  BY <1>1 DEF Muted
<1> HIDE DEF x, m
<1>5. JobTypes'
  BY <1>1, <1>2, <1>3, <1>4 DEF JobTypes
<1>6. MuteSeen' /\ MutedIsQuiet'
  BY <1>1, <1>3, <1>4 DEF JobTypes, MuteSeen, MutedIsQuiet
<1> QED
  BY <1>5, <1>6

\* What was muted all along is found so, unless the read fails.
LEMMA FilterKeeps ==
  ASSUME IInv, NEW j \in Jobs, Filter(j)
  PROVE  JobTypes' /\ MuteSeen' /\ MutedIsQuiet'
<1>1. JobTypes /\ MuteSeen /\ MutedIsQuiet /\ row' = row /\ row.mute \in Int
  BY OverrideFields DEF IInv, AdminIInv, AdminTypeOK, Filter, adminVars
<1>2. /\ job[j].pc = "filter" /\ job[j].age \in 0..MaxLag /\ job[j].acknowledged \in BOOLEAN
      /\ muted[j] = "always" => row.mute > 0
  BY <1>1, JobFields DEF Filter, JobTypes, MuteSeen
<1> DEFINE s == [pc |-> "send", path |-> "ingest", acknowledged |-> job[j].acknowledged, next |-> 1]
<1>3. PICK read \in {row, Absent} :
        /\ job' = [job EXCEPT ![j] = IF Muted(read, job[j].age) THEN NoJob ELSE s]
        /\ muted' = [muted EXCEPT ![j] =
             CASE job'[j] = NoJob -> "never" [] read = row -> @ [] OTHER -> "unread"]
  BY DEF Filter
<1>4. s \in Job /\ NoJob \in Job /\ s # NoJob /\ s.pc = "send" /\ NoJob.pc = "none"
  BY <1>2, JobForms, PagingAssumption DEF NoJob
<1>5. owed' = owed /\ job'[j] \in {s, NoJob} /\ muted'[j] \in {"never", muted[j], "unread"}
  BY <1>1, <1>3 DEF Filter, JobTypes
<1>6. read = row /\ job'[j] = s => muted[j] # "always"
  BY <1>1, <1>2, <1>3, <1>4 DEF Muted, JobTypes
<1>7. job'[j] = s => muted'[j] # "always"
  BY <1>1, <1>3, <1>4, <1>6 DEF JobTypes
<1>8. \A i \in Jobs : i # j => job'[i] = job[i] /\ muted'[i] = muted[i]
  BY <1>1, <1>3 DEF JobTypes
<1> HIDE DEF s
<1>9. JobTypes'
  <2>1. job' \in [Jobs -> Job]
    BY <1>1, <1>3, <1>4 DEF JobTypes
  <2>2. muted' \in [Jobs -> {"never", "always", "some", "unread"}]
    BY <1>1, <1>3 DEF JobTypes
  <2> QED
    BY <1>1, <1>5, <2>1, <2>2 DEF JobTypes
<1>10. MuteSeen' /\ MutedIsQuiet'
  BY <1>1, <1>4, <1>5, <1>7, <1>8 DEF MuteSeen, MutedIsQuiet
<1> QED
  BY <1>9, <1>10

\* Going through the channels changes neither the path nor the mute.
LEMMA SendKeeps ==
  ASSUME IInv, NEW j \in Jobs, Send(j)
  PROVE  JobTypes' /\ MuteSeen' /\ MutedIsQuiet'
<1>1. JobTypes /\ MuteSeen /\ MutedIsQuiet /\ row' = row
  BY DEF IInv, Send, adminVars
<1>2. /\ job[j] = [pc |-> "send", path |-> job[j].path,
                   acknowledged |-> job[j].acknowledged, next |-> job[j].next]
      /\ job[j].path \in {"ingest", "local"} /\ job[j].acknowledged \in BOOLEAN
      /\ job[j].next \in 1..Channels
  BY <1>1, JobFields DEF Send, JobTypes
<1> DEFINE on == [pc |-> "send", path |-> job[j].path,
                  acknowledged |-> job[j].acknowledged, next |-> job[j].next + 1]
<1>3. [job[j] EXCEPT !.next = @ + 1] = on
  BY <1>2
<1>4. job[j].next < Channels => on \in Job
  BY <1>2, JobForms, PagingAssumption
<1>5. \/ job' = [job EXCEPT ![j] = NoJob]
      \/ job[j].next < Channels /\ job' = [job EXCEPT ![j] = on]
  BY <1>3 DEF Send, AfterChannel
<1>6. on.pc = "send" /\ on.path = job[j].path /\ NoJob.pc = "none" /\ NoJob \in Job
  BY JobForms DEF NoJob
<1> HIDE DEF on
<1>7. muted' = [muted EXCEPT ![j] = IF job'[j] = NoJob THEN "never" ELSE @]
  BY DEF Send
<1>8. JobTypes'
  <2>1. job' \in [Jobs -> Job]
    BY <1>1, <1>4, <1>5, <1>6 DEF JobTypes
  <2>2. muted' \in [Jobs -> {"never", "always", "some", "unread"}]
    BY <1>1, <1>7 DEF JobTypes
  <2>3. owed' \in [Jobs -> SUBSET (1..Channels)]
    BY <1>1 DEF JobTypes, Send
  <2> QED
    BY <2>1, <2>2, <2>3 DEF JobTypes
<1>9. MuteSeen' /\ MutedIsQuiet'
  BY <1>1, <1>2, <1>5, <1>6, <1>7 DEF JobTypes, MuteSeen, MutedIsQuiet
<1> QED
  BY <1>8, <1>9

\* Every step keeps the invariant.
LEMMA NextInv == IInv /\ [Next]_vars => IInv'
<1> SUFFICES ASSUME IInv, [Next]_vars PROVE IInv'
  OBVIOUS
<1>1. AdminIInv /\ JobTypes /\ MuteSeen /\ MutedIsQuiet
  BY DEF IInv
<1>2. ASSUME AdminIInv', JobTypes' /\ MuteSeen' /\ MutedIsQuiet'
      PROVE  IInv'
  BY <1>2 DEF IInv
<1>3. ASSUME UNCHANGED adminVars
      PROVE  AdminIInv'
  BY <1>1, <1>3 DEF adminVars, AdminIInv, AdminTypeOK, Alone, Listed, ReadBack, Settled
<1>4. CASE Administer
  <2>1. AdminIInv' /\ Watch /\ job' = job
    BY <1>1, <1>4, HandleKeeps DEF Administer
  <2> QED
    BY <1>1, <1>2, <2>1, WatchKeeps DEF JobTypes, AdminIInv, AdminTypeOK
<1>5. ASSUME NEW j \in Jobs, NEW path \in {"ingest", "local"}, NEW a \in BOOLEAN,
             Transition(j, path, a)
      PROVE  IInv'
  BY <1>2, <1>3, <1>5, TransitionKeeps DEF Transition
<1>6. ASSUME NEW j \in Jobs, Filter(j)
      PROVE  IInv'
  BY <1>2, <1>3, <1>6, FilterKeeps DEF Filter
<1>7. ASSUME NEW j \in Jobs, Send(j)
      PROVE  IInv'
  BY <1>2, <1>3, <1>7, SendKeeps DEF Send
<1>8. CASE Crash
  <2>1. AdminIInv'
    BY <1>1, <1>8, RestartKeeps DEF Crash
  <2>2. JobTypes' /\ MuteSeen' /\ MutedIsQuiet'
    BY <1>8, JobForms DEF Crash, JobTypes, MuteSeen, MutedIsQuiet, NoJob
  <2> QED
    BY <1>2, <2>1, <2>2
<1>9. CASE Tick
  <2>1. AdminIInv' /\ Watch
    BY <1>1, <1>9, TickKeeps DEF Tick
  <2>2. ASSUME NEW j \in Jobs
        PROVE  /\ job'[j] \in Job /\ job'[j].pc = job[j].pc
               /\ job[j].pc = "send" => job'[j] = job[j]
    <3>1. job[j] \in Job
      BY <1>1 DEF JobTypes
    <3>2. CASE job[j].pc = "filter"
      <4> DEFINE x == [pc |-> "filter", age |-> job[j].age + 1, acknowledged |-> job[j].acknowledged]
      <4>1. /\ job[j] = [pc |-> "filter", age |-> job[j].age, acknowledged |-> job[j].acknowledged]
            /\ job[j].age \in 0..MaxLag /\ job[j].acknowledged \in BOOLEAN /\ job[j].age < MaxLag
        BY <1>9, <3>1, <3>2, JobFields DEF Tick
      <4>2. job'[j] = x
        BY <1>9, <3>2, <4>1 DEF Tick
      <4>3. job[j].age + 1 \in 0..MaxLag
        BY <4>1, PagingAssumption
      <4>4. x \in Job
        BY <4>1, <4>3, JobForms
      <4> QED
        BY <3>2, <4>2, <4>4
    <3>3. CASE job[j].pc # "filter"
      BY <1>9, <3>1, <3>3 DEF Tick
    <3> QED
      BY <3>2, <3>3
  <2>3. job' \in [Jobs -> Job]
    BY <1>9, <2>2 DEF Tick
  <2>4. row' \in Override
    BY <2>1 DEF AdminIInv, AdminTypeOK
  <2>5. JobTypes' /\ MuteSeen' /\ MutedIsQuiet'
    BY <1>1, <2>1, <2>2, <2>3, <2>4, WatchKeeps
  <2> QED
    BY <1>2, <2>1, <2>5
<1>10. CASE UNCHANGED vars
  BY <1>1, <1>10 DEF vars, IInv, AdminIInv, AdminTypeOK, Alone, Listed, ReadBack, Settled,
     JobTypes, MuteSeen, MutedIsQuiet
<1> QED
  BY <1>4, <1>5, <1>6, <1>7, <1>8, <1>9, <1>10 DEF Next

-----------------------------------------------------------------------------
(* The results.                                                            *)

\* The inductive invariant: who works alone sees the database as it is, and a
\* muted transition finds its rule muted.
THEOREM Consistent == Spec => []IInv
<1>1. Init => IInv
  BY InitInv
<1>2. IInv /\ [Next]_vars => IInv'
  BY NextInv
<1> QED
  BY <1>1, <1>2, PTL DEF Spec

\* Every variable of rule administration and of the notifications keeps its type,
\* for any number of operators, transitions and channels.
THEOREM TypeCorrect == Spec => []TypeOK
<1>1. IInv => TypeOK
  BY DEF IInv, AdminIInv, JobTypes, TypeOK
<1> QED
  BY <1>1, Consistent, PTL

\* After a change, or a start-up, that met no other and whose reads succeeded, the
\* evaluator runs the rules that are stored.
THEOREM ChangesReachEvaluator == Spec => []Settled
<1>1. IInv => Settled
  BY DEF IInv, AdminIInv
<1> QED
  BY <1>1, Consistent, PTL

\* The ingest path notifies of nothing that was muted from the evaluation until
\* the mutes were read.
THEOREM MutesHold == Spec => []MutedIsQuiet
<1>1. IInv => MutedIsQuiet
  BY DEF IInv
<1> QED
  BY <1>1, Consistent, PTL

\* A PATCH that meets no other request and reads what is stored changes the
\* fields it names and no other.
THEOREM OtherFieldsKept == Spec => KeepsOtherFields
<1> DEFINE Kept ==
      \A r \in Requests :
        /\ work[r].pc = "save" /\ work'[r].pc = "list"
        /\ r \in alone \ blind
        => /\ work[r].change.set = Nil => row'.set = row.set
           /\ work[r].change.mute = Keep => row'.mute = row.mute
<1>1. ASSUME IInv, [Next]_vars
      PROVE  [Kept]_row
  <2> SUFFICES ASSUME row' # row, NEW r \in Requests,
                      work[r].pc = "save", work'[r].pc = "list", r \in alone \ blind
               PROVE  /\ work[r].change.set = Nil => row'.set = row.set
                      /\ work[r].change.mute = Keep => row'.mute = row.mute
    OBVIOUS
  <2>1. AdminTypeOK /\ ReadBack /\ r \in Workers
    BY <1>1 DEF IInv, AdminIInv, Workers
  <2>2. ~Tick
    <3>1. work[r] = [pc |-> "save", change |-> work[r].change, next |-> work[r].next]
      BY <2>1, WorkFields DEF AdminTypeOK
    <3> DEFINE n == [work[r].next EXCEPT !.mute = Shorter(work[r].next.mute)]
    <3>2. Tick => work'[r] = [work[r] EXCEPT !.next = n]
      BY <2>1 DEF Tick, AdminTick
    <3> HIDE DEF n
    <3>3. [work[r] EXCEPT !.next = n] = [pc |-> "save", change |-> work[r].change, next |-> n]
      BY <3>1
    <3> QED
      BY <3>2, <3>3
  <2>3. PICK q \in Requests : SaveOverride(q) \/ DeleteOverride(q)
    BY <1>1, <2>2 DEF Next, vars, Administer, Handle, StartUpdate, StartReset, Begin, ReadOverride,
       ListForReload, Reload, Transition, Filter, Send, Crash, Restart, adminVars
  <2>4. work' = [work EXCEPT ![q] = [pc |-> "list"]]
    BY <2>3 DEF SaveOverride, DeleteOverride, Goto
  <2>5. q = r
    BY <2>1, <2>4 DEF AdminTypeOK
  <2>6. row' = work[r].next
    BY <2>3, <2>5 DEF SaveOverride, DeleteOverride
  <2> QED
    BY <2>1, <2>6 DEF ReadBack
<1>2. IInv /\ [Next]_vars => [Kept]_row
  BY <1>1
<1> QED
  BY <1>2, Consistent, PTL DEF Spec, KeepsOtherFields
=============================================================================
