-------------------------- MODULE OperationsProofs --------------------------
(***************************************************************************)
(* Who belongs to an organisation, and what can be restored.               *)
(*                                                                         *)
(* Every membership of the portal was granted, for any people, organisations *)
(* and requests; a backup that succeeded can be restored, for any number of *)
(* workers, nights and backups, and any retention of a day or more.        *)
(***************************************************************************)
EXTENDS Portal, Backups, FiniteSetTheorems, TLAPS

(* Memberships.                                                            *)

\* Types, as far as the argument needs them: what is granted, and nothing of
\* what requests have read.
Row == [row : Nat, role : OrgRoles \cup {"none"}, accepted : Nat]
Mail == [org : Organisations, email : People, role : OrgRoles,
         state : {"open", "accepted", "expired"}, accepted : Nat]
Request ==
    [act : {"register"}, who : People]
    \cup [act : {"team"}, who : People, org : Organisations]
    \cup [act : {"remove"}, who : People, org : Organisations, member : People, row : Nat]
Types ==
    /\ accounts \subseteq People
    /\ founder \in [Organisations -> People \cup {Nobody}]
    /\ member \in [People -> [Organisations -> Row]]
    /\ invites \in [Mails -> Mail \cup {NotSent}]
    /\ grants \in Nat
    /\ session \in [People -> Organisations \cup {Out}]
    /\ tab \in [Tabs -> Request \cup {NoTab}]

Used(n, e, o) == invites[n].state = "accepted" /\ invites[n].email = e /\ invites[n].org = o

\* Where a membership comes from, and that none of what its holder accepted is
\* later than it.
Origin(e, o) ==
    /\ \/ founder[o] = e /\ member[e][o].role = "admin"
       \/ \E n \in Mails : /\ Used(n, e, o)
                           /\ invites[n].role = member[e][o].role
                           /\ invites[n].accepted = member[e][o].accepted
    /\ \A n \in Mails : Used(n, e, o) => invites[n].accepted <= member[e][o].accepted

IInv ==
    /\ Types
    /\ \A e \in People, o \in Organisations : IsMember(e, o) => Origin(e, o)
    /\ \A n \in Mails : invites[n].accepted <= grants
    /\ \A n \in Mails : invites[n].state = "accepted" => invites[n].email \in accounts
    /\ \A o \in Organisations : Founded(o) => founder[o] \in accounts

-----------------------------------------------------------------------------
LEMMA InitHolds == PortalInit => IInv
<1> SUFFICES ASSUME PortalInit PROVE IInv
  OBVIOUS
<1>1. Types
  BY DEF PortalInit, Types, Row, NoMember, NotSent, NoTab, OrgRoles
<1>2. \A e \in People, o \in Organisations : ~IsMember(e, o)
  BY DEF PortalInit, IsMember
<1>3. \A n \in Mails : invites[n].accepted = 0 /\ invites[n].state = "none"
  BY DEF PortalInit, NotSent
<1>4. \A o \in Organisations : ~Founded(o)
  BY DEF PortalInit, Founded
<1> QED
  BY <1>1, <1>2, <1>3, <1>4 DEF IInv, Types, PortalInit

\* A grant that is later than all there is leaves the other memberships alone.
LEMMA GrantedIsRow ==
  ASSUME Types, NEW e \in People, NEW o \in Organisations, NEW row \in Nat,
         NEW role \in OrgRoles, Grant(e, o, row, role)
  PROVE  /\ grants' \in Nat /\ grants' = grants + 1
         /\ member' \in [People -> [Organisations -> Row]]
         /\ member'[e][o] = [row |-> row, role |-> role, accepted |-> grants']
         /\ \A f \in People, p \in Organisations :
               <<f, p>> # <<e, o>> => member'[f][p] = member[f][p]
<1>1. grants' = grants + 1 /\ grants' \in Nat
  BY DEF Grant, Types
<1> DEFINE new == [row |-> row, role |-> role, accepted |-> grants']
<1>2. new \in Row
  BY <1>1 DEF Row
<1>3. member' = [member EXCEPT ![e] = [member[e] EXCEPT ![o] = new]]
  BY DEF Grant
<1>4. member[e] \in [Organisations -> Row]
  BY DEF Types
<1> HIDE DEF new
<1>5. [member[e] EXCEPT ![o] = new] \in [Organisations -> Row]
  BY <1>2, <1>4
<1>6. /\ member' \in [People -> [Organisations -> Row]]
      /\ member'[e][o] = new
      /\ \A f \in People, p \in Organisations :
            <<f, p>> # <<e, o>> => member'[f][p] = member[f][p]
  BY <1>3, <1>4, <1>5 DEF Types
<1> QED
  BY <1>1, <1>6 DEF new

-----------------------------------------------------------------------------
\* Requests that read, and invitations sent or expired, grant nothing.
LEMMA NothingGranted ==
  ASSUME IInv, UNCHANGED <<accounts, founder, member, grants>>, Types',
         \A n \in Mails : /\ invites'[n].accepted <= grants
                          /\ (invites'[n].state = "accepted" \/ invites[n].state = "accepted")
                                => invites'[n] = invites[n]
  PROVE  IInv'
<1>1. \A n \in Mails, e \in People, o \in Organisations : Used(n, e, o)' <=> Used(n, e, o)
  BY DEF Used
<1>2. \A e \in People, o \in Organisations : Origin(e, o) => Origin(e, o)'
  BY <1>1 DEF Origin, Used
<1> QED
  BY <1>2 DEF IInv, IsMember, Founded

\* The organisation a request acts in is one of its person's.
LEMMA ResolvedIsTheirs ==
  ASSUME Types, NEW e \in People, session[e] # Out, Resolved(e) # Unchosen
  PROVE  Resolved(e) \in Organisations
<1>1. CASE IsMember(e, session[e])
  BY <1>1 DEF Resolved, Types
<1>2. CASE ~IsMember(e, session[e])
  <2>1. Cardinality(OrgsOf(e)) = 1 /\ Resolved(e) = Sole(e)
    BY <1>2 DEF Resolved
  <2>2. IsFiniteSet(OrgsOf(e))
    BY PortalAssumption, FS_Subset DEF OrgsOf
  <2>3. OrgsOf(e) # {}
    BY <2>1, <2>2, FS_EmptySet
  <2> QED
    BY <2>1, <2>3 DEF Sole, OrgsOf
<1> QED
  BY <1>1, <1>2

LEMMA StepHolds == IInv /\ [PortalNext]_portalVars => IInv'
<1> SUFFICES ASSUME IInv, [PortalNext]_portalVars PROVE IInv'
  OBVIOUS
<1> USE PortalAssumption
<1>0. Types
  BY DEF IInv
<1>1. ASSUME UNCHANGED <<accounts, founder, member, grants, invites>>, Types' PROVE IInv'
  BY <1>1, NothingGranted DEF IInv
<1>2. CASE UNCHANGED portalVars
  BY <1>0, <1>1, <1>2 DEF portalVars, Types
<1>3. ASSUME NEW t \in Tabs, NEW e \in People, EnterTeam(t, e) PROVE IInv'
  <2>1. Resolved(e) \in Organisations
    BY <1>0, <1>3, ResolvedIsTheirs DEF EnterTeam
  <2>2. Types'
    BY <1>0, <1>3, <2>1 DEF EnterTeam, SignIn, Types, Request
  <2> QED
    BY <1>1, <1>3, <2>2 DEF EnterTeam
<1>4. ASSUME NEW t \in Tabs, NEW e \in People, LookAtMember(t, e) PROVE IInv'
  <2>1. tab[t].who \in People /\ tab[t].org \in Organisations
    BY <1>0, <1>4 DEF LookAtMember, TabAt, Types, Request
  <2>2. member[e][tab[t].org].row \in Nat
    BY <1>0, <2>1 DEF Types, Row
  <2>3. Types'
    BY <1>0, <1>4, <2>1, <2>2 DEF LookAtMember, Types, Request
  <2> QED
    BY <1>1, <1>4, <2>3 DEF LookAtMember
<1>5. ASSUME NEW t \in Tabs, NEW n \in Mails, NEW e \in People, NEW role \in OrgRoles,
             Invite(t, n, e, role)
      PROVE  IInv'
  <2>1. tab[t].org \in Organisations
    BY <1>0, <1>5 DEF Invite, TabAt, Types, Request
  <2> DEFINE new == [org |-> tab[t].org, email |-> e, role |-> role, state |-> "open",
                     accepted |-> 0]
  <2>2. new \in Mail /\ new.state = "open" /\ new.accepted = 0
    BY <2>1 DEF Mail
  <2>3. invites' = [invites EXCEPT ![n] = new] /\ invites[n] = NotSent
    BY <1>5 DEF Invite
  <2> HIDE DEF new
  <2>4. Types'
    BY <1>0, <1>5, <2>2, <2>3 DEF Invite, Types, Done
  <2>5. \A m \in Mails : /\ invites'[m].accepted <= grants
                         /\ (invites'[m].state = "accepted" \/ invites[m].state = "accepted")
                               => invites'[m] = invites[m]
    BY <1>0, <2>2, <2>3 DEF IInv, Types, NotSent
  <2> QED
    BY <1>5, <2>4, <2>5, NothingGranted DEF Invite
<1>6. ASSUME NEW t \in Tabs, RemoveMember(t) PROVE IInv'
  <2> DEFINE e == tab[t].member
             o == tab[t].org
  <2>1. e \in People /\ o \in Organisations
    BY <1>0, <1>6 DEF RemoveMember, TabAt, Types, Request
  <2>2. /\ \A f \in People, p \in Organisations :
              member'[f][p] = NoMember \/ member'[f][p] = member[f][p]
        /\ member' \in [People -> [Organisations -> Row]]
    <3>1. NoMember \in Row
      BY DEF NoMember, Row
    <3>2. member[e] \in [Organisations -> Row]
      BY <1>0, <2>1 DEF Types
    <3>3. CASE member' = member
      BY <1>0, <3>3 DEF Types
    <3>4. CASE member' = [member EXCEPT ![e] = [member[e] EXCEPT ![o] = NoMember]]
      <4>1. [member[e] EXCEPT ![o] = NoMember] \in [Organisations -> Row]
        BY <3>1, <3>2
      <4> QED
        BY <1>0, <2>1, <3>2, <3>4, <4>1 DEF Types
    <3> QED
      BY <1>6, <3>3, <3>4 DEF RemoveMember
  <2>3. Types'
    BY <1>0, <1>6, <2>2 DEF RemoveMember, Done, Types
  <2>4. ASSUME NEW f \in People, NEW p \in Organisations, IsMember(f, p)' PROVE Origin(f, p)'
    <3>1. member'[f][p] = member[f][p] /\ IsMember(f, p)
      BY <2>2, <2>4 DEF IsMember
    <3>2. Origin(f, p)
      BY <3>1 DEF IInv
    <3> QED
      BY <1>6, <3>1, <3>2 DEF Origin, Used, RemoveMember
  <2> QED
    BY <1>6, <2>3, <2>4 DEF IInv, RemoveMember, Founded
<1>7. ASSUME NEW t \in Tabs, LeaveTeam(t) \/ RegisterRefused(t) PROVE IInv'
  <2>1. Types'
    BY <1>0, <1>7 DEF LeaveTeam, RegisterRefused, Done, Types
  <2> QED
    BY <1>1, <1>7, <2>1 DEF LeaveTeam, RegisterRefused
<1>8. ASSUME NEW t \in Tabs, NEW e \in People, AskRegister(t, e) PROVE IInv'
  <2>1. Types'
    BY <1>0, <1>8 DEF AskRegister, Types, Request
  <2> QED
    BY <1>1, <1>8, <2>1 DEF AskRegister
<1>9. ASSUME NEW t \in Tabs, NEW o \in Organisations, Register(t, o) PROVE IInv'
  <2> DEFINE e == tab[t].who
  <2>1. e \in People /\ e \notin accounts
    BY <1>0, <1>9 DEF Register, TabAt, Types, Request
  <2>2. Grant(e, o, grants + 1, "admin")
    BY <1>9 DEF Register
  <2>3. grants + 1 \in Nat /\ "admin" \in OrgRoles
    BY <1>0 DEF Types, OrgRoles
  <2> HIDE DEF e
  <2>4. /\ grants' \in Nat /\ grants' = grants + 1
        /\ member' \in [People -> [Organisations -> Row]]
        /\ member'[e][o] = [row |-> grants + 1, role |-> "admin", accepted |-> grants']
        /\ \A f \in People, p \in Organisations :
              <<f, p>> # <<e, o>> => member'[f][p] = member[f][p]
    BY <1>0, <2>1, <2>2, <2>3, GrantedIsRow
  <2>5. /\ accounts' = accounts \cup {e} /\ founder' = [founder EXCEPT ![o] = e]
        /\ session' = [session EXCEPT ![e] = o] /\ Done(t) /\ invites' = invites
        /\ founder[o] = Nobody
    BY <1>9 DEF Register, SignIn, Founded, e
  <2>6. Types'
    BY <1>0, <2>1, <2>4, <2>5 DEF Types, Done
  <2>7. \A n \in Mails : invites[n].accepted \in Nat
    BY <1>0 DEF Types, Mail, NotSent
  <2>8. ASSUME NEW f \in People, NEW p \in Organisations, IsMember(f, p)' PROVE Origin(f, p)'
    <3>1. CASE f = e /\ p = o
      <4>1. founder'[o] = e /\ member'[e][o].role = "admin" /\ member'[e][o].accepted = grants + 1
        BY <1>0, <2>4, <2>5 DEF Types
      <4>2. \A n \in Mails : invites'[n].accepted <= grants + 1
        BY <1>0, <2>5, <2>7 DEF IInv, Types
      <4> QED
        BY <3>1, <4>1, <4>2 DEF Origin
    <3>2. CASE ~(f = e /\ p = o)
      <4>1. member'[f][p] = member[f][p] /\ Origin(f, p)
        BY <2>4, <2>8, <3>2 DEF IInv, IsMember
      <4>2. founder[p] = f => founder'[p] = f
        BY <1>0, <2>5 DEF Types
      <4> QED
        BY <2>5, <4>1, <4>2 DEF Origin, Used
    <3> QED
      BY <3>1, <3>2
  <2>9. \A n \in Mails : invites'[n].accepted <= grants'
    BY <1>0, <2>4, <2>5, <2>7 DEF IInv, Types
  <2>10. \A p \in Organisations : Founded(p)' => founder'[p] \in accounts'
    BY <1>0, <2>5 DEF IInv, Founded, Types
  <2> QED
    BY <2>5, <2>6, <2>8, <2>9, <2>10 DEF IInv
<1>10. ASSUME NEW e \in People,
              Logout(e) \/ Visit(e) \/ \E o \in Organisations : Login(e, o) \/ SwitchOrg(e, o)
       PROVE  IInv'
  <2>1. CASE Logout(e)
    BY <1>0, <1>1, <2>1 DEF Logout, SignIn, Types
  <2>2. CASE Visit(e)
    <3>1. Resolved(e) # Unchosen => Resolved(e) \in Organisations
      BY <1>0, <2>2, ResolvedIsTheirs DEF Visit
    <3>2. Types'
      BY <1>0, <2>2, <3>1 DEF Visit, SignIn, Types
    <3> QED
      BY <1>1, <2>2, <3>2 DEF Visit
  <2>3. ASSUME NEW o \in Organisations, Login(e, o) \/ SwitchOrg(e, o) PROVE IInv'
    BY <1>0, <1>1, <2>3 DEF Login, SwitchOrg, SignIn, Types
  <2> QED
    BY <1>10, <2>1, <2>2, <2>3
<1>11. ASSUME NEW n \in Mails, Accept(n) PROVE IInv'
  <2> DEFINE e == invites[n].email
             o == invites[n].org
             role == invites[n].role
             row == IF IsMember(e, o) THEN member[e][o].row ELSE grants + 1
  <2>1. invites[n] \in Mail /\ e \in People /\ o \in Organisations /\ role \in OrgRoles
    BY <1>0, <1>11 DEF Accept, Types, Mail, NotSent
  <2>2. row \in Nat
    BY <1>0, <2>1 DEF Types, Row
  <2>3. Grant(e, o, row, role)
    BY <1>11 DEF Accept, Membership
  <2>4. /\ accounts' = accounts \cup {e}
        /\ invites' = [invites EXCEPT ![n] = [invites[n] EXCEPT !.state = "accepted",
                                                               !.accepted = grants']]
        /\ founder' = founder /\ session' = session /\ tab' = tab
    BY <1>11 DEF Accept
  <2> HIDE DEF row
  <2>5. /\ grants' \in Nat /\ grants' = grants + 1
        /\ member' \in [People -> [Organisations -> Row]]
        /\ member'[e][o] = [row |-> row, role |-> role, accepted |-> grants']
        /\ \A f \in People, p \in Organisations :
              <<f, p>> # <<e, o>> => member'[f][p] = member[f][p]
    BY <1>0, <2>1, <2>2, <2>3, GrantedIsRow
  <2>6. /\ invites'[n] \in Mail /\ invites'[n].state = "accepted"
        /\ invites'[n].accepted = grants' /\ invites'[n].email = e
        /\ invites'[n].org = o /\ invites'[n].role = role
        /\ \A m \in Mails : m # n => invites'[m] = invites[m]
    BY <1>0, <2>1, <2>4, <2>5 DEF Types, Mail
  <2>7. invites' \in [Mails -> Mail \cup {NotSent}]
    BY <1>0, <2>4, <2>6 DEF Types
  <2>8. Types'
    BY <1>0, <2>1, <2>4, <2>5, <2>7 DEF Types
  <2>9. \A m \in Mails : invites'[m].accepted <= grants'
    BY <1>0, <2>5, <2>6 DEF IInv, Types, Mail, NotSent
  <2>10. ASSUME NEW f \in People, NEW p \in Organisations, IsMember(f, p)' PROVE Origin(f, p)'
    <3>1. CASE f = e /\ p = o
      BY <2>5, <2>6, <2>9, <3>1 DEF Origin, Used
    <3>2. CASE ~(f = e /\ p = o)
      <4>1. member'[f][p] = member[f][p] /\ Origin(f, p)
        BY <2>5, <2>10, <3>2 DEF IInv, IsMember
      <4>2. \A m \in Mails : Used(m, f, p)' => m # n
        BY <2>6, <3>2 DEF Used
      <4>3. invites[n].state # "accepted"
        BY <1>11 DEF Accept
      <4> QED
        BY <2>4, <2>6, <4>1, <4>2, <4>3 DEF Origin, Used
    <3> QED
      BY <3>1, <3>2
  <2>11. \A m \in Mails : invites'[m].state = "accepted" => invites'[m].email \in accounts'
    BY <2>4, <2>6 DEF IInv
  <2>12. \A p \in Organisations : Founded(p)' => founder'[p] \in accounts'
    BY <2>4 DEF IInv, Founded
  <2> QED
    BY <2>8, <2>9, <2>10, <2>11, <2>12 DEF IInv
<1>12. ASSUME NEW n \in Mails, Expire(n) PROVE IInv'
  <2>1. invites[n] \in Mail
    BY <1>0, <1>12 DEF Expire, Types, NotSent
  <2>2. /\ invites'[n] \in Mail /\ invites'[n].state = "expired"
        /\ invites'[n].accepted = invites[n].accepted
        /\ \A m \in Mails : m # n => invites'[m] = invites[m]
        /\ invites' \in [Mails -> Mail \cup {NotSent}]
    BY <1>0, <1>12, <2>1 DEF Expire, Types, Mail
  <2>3. Types'
    BY <1>0, <1>12, <2>2 DEF Expire, Types
  <2>4. \A m \in Mails : /\ invites'[m].accepted <= grants
                         /\ (invites'[m].state = "accepted" \/ invites[m].state = "accepted")
                               => invites'[m] = invites[m]
    BY <1>12, <2>2 DEF IInv, Expire
  <2> QED
    BY <1>12, <2>3, <2>4, NothingGranted DEF Expire
<1> QED
  BY <1>2, <1>3, <1>4, <1>5, <1>6, <1>7, <1>8, <1>9, <1>10, <1>11, <1>12
  DEF PortalNext, TeamRequest, Registering, SignedIn

LEMMA IInvImplies == IInv => AccessWasGranted
BY DEF IInv, Origin, Used, AccessWasGranted, OrgsOf

\* In every behaviour of the portal, whatever requests interleave, each
\* membership is the founder's or what the last accepted invitation said.
THEOREM AccessIsGranted == PortalSpec => []AccessWasGranted
<1>1. PortalInit => IInv
  BY InitHolds
<1>2. IInv /\ [PortalNext]_portalVars => IInv'
  BY StepHolds
<1>3. IInv => AccessWasGranted
  BY IInvImplies
<1> QED
  BY <1>1, <1>2, <1>3, PTL DEF PortalSpec

-----------------------------------------------------------------------------
(* Backups.                                                                *)

Kinds == {"dump", "checksum"}
Objects == [kind : Kinds, of : Nat, on : Nat]
Rows == [at : {"none", "dumped", "uploaded", "checked", "pruned"}, of : Nat, since : Nat]
Runs == [of : Nat, outcome : {"succeeded", "failed"}, started : Nat]

BackupTypes ==
    /\ night \in Nat /\ taken \in Nat /\ taken <= MaxDumps
    /\ bucket \subseteq Objects
    /\ runner \in [Runners -> Rows]
    /\ backupRuns \subseteq Runs

\* There is such an object of backup n, put there on that day or later.
Has(b, kind, n, day) == \E x \in b : x.kind = kind /\ x.of = n /\ day <= x.on
\* Every dump of backup n has a checksum that is no older.
Paired(b, n) ==
    \A d \in b : d.kind = "dump" /\ d.of = n => Has(b, "checksum", n, d.on)

\* What a worker has put into bucket b by day t, within the retention.
RowOK(w, b, t) == w.at # "none" =>
    /\ w.since <= t /\ t <= w.since + Retention
    /\ \A x \in b : x.of = w.of => w.since <= x.on
    /\ w.at \in {"uploaded", "checked", "pruned"} => Has(b, "dump", w.of, w.since)
    /\ w.at \in {"checked", "pruned"} =>
          Has(b, "checksum", w.of, w.since) /\ Paired(b, w.of)

\* What is left of a backup that succeeded: all of it, or, past the retention,
\* no dump without a checksum that is the newest.
RunOK(run, b, t) == run.outcome = "succeeded" =>
    /\ t <= run.started + Retention =>
          \A kind \in Kinds : Has(b, kind, run.of, run.started)
    /\ \A d \in b : d.kind = "dump" /\ d.of = run.of =>
          \/ Has(b, "checksum", run.of, d.on)
          \/ \E y \in b : y.kind = "dump" /\ d.on < y.on

SomeWhole(b) == \E n \in Dumps : \A kind \in Kinds : Has(b, kind, n, 0)

\* Every backup has a name of its own.
Names ==
    /\ \A x \in bucket : x.of <= taken /\ x.on <= night
    /\ \A r \in Runners : runner[r].at # "none" => runner[r].of \in 1 .. taken
    /\ \A r, s \in Runners :
          r # s /\ runner[r].at # "none" /\ runner[s].at # "none" => runner[r].of # runner[s].of
    /\ \A run \in backupRuns :
          /\ run.of <= taken /\ run.started <= night
          /\ \A r \in Runners : runner[r].at # "none" => runner[r].of # run.of

BackupInv ==
    /\ BackupTypes /\ Names
    /\ \A r \in Runners : RowOK(runner[r], bucket, night)
    /\ \A run \in backupRuns : RunOK(run, bucket, night)
    /\ (\E run \in backupRuns : run.outcome = "succeeded") => SomeWhole(bucket)

-----------------------------------------------------------------------------
\* Pruning, whole or in part, by a worker whose own backup is in the bucket.
LEMMA Pruning ==
  ASSUME NEW b, b \subseteq Objects, NEW t \in Nat,
         NEW c, c \subseteq b, \A x \in b \ c : x.on < t - Retention,
         NEW w \in Rows, w.at = "checked", RowOK(w, b, t), w.of \in Dumps
  PROVE  /\ \A v \in Rows : RowOK(v, b, t) => RowOK(v, c, t)
         /\ \A run \in Runs : RunOK(run, b, t) => RunOK(run, c, t)
         /\ SomeWhole(c)
<1> USE BackupsAssumption
<1>1. \A kind \in Kinds, n, day \in Nat :
         t <= day + Retention /\ Has(b, kind, n, day) => Has(c, kind, n, day)
  BY DEF Has, Objects
<1>2. ASSUME NEW n, NEW d \in c, ~(d.on < t - Retention), Has(b, "checksum", n, d.on)
      PROVE  Has(c, "checksum", n, d.on)
  BY <1>2 DEF Has, Objects
<1>3. ASSUME NEW v \in Rows, RowOK(v, b, t) PROVE RowOK(v, c, t)
  <2> SUFFICES ASSUME v.at # "none" PROVE RowOK(v, c, t)
    BY DEF RowOK
  <2>1. /\ v.since <= t /\ t <= v.since + Retention /\ v.since \in Nat
        /\ \A x \in c : x.of = v.of => v.since <= x.on
    BY <1>3 DEF RowOK, Rows
  <2>2. v.at \in {"uploaded", "checked", "pruned"} => Has(c, "dump", v.of, v.since)
    BY <1>1, <1>3, <2>1 DEF RowOK, Rows, Kinds
  <2>3. v.at \in {"checked", "pruned"} => Has(c, "checksum", v.of, v.since)
    BY <1>1, <1>3, <2>1 DEF RowOK, Rows, Kinds
  <2>4. ASSUME v.at \in {"checked", "pruned"} PROVE Paired(c, v.of)
    <3>1. Paired(b, v.of)
      BY <1>3, <2>4 DEF RowOK
    <3>2. ASSUME NEW d \in c, d.kind = "dump", d.of = v.of PROVE Has(c, "checksum", v.of, d.on)
      <4>1. Has(b, "checksum", v.of, d.on) /\ d.on \in Nat /\ v.since <= d.on
        BY <2>1, <3>1, <3>2 DEF Paired, Objects
      <4> QED
        BY <1>2, <2>1, <4>1
    <3> QED
      BY <3>2 DEF Paired
  <2> QED
    BY <2>1, <2>2, <2>3, <2>4 DEF RowOK
<1>4. /\ Has(c, "dump", w.of, w.since) /\ Has(c, "checksum", w.of, w.since)
      /\ t <= w.since + Retention /\ w.since \in Nat
  BY <1>3 DEF RowOK, Rows
<1>5. PICK own \in c : own.kind = "dump" /\ w.since <= own.on
  BY <1>4 DEF Has
<1>6. ASSUME NEW run \in Runs, RunOK(run, b, t) PROVE RunOK(run, c, t)
  <2> SUFFICES ASSUME run.outcome = "succeeded" PROVE RunOK(run, c, t)
    BY DEF RunOK
  <2>1. t <= run.started + Retention => \A kind \in Kinds : Has(c, kind, run.of, run.started)
    BY <1>1, <1>6 DEF RunOK, Runs
  <2>2. ASSUME NEW d \in c, d.kind = "dump", d.of = run.of
        PROVE  \/ Has(c, "checksum", run.of, d.on)
               \/ \E y \in c : y.kind = "dump" /\ d.on < y.on
    <3>1. CASE d.on < t - Retention
      BY <1>4, <1>5, <3>1 DEF Objects
    <3>2. CASE ~(d.on < t - Retention)
      <4>1. CASE Has(b, "checksum", run.of, d.on)
        BY <1>2, <3>2, <4>1
      <4>2. CASE \E y \in b : y.kind = "dump" /\ d.on < y.on
        BY <3>2, <4>2 DEF Objects
      <4> QED
        BY <1>6, <2>2, <4>1, <4>2 DEF RunOK
    <3> QED
      BY <3>1, <3>2
  <2> QED
    BY <2>1, <2>2 DEF RunOK
<1>7. SomeWhole(c)
  BY <1>4 DEF SomeWhole, Has, Kinds, Objects
<1> QED
  BY <1>3, <1>6, <1>7

\* Nothing that is there is lost by adding to it, save that an object of a
\* backup speaks of that backup.
LEMMA Adding ==
  ASSUME NEW b, b \subseteq Objects, NEW x \in Objects
  PROVE  /\ \A kind, n : \A day \in Nat : Has(b, kind, n, day) => Has(b \cup {x}, kind, n, day)
         /\ SomeWhole(b) => SomeWhole(b \cup {x})
BY DEF Has, SomeWhole

LEMMA BackupInitHolds == BackupsInit => BackupInv
BY BackupsAssumption
DEF BackupsInit, BackupInv, BackupTypes, Names, RowOK, NotRunning, Rows, Objects, Runs

\* Recording and stopping, once what is in the bucket is known.
LEMMA Stopping ==
  ASSUME BackupInv, NEW r \in Runners, Stops(r), UNCHANGED <<night, taken>>,
         bucket' \subseteq bucket,
         \A v \in Rows : RowOK(v, bucket, night) => RowOK(v, bucket', night),
         \A run \in Runs : RunOK(run, bucket, night) => RunOK(run, bucket', night),
         (\E run \in backupRuns : run.outcome = "succeeded") => SomeWhole(bucket'),
         \/ UNCHANGED backupRuns
         \/ Recorded(r, "failed") /\ runner[r].at # "none"
  PROVE  BackupInv'
<1>1. runner' = [runner EXCEPT ![r] = NotRunning] /\ NotRunning \in Rows
  BY DEF Stops, NotRunning, Rows
<1> DEFINE new == [of |-> runner[r].of, outcome |-> "failed", started |-> runner[r].since]
<1>2. \/ backupRuns' = backupRuns
      \/ backupRuns' = backupRuns \cup {new} /\ runner[r].at # "none"
  BY DEF Recorded
<1>3. new \in Runs /\ new.outcome = "failed"
  BY DEF Runs, BackupInv, BackupTypes, Rows
<1>4. BackupTypes'
  BY <1>1, <1>2, <1>3 DEF BackupInv, BackupTypes
<1>5. \A s \in Runners : s # r => runner'[s] = runner[s]
  BY <1>1 DEF BackupInv, BackupTypes
<1>6. runner'[r].at = "none"
  BY <1>1 DEF BackupInv, BackupTypes, NotRunning
<1>7. Names'
  <2>1. runner[r].at # "none" => new.of <= taken /\ new.started <= night
    BY DEF BackupInv, Names, RowOK, BackupTypes, Rows
  <2>2. \A run \in backupRuns' : run.of <= taken /\ run.started <= night
    BY <1>2, <2>1 DEF BackupInv, Names
  <2>3. \A run \in backupRuns', s \in Runners : runner'[s].at # "none" => runner'[s].of # run.of
    BY <1>2, <1>5, <1>6 DEF BackupInv, Names
  <2> QED
    BY <1>5, <1>6, <2>2, <2>3 DEF BackupInv, Names
<1>8. \A s \in Runners : RowOK(runner'[s], bucket', night)
  BY <1>5, <1>6 DEF BackupInv, BackupTypes, RowOK
<1>9. \A run \in backupRuns' : RunOK(run, bucket', night)
  BY <1>2, <1>3 DEF BackupInv, BackupTypes, RunOK
<1>10. (\E run \in backupRuns' : run.outcome = "succeeded") => SomeWhole(bucket')
  BY <1>2, <1>3
<1> QED
  BY <1>4, <1>7, <1>8, <1>9, <1>10 DEF BackupInv

\* What a step that stops has left of the bucket.
LEMMA InPart ==
  ASSUME BackupInv, NEW r \in Runners, PrunedInPart(r)
  PROVE  /\ bucket' \subseteq bucket
         /\ \A v \in Rows : RowOK(v, bucket, night) => RowOK(v, bucket', night)
         /\ \A run \in Runs : RunOK(run, bucket, night) => RunOK(run, bucket', night)
         /\ (\E run \in backupRuns : run.outcome = "succeeded") => SomeWhole(bucket')
<1>1. CASE Running(r, "checked")
  <2>1. PICK gone \in SUBSET (bucket \ Kept(bucket)) : bucket' = bucket \ gone
    BY <1>1 DEF PrunedInPart
  <2>2. \A x \in bucket \ bucket' : x.on < night - Retention
    BY <2>1 DEF Kept, PastRetention
  <2>3. /\ runner[r] \in Rows /\ runner[r].at = "checked" /\ RowOK(runner[r], bucket, night)
        /\ runner[r].of \in Dumps
    BY <1>1, BackupsAssumption DEF BackupInv, BackupTypes, Names, Running, Dumps
  <2>4. bucket \subseteq Objects /\ night \in Nat /\ bucket' \subseteq bucket
    BY <2>1 DEF BackupInv, BackupTypes
  <2> QED
    BY <2>2, <2>3, <2>4, Pruning
<1>2. CASE ~Running(r, "checked")
  BY <1>2 DEF PrunedInPart, BackupInv
<1> QED
  BY <1>1, <1>2

\* A worker that goes on with its own backup, and adds an object of it.
LEMMA Going ==
  ASSUME BackupInv, NEW r \in Runners, NEW at \in {"uploaded", "checked", "pruned"},
         runner[r].at # "none", Goes(r, at), UNCHANGED <<night, taken, backupRuns>>,
         bucket' \subseteq Objects,
         \A x \in bucket' : x.of <= taken /\ x.on <= night,
         \A s \in Runners : s # r => RowOK(runner[s], bucket', night),
         RowOK([runner[r] EXCEPT !.at = at], bucket', night),
         \A run \in backupRuns : RunOK(run, bucket', night),
         (\E run \in backupRuns : run.outcome = "succeeded") => SomeWhole(bucket')
  PROVE  BackupInv'
<1> DEFINE new == [runner[r] EXCEPT !.at = at]
<1>1. runner' = [runner EXCEPT ![r] = new]
  BY DEF Goes
<1>2. /\ new \in Rows /\ new.of = runner[r].of /\ new.since = runner[r].since /\ new.at # "none"
  BY DEF BackupInv, BackupTypes, Rows
<1> HIDE DEF new
<1>3. runner'[r] = new /\ \A s \in Runners : s # r => runner'[s] = runner[s]
  BY <1>1 DEF BackupInv, BackupTypes
<1>4. BackupTypes'
  BY <1>1, <1>2 DEF BackupInv, BackupTypes
<1>5. Names'
  BY <1>2, <1>3 DEF BackupInv, Names
<1>6. \A s \in Runners : RowOK(runner'[s], bucket', night)
  BY <1>3 DEF new
<1> QED
  BY <1>4, <1>5, <1>6 DEF BackupInv

LEMMA BeginHolds == ASSUME BackupInv, NEW r \in Runners, Begin(r) PROVE BackupInv'
<1> DEFINE new == [at |-> "dumped", of |-> taken + 1, since |-> night]
<1>1. /\ runner' = [runner EXCEPT ![r] = new] /\ taken' = taken + 1 /\ taken < MaxDumps
      /\ bucket' = bucket /\ night' = night /\ backupRuns' = backupRuns
  BY DEF Begin, Named
<1>2. new \in Rows /\ new.at = "dumped" /\ new.of = taken + 1 /\ new.since = night
  BY DEF BackupInv, BackupTypes, Rows
<1> HIDE DEF new
<1>3. runner'[r] = new /\ \A s \in Runners : s # r => runner'[s] = runner[s]
  BY <1>1 DEF BackupInv, BackupTypes
<1>4. BackupTypes'
  BY <1>1, <1>2, BackupsAssumption DEF BackupInv, BackupTypes
<1>5. Names'
  <2>1. \A x \in bucket : x.of <= taken' /\ x.on <= night
    BY <1>1 DEF BackupInv, BackupTypes, Names, Objects
  <2>2. \A s \in Runners : runner'[s].at # "none" => runner'[s].of \in 1 .. taken'
    BY <1>1, <1>2, <1>3 DEF BackupInv, BackupTypes, Names
  <2>3. \A s, q \in Runners :
           s # q /\ runner'[s].at # "none" /\ runner'[q].at # "none" => runner'[s].of # runner'[q].of
    BY <1>2, <1>3 DEF BackupInv, BackupTypes, Names
  <2>4. \A run \in backupRuns :
           /\ run.of <= taken' /\ run.started <= night
           /\ \A s \in Runners : runner'[s].at # "none" => runner'[s].of # run.of
    BY <1>1, <1>2, <1>3 DEF BackupInv, BackupTypes, Names, Runs
  <2> QED
    BY <1>1, <2>1, <2>2, <2>3, <2>4 DEF Names
<1>6. RowOK(new, bucket, night)
  <2>1. \A x \in bucket : x.of # new.of
    BY <1>2 DEF BackupInv, BackupTypes, Names, Objects
  <2> QED
    BY <1>2, <2>1, BackupsAssumption DEF RowOK, BackupInv, BackupTypes
<1>7. \A s \in Runners : RowOK(runner'[s], bucket', night')
  BY <1>1, <1>3, <1>6 DEF BackupInv
<1> QED
  BY <1>1, <1>4, <1>5, <1>7 DEF BackupInv

\* What a new object of worker r does to the other rows and runs.
LEMMA Uploading ==
  ASSUME BackupInv, NEW r \in Runners, runner[r].at # "none", NEW kind \in Kinds,
         bucket' = bucket \cup {Object(kind, runner[r].of)}
  PROVE  /\ bucket' \subseteq Objects
         /\ \A x \in bucket' : x.of <= taken /\ x.on <= night
         /\ \A s \in Runners : s # r => RowOK(runner[s], bucket', night)
         /\ \A run \in backupRuns : RunOK(run, bucket', night)
         /\ (\E run \in backupRuns : run.outcome = "succeeded") => SomeWhole(bucket')
<1> DEFINE x == Object(kind, runner[r].of)
<1>1. x \in Objects /\ x.of = runner[r].of /\ x.on = night
  BY DEF Object, Objects, BackupInv, BackupTypes, Rows
<1> HIDE DEF x
<1>2. /\ \A k, n : \A day \in Nat : Has(bucket, k, n, day) => Has(bucket', k, n, day)
      /\ SomeWhole(bucket) => SomeWhole(bucket')
      /\ bucket' = bucket \cup {x}
  BY <1>1, Adding DEF BackupInv, BackupTypes, x
<1>3. x.of \in 1 .. taken
  BY <1>1 DEF BackupInv, Names
<1>4. ASSUME NEW s \in Runners, s # r PROVE RowOK(runner[s], bucket', night)
  <2> SUFFICES ASSUME runner[s].at # "none" PROVE RowOK(runner[s], bucket', night)
    BY DEF RowOK
  <2>1. x.of # runner[s].of /\ runner[s].since \in Nat /\ RowOK(runner[s], bucket, night)
    BY <1>1, <1>4 DEF BackupInv, BackupTypes, Names, Rows
  <2>2. Paired(bucket, runner[s].of) => Paired(bucket', runner[s].of)
    BY <1>2, <2>1 DEF Paired, BackupInv, BackupTypes, Objects
  <2> QED
    BY <1>2, <2>1, <2>2 DEF RowOK
<1>5. ASSUME NEW run \in backupRuns PROVE RunOK(run, bucket', night)
  <2> SUFFICES ASSUME run.outcome = "succeeded" PROVE RunOK(run, bucket', night)
    BY DEF RunOK
  <2>1. x.of # run.of /\ run.started \in Nat /\ RunOK(run, bucket, night)
    BY <1>1 DEF BackupInv, BackupTypes, Names, Runs
  <2>2. night <= run.started + Retention =>
           \A k \in Kinds : Has(bucket', k, run.of, run.started)
    BY <1>2, <2>1 DEF RunOK
  <2>3. ASSUME NEW d \in bucket', d.kind = "dump", d.of = run.of
        PROVE  \/ Has(bucket', "checksum", run.of, d.on)
               \/ \E y \in bucket' : y.kind = "dump" /\ d.on < y.on
    <3>1. d \in bucket /\ d.on \in Nat
      BY <1>2, <2>1, <2>3 DEF BackupInv, BackupTypes, Objects
    <3> QED
      BY <1>2, <2>1, <2>3, <3>1 DEF RunOK
  <2> QED
    BY <2>2, <2>3 DEF RunOK
<1>6. \A y \in bucket' : y.of <= taken /\ y.on <= night
  BY <1>1, <1>2, <1>3 DEF BackupInv, BackupTypes, Names
<1> QED
  BY <1>1, <1>2, <1>4, <1>5, <1>6 DEF BackupInv, BackupTypes

LEMMA UploadHolds ==
  ASSUME BackupInv, NEW r \in Runners, Upload(r) \/ UploadChecksum(r) PROVE BackupInv'
<1> DEFINE w == runner[r]
<1>1. /\ w \in Rows /\ w.since \in Nat /\ w.of \in Nat /\ night \in Nat
      /\ bucket \subseteq Objects /\ w.since <= night
      /\ w.at \in {"dumped", "uploaded"}
      /\ RowOK(w, bucket, night)
  BY DEF BackupInv, BackupTypes, RowOK, Rows, Upload, UploadChecksum, Running
<1>2. w.since <= night /\ night <= w.since + Retention
  BY <1>1 DEF RowOK
<1>3. \A kind \in Kinds : bucket' = bucket \cup {Object(kind, w.of)} =>
         /\ \A x \in bucket' : x.of = w.of => w.since <= x.on
         /\ \A k \in Kinds : Has(bucket, k, w.of, w.since) => Has(bucket', k, w.of, w.since)
         /\ Has(bucket', kind, w.of, w.since) /\ Has(bucket', kind, w.of, night)
  <2> SUFFICES ASSUME NEW kind \in Kinds, bucket' = bucket \cup {Object(kind, w.of)}
               PROVE  /\ \A x \in bucket' : x.of = w.of => w.since <= x.on
                      /\ \A k \in Kinds :
                            Has(bucket, k, w.of, w.since) => Has(bucket', k, w.of, w.since)
                      /\ Has(bucket', kind, w.of, w.since) /\ Has(bucket', kind, w.of, night)
    OBVIOUS
  <2> DEFINE x == Object(kind, w.of)
  <2>1. x.kind = kind /\ x.of = w.of /\ x.on = night /\ bucket' = bucket \cup {x}
    BY DEF Object
  <2> HIDE DEF x
  <2>2. \A y \in bucket' : y.of = w.of => w.since <= y.on
    <3>1. \A y \in bucket : y.of = w.of => w.since <= y.on
      BY <1>1 DEF RowOK
    <3> QED
      BY <1>2, <2>1, <3>1
  <2>3. \A k \in Kinds : Has(bucket, k, w.of, w.since) => Has(bucket', k, w.of, w.since)
    BY <2>1 DEF Has
  <2>4. Has(bucket', kind, w.of, w.since)
    BY <1>2, <2>1 DEF Has
  <2>5. Has(bucket', kind, w.of, night)
    BY <1>1, <2>1 DEF Has
  <2> QED
    BY <2>2, <2>3, <2>4, <2>5
<1>4. CASE Upload(r)
  <2> DEFINE new == [w EXCEPT !.at = "uploaded"]
  <2>1. bucket' = bucket \cup {Object("dump", w.of)} /\ w.at = "dumped"
    BY <1>4 DEF Upload, Running
  <2>2. new.at = "uploaded" /\ new.of = w.of /\ new.since = w.since
    BY <1>1 DEF Rows
  <2> HIDE DEF new
  <2>3. RowOK(new, bucket', night)
    BY <1>2, <1>3, <2>1, <2>2 DEF RowOK, Kinds
  <2>4. "dump" \in Kinds /\ w.at # "none" /\ "uploaded" \in {"uploaded", "checked", "pruned"}
    BY <2>1 DEF Kinds
  <2>5. Goes(r, "uploaded") /\ UNCHANGED <<night, taken, backupRuns>>
    BY <1>4 DEF Upload
  <2>6. /\ bucket' \subseteq Objects
        /\ \A x \in bucket' : x.of <= taken /\ x.on <= night
        /\ \A s \in Runners : s # r => RowOK(runner[s], bucket', night)
        /\ \A run \in backupRuns : RunOK(run, bucket', night)
        /\ (\E run \in backupRuns : run.outcome = "succeeded") => SomeWhole(bucket')
    BY <2>1, <2>4, Uploading
  <2>7. RowOK([runner[r] EXCEPT !.at = "uploaded"], bucket', night)
    BY <2>3 DEF new
  <2> QED
    BY <2>4, <2>5, <2>6, <2>7, Going
<1>5. CASE UploadChecksum(r)
  <2> DEFINE new == [w EXCEPT !.at = "checked"]
  <2>1. bucket' = bucket \cup {Object("checksum", w.of)} /\ w.at = "uploaded"
    BY <1>5 DEF UploadChecksum, Running
  <2>2. new.at = "checked" /\ new.of = w.of /\ new.since = w.since
    BY <1>1 DEF Rows
  <2> HIDE DEF new
  <2>3. Has(bucket, "dump", w.of, w.since)
    BY <1>1, <2>1 DEF RowOK
  <2>4. Paired(bucket', w.of)
    <3>1. \A d \in bucket : d.on \in Nat /\ d.on <= night
      BY <1>1 DEF BackupInv, Names, Objects
    <3>2. \A d \in bucket' : d.kind = "dump" => d \in bucket
      BY <2>1 DEF Object
    <3>3. PICK c \in bucket' : c.kind = "checksum" /\ c.of = w.of /\ night <= c.on
      BY <1>3, <2>1 DEF Has, Kinds
    <3>4. c.on = night
      BY <1>1, <2>1, <3>1, <3>3 DEF Object, Objects
    <3> QED
      BY <1>1, <3>1, <3>2, <3>3, <3>4 DEF Paired, Has
  <2>5. RowOK(new, bucket', night)
    BY <1>2, <1>3, <2>1, <2>2, <2>3, <2>4 DEF RowOK, Kinds
  <2>6. "checksum" \in Kinds /\ w.at # "none" /\ "checked" \in {"uploaded", "checked", "pruned"}
    BY <2>1 DEF Kinds
  <2>7. Goes(r, "checked") /\ UNCHANGED <<night, taken, backupRuns>>
    BY <1>5 DEF UploadChecksum
  <2>8. /\ bucket' \subseteq Objects
        /\ \A x \in bucket' : x.of <= taken /\ x.on <= night
        /\ \A s \in Runners : s # r => RowOK(runner[s], bucket', night)
        /\ \A run \in backupRuns : RunOK(run, bucket', night)
        /\ (\E run \in backupRuns : run.outcome = "succeeded") => SomeWhole(bucket')
    BY <2>1, <2>6, Uploading
  <2>9. RowOK([runner[r] EXCEPT !.at = "checked"], bucket', night)
    BY <2>5 DEF new
  <2> QED
    BY <2>6, <2>7, <2>8, <2>9, Going
<1> QED
  BY <1>4, <1>5

LEMMA PruneHolds == ASSUME BackupInv, NEW r \in Runners, Prune(r) PROVE BackupInv'
<1> DEFINE w == runner[r]
<1>1. /\ w \in Rows /\ w.at = "checked" /\ RowOK(w, bucket, night) /\ w.of \in Dumps
      /\ bucket \subseteq Objects /\ night \in Nat
  BY BackupsAssumption DEF Prune, Running, BackupInv, BackupTypes, Names, Dumps
<1>2. bucket' \subseteq bucket /\ \A x \in bucket \ bucket' : x.on < night - Retention
  BY DEF Prune, Kept, PastRetention
<1>3. /\ \A v \in Rows : RowOK(v, bucket, night) => RowOK(v, bucket', night)
      /\ \A run \in Runs : RunOK(run, bucket, night) => RunOK(run, bucket', night)
      /\ SomeWhole(bucket')
  BY <1>1, <1>2, Pruning
<1>4. RowOK([w EXCEPT !.at = "pruned"], bucket', night)
  BY <1>1, <1>3 DEF RowOK, Rows
<1>5. \A s \in Runners : RowOK(runner[s], bucket', night)
  BY <1>3 DEF BackupInv, BackupTypes
<1>6. \A run \in backupRuns : RunOK(run, bucket', night)
  BY <1>3 DEF BackupInv, BackupTypes
<1> QED
  BY <1>1, <1>2, <1>3, <1>4, <1>5, <1>6, Going DEF Prune, BackupInv, BackupTypes, Names

LEMMA SucceedHolds == ASSUME BackupInv, NEW r \in Runners, Succeed(r) PROVE BackupInv'
<1> DEFINE w == runner[r]
           new == [of |-> w.of, outcome |-> "succeeded", started |-> w.since]
<1>1. /\ runner' = [runner EXCEPT ![r] = NotRunning] /\ backupRuns' = backupRuns \cup {new}
      /\ bucket' = bucket /\ night' = night /\ taken' = taken /\ w.at = "pruned"
  BY DEF Succeed, Running, Stops, Recorded
<1>2. NotRunning \in Rows /\ NotRunning.at = "none"
  BY DEF NotRunning, Rows
<1>3. /\ new \in Runs /\ w.of \in 1 .. taken /\ w.since \in Nat /\ w.since <= night
      /\ Has(bucket, "dump", w.of, w.since) /\ Has(bucket, "checksum", w.of, w.since)
      /\ Paired(bucket, w.of)
  BY <1>1 DEF BackupInv, BackupTypes, Names, Rows, RowOK, Runs
<1>4. /\ runner'[r].at = "none" /\ \A s \in Runners : s # r => runner'[s] = runner[s]
  BY <1>1, <1>2 DEF BackupInv, BackupTypes
<1>5. BackupTypes'
  BY <1>1, <1>2, <1>3 DEF BackupInv, BackupTypes
<1>6. Names'
  <2>1. \A run \in backupRuns' : run.of <= taken /\ run.started <= night
    BY <1>1, <1>3 DEF BackupInv, Names
  <2>2. \A run \in backupRuns', s \in Runners : runner'[s].at # "none" => runner'[s].of # run.of
    BY <1>1, <1>4 DEF BackupInv, Names
  <2> QED
    BY <1>1, <1>4, <2>1, <2>2 DEF BackupInv, Names
<1>7. RunOK(new, bucket, night)
  BY <1>3 DEF RunOK, Paired, Kinds
<1>8. SomeWhole(bucket)
  <2>1. w.of \in Dumps
    BY <1>3, BackupsAssumption DEF BackupInv, BackupTypes, Dumps
  <2>2. \A kind \in Kinds : Has(bucket, kind, w.of, 0)
    BY <1>3 DEF Has, Kinds, BackupInv, BackupTypes, Objects
  <2> QED
    BY <2>1, <2>2 DEF SomeWhole
<1>9. \A s \in Runners : RowOK(runner'[s], bucket', night')
  BY <1>1, <1>4 DEF BackupInv, RowOK
<1> QED
  BY <1>1, <1>5, <1>6, <1>7, <1>8, <1>9 DEF BackupInv

LEMMA NextNightHolds == ASSUME BackupInv, NextNight PROVE BackupInv'
<1>1. /\ night' = night + 1 /\ bucket' = bucket /\ runner' = runner /\ taken' = taken
      /\ backupRuns' = backupRuns
      /\ \A r \in Runners : runner[r] # NotRunning => night - runner[r].since < Retention
  BY DEF NextNight
<1>2. night \in Nat /\ \A r \in Runners : runner[r] \in Rows
  BY DEF BackupInv, BackupTypes
<1>3. BackupTypes'
  BY <1>1 DEF BackupInv, BackupTypes
<1>4. Names'
  BY <1>1, <1>2 DEF BackupInv, BackupTypes, Names, Objects, Runs
<1>5. ASSUME NEW r \in Runners PROVE RowOK(runner[r], bucket, night + 1)
  <2> SUFFICES ASSUME runner[r].at # "none" PROVE RowOK(runner[r], bucket, night + 1)
    BY DEF RowOK
  <2>1. runner[r] # NotRunning
    BY DEF NotRunning
  <2>2. night + 1 <= runner[r].since + Retention /\ runner[r].since <= night + 1
    BY <1>1, <1>2, <2>1, BackupsAssumption DEF BackupInv, RowOK, Rows
  <2> QED
    BY <2>2 DEF BackupInv, RowOK
<1>6. \A run \in backupRuns : RunOK(run, bucket, night + 1)
  BY <1>2, BackupsAssumption DEF BackupInv, BackupTypes, RunOK, Runs
<1> QED
  BY <1>1, <1>3, <1>4, <1>5, <1>6 DEF BackupInv

LEMMA BackupStepHolds == BackupInv /\ [BackupsNext]_backupVars => BackupInv'
<1> SUFFICES ASSUME BackupInv, [BackupsNext]_backupVars PROVE BackupInv'
  OBVIOUS
<1>1. CASE UNCHANGED backupVars
  BY <1>1 DEF backupVars, BackupInv, BackupTypes, Names
<1>2. ASSUME NEW r \in Runners, BackingUp(r) PROVE BackupInv'
  <2>1. CASE FailBackup(r)
    <3>1. runner[r].at # "none"
      BY <2>1 DEF FailBackup
    <3> QED
      BY <2>1, <3>1, InPart, Stopping DEF FailBackup
  <2>2. CASE LoseRunner(r)
    BY <2>2, InPart, Stopping DEF LoseRunner
  <2> QED
    BY <1>2, <2>1, <2>2, BeginHolds, UploadHolds, PruneHolds, SucceedHolds DEF BackingUp
<1> QED
  BY <1>1, <1>2, NextNightHolds DEF BackupsNext

LEMMA BackupInvImplies == BackupInv => AlwaysRestorable
<1> SUFFICES ASSUME BackupInv PROVE AlwaysRestorable
  OBVIOUS
<1>1. \A n \in Nat, day \in Nat :
         (\A kind \in Kinds : Has(bucket, kind, n, day)) => Whole(n)
  BY DEF Has, Whole, ObjectsOf, Kinds
<1>2. ASSUME NEW run \in backupRuns, run.outcome = "succeeded"
      PROVE  /\ run.started >= night - Retention => Whole(run.of)
             /\ Newest(run.of) => RestoreWorks(run.of)
  <2>1. RunOK(run, bucket, night) /\ run.of \in Nat /\ run.started \in Nat /\ night \in Nat
    BY DEF BackupInv, BackupTypes, Runs
  <2>2. run.started >= night - Retention => Whole(run.of)
    BY <1>1, <1>2, <2>1, BackupsAssumption DEF RunOK
  <2>3. ASSUME Newest(run.of) PROVE Whole(run.of)
    <3>1. PICK d \in bucket : /\ d.kind = "dump" /\ d.of = run.of /\ d.on \in Nat
                              /\ \A y \in bucket : y.kind = "dump" => y.on <= d.on
      BY <2>3 DEF Newest, ObjectsOf, BackupInv, BackupTypes, Objects
    <3>2. Has(bucket, "checksum", run.of, d.on)
      BY <1>2, <2>1, <3>1 DEF RunOK, BackupInv, BackupTypes, Objects
    <3> QED
      BY <3>1, <3>2 DEF Whole, ObjectsOf, Has
  <2> QED
    BY <2>2, <2>3 DEF RestoreWorks
<1>3. SomeWhole(bucket) => \E n \in Dumps : Whole(n)
  BY <1>1 DEF SomeWhole, Dumps
<1> QED
  BY <1>2, <1>3 DEF BackupInv, AlwaysRestorable

\* In every behaviour, whatever fails, overlaps or is lost, a backup that
\* succeeded is whole within its retention, its restore test passes while its
\* dump is the newest, and a bucket that held a backup once always holds one.
THEOREM BackupsAreRestorable == BackupsSpec => []AlwaysRestorable
<1>1. BackupsInit => BackupInv
  BY BackupInitHolds
<1>2. BackupInv /\ [BackupsNext]_backupVars => BackupInv'
  BY BackupStepHolds
<1>3. BackupInv => AlwaysRestorable
  BY BackupInvImplies
<1> QED
  BY <1>1, <1>2, <1>3, PTL DEF BackupsSpec

=============================================================================
