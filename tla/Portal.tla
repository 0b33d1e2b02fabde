--------------------------------- MODULE Portal ---------------------------------
(***************************************************************************)
(* Who may act in which organisation (apps/portal and the portal's         *)
(* middleware of apps/tenancy): accounts, memberships, invitations and the *)
(* organisation a session has chosen.                                      *)
(*                                                                         *)
(* A request resolves its membership when it comes in and acts later; the  *)
(* removal of a member loads the row, counts, and deletes.  Passwords,     *)
(* tokens and throttles are left out: a request that fails on them changes *)
(* none of these.                                                          *)
(***************************************************************************)
EXTENDS Integers, FiniteSets

CONSTANTS
    People,         \* e-mail addresses
    Organisations,
    Tabs,           \* requests under way
    MaxInvites,     \* bound
    MaxGrants       \* bound: memberships granted, the clock of the model

Nobody == "nobody"   \* the founder of an organisation that is not there
Out == -1            \* not signed in
Unchosen == 0        \* signed in, no organisation chosen

ASSUME PortalAssumption ==
    /\ IsFiniteSet(Organisations) /\ {Out, Unchosen} \cap Organisations = {}
    /\ MaxInvites \in Nat /\ MaxGrants \in Nat
    /\ Nobody \notin People

VARIABLES
    accounts,   \* OrgUser rows
    founder,    \* of an organisation: who registered it
    member,     \* member[e][o]: the OrgMembership row
    invites,    \* OrgInvite rows
    session,    \* the organisation each person's session names
    tab,        \* tab[t]: a request, and what it has read
    grants      \* how many memberships were granted

portalVars == <<accounts, founder, member, invites, session, tab, grants>>

-----------------------------------------------------------------------------
OrgRoles == {"admin", "viewer"}
NoMember == [row |-> 0, role |-> "none", accepted |-> 0]
NotSent == [org |-> 0, email |-> Nobody, role |-> "none", state |-> "none", accepted |-> 0]
NoTab == [act |-> "none"]

Mails == 1 .. MaxInvites
Founded(o) == founder[o] # Nobody
IsMember(e, o) == member[e][o] # NoMember
OrgsOf(e) == {o \in Organisations : IsMember(e, o)}
AdminsOf(o) == {e \in People : member[e][o].role = "admin"}
Sole(e) == CHOOSE o \in OrgsOf(e) : TRUE
TabAt(t, act) == tab[t] # NoTab /\ tab[t].act = act
Done(t) == tab' = [tab EXCEPT ![t] = NoTab]
SignIn(e, o) == session' = [session EXCEPT ![e] = o]

\* The middleware: the session's organisation if it is still one of theirs, or
\* else the only one they have.
Resolved(e) ==
    IF IsMember(e, session[e]) THEN session[e]
    ELSE IF Cardinality(OrgsOf(e)) = 1 THEN Sole(e) ELSE Unchosen

Grant(e, o, row, role) ==
    /\ grants < MaxGrants /\ grants' = grants + 1
    /\ member' = [member EXCEPT ![e][o] =
           [row |-> row, role |-> role, accepted |-> grants']]

-----------------------------------------------------------------------------
\* The address has no account when the form arrives.
AskRegister(t, e) ==
    /\ tab[t] = NoTab /\ e \notin accounts
    /\ tab' = [tab EXCEPT ![t] = [act |-> "register", who |-> e]]
    /\ UNCHANGED <<accounts, founder, member, invites, session, grants>>

\* One transaction makes organisation, account and admin membership; then the
\* session begins.
Register(t, o) ==
    /\ TabAt(t, "register") /\ ~Founded(o)
    /\ LET e == tab[t].who IN
         /\ e \notin accounts
         /\ accounts' = accounts \cup {e}
         /\ founder' = [founder EXCEPT ![o] = e]
         /\ Grant(e, o, grants + 1, "admin")
         /\ SignIn(e, o)
    /\ Done(t)
    /\ UNCHANGED invites

\* The address was taken meanwhile: IntegrityError, and nothing is kept.
RegisterRefused(t) ==
    /\ TabAt(t, "register") /\ tab[t].who \in accounts
    /\ Done(t)
    /\ UNCHANGED <<accounts, founder, member, invites, session, grants>>

\* Into the first of their organisations by name.
Login(e, o) ==
    /\ session[e] = Out /\ e \in accounts /\ IsMember(e, o)
    /\ SignIn(e, o)
    /\ UNCHANGED <<accounts, founder, member, invites, tab, grants>>

Logout(e) ==
    /\ session[e] # Out /\ SignIn(e, Out)
    /\ UNCHANGED <<accounts, founder, member, invites, tab, grants>>

SwitchOrg(e, o) ==
    /\ session[e] # Out /\ Resolved(e) # Unchosen
    /\ IsMember(e, o) /\ o # session[e]
    /\ SignIn(e, o)
    /\ UNCHANGED <<accounts, founder, member, invites, tab, grants>>

-----------------------------------------------------------------------------
\* Any other request: without a usable membership the session ends.
Visit(e) ==
    /\ session[e] # Out
    /\ SignIn(e, IF Resolved(e) = Unchosen THEN Out ELSE Resolved(e))
    /\ UNCHANGED <<accounts, founder, member, invites, tab, grants>>

\* A request to the team page, with the role the middleware read.
EnterTeam(t, e) ==
    /\ tab[t] = NoTab /\ session[e] # Out /\ Resolved(e) # Unchosen
    /\ member[e][Resolved(e)].role = "admin"
    /\ SignIn(e, Resolved(e))
    /\ tab' = [tab EXCEPT ![t] = [act |-> "team", who |-> e, org |-> Resolved(e)]]
    /\ UNCHANGED <<accounts, founder, member, invites, grants>>

\* Several invitations to one address may be out at once.
Invite(t, n, e, role) ==
    /\ TabAt(t, "team") /\ ~IsMember(e, tab[t].org)
    /\ invites[n] = NotSent /\ \A k \in 1 .. n - 1 : invites[k] # NotSent
    /\ invites' = [invites EXCEPT ![n] =
           [org |-> tab[t].org, email |-> e, role |-> role, state |-> "open", accepted |-> 0]]
    /\ Done(t)
    /\ UNCHANGED <<accounts, founder, member, session, grants>>

Spares(t, e) ==
    /\ e # tab[t].who
    /\ member[e][tab[t].org].role = "admin" => Cardinality(AdminsOf(tab[t].org)) > 1
LookAtMember(t, e) ==
    /\ TabAt(t, "team") /\ IsMember(e, tab[t].org) /\ Spares(t, e)
    /\ tab' = [tab EXCEPT ![t] =
           [act |-> "remove", who |-> tab[t].who, org |-> tab[t].org,
            member |-> e, row |-> member[e][tab[t].org].row]]
    /\ UNCHANGED <<accounts, founder, member, invites, session, grants>>

\* DELETE by primary key: of no effect on a row made since.
RemoveMember(t) ==
    /\ TabAt(t, "remove")
    /\ LET e == tab[t].member
           o == tab[t].org IN
       member' = IF member[e][o].row = tab[t].row
                 THEN [member EXCEPT ![e][o] = NoMember] ELSE member
    /\ Done(t)
    /\ UNCHANGED <<accounts, founder, invites, session, grants>>

LeaveTeam(t) ==
    /\ TabAt(t, "team") /\ Done(t)
    /\ UNCHANGED <<accounts, founder, member, invites, session, grants>>

\* One transaction on the locked invitation: account, update_or_create of the
\* membership, and the invitation is used.
\* A plausible bug: get_or_create, which leaves a row there as it is.
MembershipKept(n) ==
    LET e == invites[n].email
        o == invites[n].org IN
    IF IsMember(e, o) THEN grants < MaxGrants /\ grants' = grants + 1 /\ UNCHANGED member
    ELSE Grant(e, o, grants + 1, invites[n].role)

Membership(n) ==
    LET e == invites[n].email
        o == invites[n].org IN
    Grant(e, o, IF IsMember(e, o) THEN member[e][o].row ELSE grants + 1, invites[n].role)

Accept(n) ==
    /\ invites[n].state = "open"
    /\ accounts' = accounts \cup {invites[n].email}
    /\ Membership(n)
    /\ invites' = [invites EXCEPT ![n].state = "accepted", ![n].accepted = grants']
    /\ UNCHANGED <<founder, session, tab>>

Expire(n) ==
    /\ invites[n].state = "open"
    /\ invites' = [invites EXCEPT ![n].state = "expired"]
    /\ UNCHANGED <<accounts, founder, member, session, tab, grants>>

-----------------------------------------------------------------------------
PortalInit ==
    /\ accounts = {}
    /\ founder = [o \in Organisations |-> Nobody]
    /\ member = [e \in People |-> [o \in Organisations |-> NoMember]]
    /\ invites = [n \in Mails |-> NotSent]
    /\ session = [e \in People |-> Out]
    /\ tab = [t \in Tabs |-> NoTab]
    /\ grants = 0

TeamRequest(t) ==
    \/ \E e \in People : EnterTeam(t, e) \/ LookAtMember(t, e)
    \/ \E n \in Mails, e \in People, role \in OrgRoles : Invite(t, n, e, role)
    \/ RemoveMember(t) \/ LeaveTeam(t)
Registering(t) ==
    \/ \E e \in People : AskRegister(t, e)
    \/ \E o \in Organisations : Register(t, o)
    \/ RegisterRefused(t)
SignedIn(e) == Logout(e) \/ Visit(e) \/ \E o \in Organisations : Login(e, o) \/ SwitchOrg(e, o)

PortalNext ==
    \/ \E t \in Tabs : TeamRequest(t) \/ Registering(t)
    \/ \E e \in People : SignedIn(e)
    \/ \E n \in Mails : Accept(n) \/ Expire(n)

PortalSpec == PortalInit /\ [][PortalNext]_portalVars

-----------------------------------------------------------------------------
\* "Joining an existing organisation remains invite-only" (portal/views.py):
\* a membership is its organisation's founder's, or is exactly what the last
\* invitation its holder accepted said; an invitation that was used gave an
\* account; and no organisation is left behind by a registration that lost
\* its address to another.
AccessWasGranted ==
    /\ \A e \in People : \A o \in OrgsOf(e) :
          LET used == {n \in Mails : /\ invites[n].state = "accepted"
                                     /\ invites[n].email = e /\ invites[n].org = o}
          IN  /\ \/ founder[o] = e /\ member[e][o].role = "admin"
                 \/ \E n \in used : /\ invites[n].role = member[e][o].role
                                    /\ invites[n].accepted = member[e][o].accepted
              /\ \A n \in used : invites[n].accepted <= member[e][o].accepted
    /\ \A n \in Mails : invites[n].state = "accepted" => invites[n].email \in accounts
    /\ \A o \in Organisations : Founded(o) => founder[o] \in accounts

=============================================================================
