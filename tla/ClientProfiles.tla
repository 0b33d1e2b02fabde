---------------------------- MODULE ClientProfiles -----------------------------
(***************************************************************************)
(* The versions of one client's profile (apps/clients: services.py,        *)
(* tasks.py and the profile views): drafted, imported or discovered,       *)
(* edited, and made live.  Outputs, scores and recommendations cite the    *)
(* version they were made with.  The client's contacts are at the end.     *)
(*                                                                         *)
(* The database lets one version be current; that a version which has been *)
(* live stops changing is left to the screen.                              *)
(***************************************************************************)
EXTENDS Naturals, FiniteSets

CONSTANTS
    Assets,        \* what the client sells
    Terms,         \* audiences, priorities and competitors
    Admins,        \* requests of the clients screen, and the discovery task
    Contacts,      \* addresses, lower-cased
    MaxVersions    \* bound: rows

ASSUME ProfilesAssumption == MaxVersions \in Nat \ {0}

VARIABLES
    version,     \* the table of profile versions
    profiling,   \* what each request has loaded
    contact,     \* the table of contacts, by address
    wentLive     \* history: what each version held when it was first live

profileVars == <<version, profiling, contact, wentLive>>

-----------------------------------------------------------------------------
Numbers == 1 .. MaxVersions
Version == [exists : BOOLEAN, current : BOOLEAN,
            assets : SUBSET Assets, terms : SUBSET Terms]
NoVersion == [exists |-> FALSE, current |-> FALSE, assets |-> {}, terms |-> {}]

Profiling == [act : {"edit", "activate", "switch"}, number : Numbers,
              current : BOOLEAN, superseded : Numbers \cup {0}]
NotProfiling == [act |-> "none"]

InDraft == {n \in Numbers : version[n].exists}
Current == {n \in Numbers : version[n].current}
NextNumber == 1 + Cardinality(InDraft)
LiveAssets == UNION {version[n].assets : n \in Current}
LiveTerms == UNION {version[n].terms : n \in Current}

ProfileStep(a, act) == profiling[a] # NotProfiling /\ profiling[a].act = act
ProfileDone(a) == profiling' = [profiling EXCEPT ![a] = NotProfiling]

-----------------------------------------------------------------------------
(* New versions.  None of them goes live by itself.                        *)

NewVersion(assets, terms) ==
    /\ NextNumber \in Numbers
    /\ version' = [version EXCEPT ![NextNumber] =
           [exists |-> TRUE, current |-> FALSE, assets |-> assets, terms |-> terms]]
    /\ UNCHANGED <<profiling, contact, wentLive>>

\* draft(): a copy of the live version, or empty when there is none.
DraftCopy == NewVersion(LiveAssets, LiveTerms)

\* load_spec() of a JSON file: the file is the whole profile.
ImportProfile(assets, terms) == NewVersion(assets, terms)

\* load_spec() of a CSV list of products, onto a copy of the live version:
\* a name the copy holds already is not created twice.
ImportProducts(assets, terms) ==
    /\ assets \cup terms # {}
    /\ NewVersion(LiveAssets \cup assets, LiveTerms \cup terms)

\* _inventory(): the catalogue replaces the products and keeps the terms.
ImportInventory(assets) == NewVersion(assets, LiveTerms)

\* discover_storefront: what a model made of the catalogue that was read, in
\* one transaction with its call.  A storefront that cannot be read leaves
\* nothing.
Discover(assets, terms) == NewVersion(assets, terms)

-----------------------------------------------------------------------------
(* Editing and activating.                                                 *)

LoadVersion(a, n, act) ==
    /\ profiling[a] = NotProfiling /\ n \in InDraft /\ act \in {"edit", "activate"}
    /\ profiling' = [profiling EXCEPT ![a] =
           [act |-> act, number |-> n, current |-> version[n].current, superseded |-> 0]]
    /\ UNCHANGED <<version, contact, wentLive>>

\* The screen refuses what was live when it was loaded, and nothing else.
Editable(a) == ~profiling[a].current

\* asset.add, asset.delete, term.add, term.delete; a save keeps the entry.
EditVersion(a, assets, terms) ==
    /\ ProfileStep(a, "edit") /\ Editable(a)
    /\ LET n == profiling[a].number
           entries == version[n].assets \cup version[n].terms
           edited == assets \cup terms
       IN
         /\ Cardinality((entries \ edited) \cup (edited \ entries)) = 1
         /\ version' = [version EXCEPT ![n].assets = assets, ![n].terms = terms]
    /\ ProfileDone(a)
    /\ UNCHANGED <<contact, wentLive>>

\* The version is live, or holds nothing, or the form is incomplete.
RefuseProfile(a) ==
    /\ ProfileStep(a, "edit") \/ ProfileStep(a, "activate")
    /\ ProfileDone(a)
    /\ UNCHANGED <<version, contact, wentLive>>

\* activate() reads which version it supersedes ...
ActivateRead(a) ==
    /\ ProfileStep(a, "activate") /\ ~profiling[a].current
    /\ LET n == profiling[a].number IN
         /\ version[n].assets \cup version[n].terms # {}
         /\ \E old \in IF Current = {} THEN {0} ELSE Current :
                profiling' = [profiling EXCEPT ![a].act = "switch", ![a].superseded = old]
    /\ UNCHANGED <<version, contact, wentLive>>

\* Mutant of OnlyCurrent: without one_current_profile_per_org.
AnyCurrent(n, others) == TRUE

\* one_current_profile_per_org.
OnlyCurrent(n, others) == others \subseteq {n}

\* ... clears it, and sets the new one, unless another has become current.
ActivateWrite(a) ==
    /\ ProfileStep(a, "switch")
    /\ LET n == profiling[a].number
           old == profiling[a].superseded
           others == Current \ {old}
       IN IF OnlyCurrent(n, others)
          THEN /\ version' = [k \in Numbers |->
                      [version[k] EXCEPT !.current = (@ /\ k # old) \/ k = n]]
               /\ wentLive' = [wentLive EXCEPT ![n] = IF @.exists THEN @ ELSE version[n]]
          ELSE UNCHANGED <<version, wentLive>>
    /\ ProfileDone(a)
    /\ UNCHANGED contact

-----------------------------------------------------------------------------
(* Contacts: added, paused, and deactivated but never deleted.             *)

NoContact == [exists |-> FALSE, active |-> FALSE, receives |-> FALSE]

AddContact(c) ==
    /\ ~contact[c].exists
    /\ contact' = [contact EXCEPT ![c] = [exists |-> TRUE, active |-> TRUE, receives |-> TRUE]]
    /\ UNCHANGED <<version, profiling, wentLive>>

ToggleContact(c) ==
    /\ contact[c].exists
    /\ contact' = [contact EXCEPT ![c].receives = ~@]
    /\ UNCHANGED <<version, profiling, wentLive>>

DeactivateContact(c) ==
    /\ contact[c].exists
    /\ contact' = [contact EXCEPT ![c].active = FALSE]
    /\ UNCHANGED <<version, profiling, wentLive>>

\* recipients_for: the reviewers of the settings, less any address that is a
\* client's contact, paused or deactivated ones included.
RecipientsFor(reviewers) == {r \in reviewers : ~(r \in Contacts /\ contact[r].exists)}

-----------------------------------------------------------------------------
ProfilesInit ==
    /\ version = [n \in Numbers |-> NoVersion]
    /\ profiling = [a \in Admins |-> NotProfiling]
    /\ contact = [c \in Contacts |-> NoContact]
    /\ wentLive = [n \in Numbers |-> NoVersion]

Versioning ==
    \/ DraftCopy
    \/ \E assets \in SUBSET Assets, terms \in SUBSET Terms :
           \/ ImportProfile(assets, terms)
           \/ ImportProducts(assets, terms)
           \/ Discover(assets, terms)
    \/ \E assets \in SUBSET Assets : ImportInventory(assets)

Switching(a) ==
    \/ \E n \in Numbers, act \in {"edit", "activate"} : LoadVersion(a, n, act)
    \/ \E assets \in SUBSET Assets, terms \in SUBSET Terms : EditVersion(a, assets, terms)
    \/ RefuseProfile(a)
    \/ ActivateRead(a)
    \/ ActivateWrite(a)

Contacting == \E c \in Contacts : AddContact(c) \/ ToggleContact(c) \/ DeactivateContact(c)

ProfilesNext == Versioning \/ Contacting \/ \E a \in Admins : Switching(a)

ProfilesSpec == ProfilesInit /\ [][ProfilesNext]_profileVars

=============================================================================
