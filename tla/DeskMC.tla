-------------------------------- MODULE DeskMC ---------------------------------
(***************************************************************************)
(* The desk in small.  Its parts share no variable they write, so each     *)
(* behaviour moves one of them, and the evidence it stands on: the state   *)
(* spaces are added up and not multiplied.                                 *)
(***************************************************************************)
EXTENDS DeskProps

CONSTANT Parts   \* the parts that move in the run

VARIABLE focus   \* the one that moves in the behaviour

deskVars == <<signalVars, adviceVars, profileVars, candidateVars, portalVars, backupVars, focus>>
House == <<portalVars, backupVars>>

\* Claims 1 and 2 are of one item, claim 3 of one of the week after.
ItemsMC == [c \in Claims |-> IF c = 3 THEN 22 ELSE 21]
WeeksMC == [x \in ContentItems \cup Observations |-> IF x \in {22, 13} THEN 2 ELSE 1]
EventsMC == [x \in Observations |-> x]
NamedByMC == [c \in Proposed |-> Assets]
OneAdmin == CHOOSE a \in Admins : TRUE
MediaMC == [x \in Sightings |-> IF x = 3 THEN "v3" ELSE "v1"]

Init ==
    /\ SignalsInit /\ AdviceInit /\ ProfilesInit /\ CandidatesInit
    /\ PortalInit /\ BackupsInit
    /\ focus \in Parts

\* Claims 1 and 3 may agree, claim 2 may only disagree, and no momentum is
\* measured.
FewerRoles == \A s \in Codes : /\ 2 \in Claims => evidence'[s][2] # "supports"
                             /\ signal'[s].maturity # "measured_trend"
Detection ==
    /\ \/ \E o \in Operators : Deciding(o)
       \/ \E o \in Detectors : Detecting(o)
    /\ FewerRoles

\* The item of claim 3 turns out to be the other one's upload, and is let go
\* again, while signals are counted, merged, rejected and opened again.
MarkedMeanwhile ==
    /\ \/ \E kept \in ContentItems : MarkDuplicates({22}, kept)
       \/ \E o \in Detectors : Detecting(o)
       \/ \E o \in Operators :
              \/ \E s \in Codes : LoadMove(o, s)
              \/ \E to \in {"rejected", "candidate"} : CommitMove(o, to)
              \/ \E s, into \in Codes : LoadMerge(o, s, into)
              \/ CommitMerge(o, FALSE)
    /\ FewerRoles

\* Advice is drafted and decided while the evidence of one signal grows and
\* shrinks: it is detected, attached to and detached from.
OneSignal == \A s \in Codes \ {1} : ~Exists(s)'
Growing ==
    \/ Entering
    \/ \E o \in Detectors :
          \/ DetectLoad(o)
          \/ \E cs \in SUBSET Claims : DetectApply(o, 1, cs, {})
          \/ CodeTaken(o)
AdviceAndEvidence ==
    \/ AdviceNext /\ UNCHANGED signalVars
    \/ Growing /\ OneSignal /\ FewerRoles /\ UNCHANGED adviceVars

\* An analyst's signal and the runs of the days after it.
EnteredAndRescored ==
    \/ \E os \in SUBSET Observations : StartFromObservations(os)
    \/ \E o \in Detectors : Detecting(o)

\* Candidates are assessed while a version is imported and made live by one
\* administrator.
OneVersion == \A n \in Numbers \ {1} : ~version'[n].exists
CandidatesAndProfiles ==
    \/ CandidatesNext /\ UNCHANGED profileVars
    \/ /\ \/ \E assets \in SUBSET Assets : assets # {} /\ ImportProfile(assets, Terms) /\ OneVersion
          \/ \E n \in Numbers : LoadVersion(OneAdmin, n, "activate")
          \/ ActivateRead(OneAdmin) \/ ActivateWrite(OneAdmin)
       /\ UNCHANGED candidateVars

Desk ==
    \/ /\ focus = "signals" /\ Detection
       /\ UNCHANGED <<adviceVars, profileVars, candidateVars>>
    \/ /\ focus = "marked" /\ MarkedMeanwhile
       /\ UNCHANGED <<adviceVars, profileVars, candidateVars>>
    \/ /\ focus = "entered" /\ EnteredAndRescored
       /\ UNCHANGED <<adviceVars, profileVars, candidateVars>>
    \/ /\ focus = "advice" /\ AdviceAndEvidence
       /\ UNCHANGED <<profileVars, candidateVars>>
    \/ /\ focus = "profiles" /\ ProfilesNext
       /\ UNCHANGED <<signalVars, adviceVars, candidateVars>>
    \/ /\ focus = "candidates" /\ CandidatesAndProfiles
       /\ UNCHANGED <<signalVars, adviceVars>>

Next ==
    /\ UNCHANGED focus
    /\ \/ Desk /\ UNCHANGED House
       \/ /\ \/ focus = "portal" /\ PortalNext /\ UNCHANGED backupVars
             \/ focus = "backups" /\ BackupsNext /\ UNCHANGED portalVars
          /\ UNCHANGED <<signalVars, adviceVars, profileVars, candidateVars>>

Spec == Init /\ [][Next]_deskVars

=============================================================================
