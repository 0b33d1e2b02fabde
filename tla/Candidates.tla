------------------------------ MODULE Candidates -------------------------------
(***************************************************************************)
(* Ingredients a client does not sell, assessed for a test                 *)
(* (apps/scoring/opportunities.py and views_opportunities.py), and which   *)
(* of them the opportunity brief prints (apps/outputs/opportunity_brief).  *)
(*                                                                         *)
(* A request loads the candidate and saves it; a draft waits on a model    *)
(* between the two.  Observations are rows of their own: they are written  *)
(* first, and an approval is taken back by a save after that.  Each write  *)
(* commits by itself and the request may end between them.                 *)
(***************************************************************************)
EXTENDS ClientProfiles

CONSTANTS
    Proposed,      \* candidates, by name
    NamedBy,       \* the assets whose name, terms or notes name each of them
    Sightings,     \* observations
    MediaOf,       \* the video an observation is of
    Analysts       \* requests of the candidate page

ASSUME CandidatesAssumption ==
    /\ DOMAIN NamedBy = Proposed /\ \A c \in Proposed : NamedBy[c] \subseteq Assets
    /\ DOMAIN MediaOf = Sightings

VARIABLES
    candidate,   \* the table of candidates of one client
    assessing,   \* the row each request has loaded
    standing     \* history: candidates approved since they were last changed

candidateVars == <<candidate, assessing, standing>>

-----------------------------------------------------------------------------
\* "case" is the prose of opening, next step and gate: written or edited anew,
\* or with one of them blank.
Cases == {"blank", "drafted", "edited"}
Unchecked == [checked |-> FALSE, found |-> {}]
CandidateRow == [exists : BOOLEAN, status : {"open", "rejected"}, case : Cases,
                 gap : [checked : BOOLEAN, found : SUBSET Assets],
                 adjacent : SUBSET Assets, approved : BOOLEAN,
                 seen : SUBSET Sightings]
NoCandidate == [exists |-> FALSE, status |-> "open", case |-> "blank", gap |-> Unchecked,
                adjacent |-> {}, approved |-> FALSE, seen |-> {}]

Idle == [act |-> "none"]
Assessing == [act : {"page", "model", "changed"}, of : Proposed, row : CandidateRow]

Candidates == {c \in Proposed : candidate[c].exists}
AtStep(a, act) == assessing[a] # Idle /\ assessing[a].act = act
InHand(a) == assessing[a].row
Answer(a) == assessing' = [assessing EXCEPT ![a] = Idle]
Stands(a) == standing' = standing \cup {assessing[a].of}
NoLongerStands(a) == standing' = standing \ {assessing[a].of}

\* What the brief prints of a candidate.
Printed(row) == [row EXCEPT !.approved = TRUE, !.exists = TRUE]

\* save(update_fields): the listed columns of the row in hand.  Observations
\* are a table of their own and are never saved with it.
SaveColumns(a, row, columns) ==
    candidate' = [candidate EXCEPT ![assessing[a].of] =
        [f \in DOMAIN row |-> IF f \in columns THEN row[f] ELSE @[f]]]
AllColumns == {"status", "case", "gap", "adjacent", "approved"}

-----------------------------------------------------------------------------
GapNow(c) == [checked |-> TRUE, found |-> NamedBy[c] \cap LiveAssets]

\* create(): one transaction with the gap check, which needs a live profile;
\* neighbours are suggested from the theme.
CreateCandidate(c, suggested) ==
    /\ ~candidate[c].exists /\ Current # {}
    /\ suggested \subseteq LiveAssets
    /\ candidate' = [candidate EXCEPT ![c] =
           [NoCandidate EXCEPT !.exists = TRUE, !.gap = GapNow(c), !.adjacent = suggested]]
    /\ UNCHANGED <<assessing, standing>>

LoadCandidate(a, c) ==
    /\ assessing[a] = Idle /\ candidate[c].exists
    /\ assessing' = [assessing EXCEPT ![a] =
           [act |-> "page", of |-> c, row |-> candidate[c]]]
    /\ UNCHANGED <<candidate, standing>>

\* Mutant of CheckGap: save() without update_fields.
CheckGapSavingAll(a) ==
    /\ AtStep(a, "page") /\ Current # {}
    /\ SaveColumns(a, [InHand(a) EXCEPT !.gap = GapNow(assessing[a].of)], AllColumns)
    /\ Answer(a)
    /\ UNCHANGED standing

\* gap and adjacent.suggest save their one column and leave an approval alone.
CheckGap(a) ==
    /\ AtStep(a, "page") /\ Current # {}
    /\ SaveColumns(a, [InHand(a) EXCEPT !.gap = GapNow(assessing[a].of)], {"gap"})
    /\ Answer(a)
    /\ UNCHANGED standing

SuggestAdjacent(a, suggested) ==
    /\ AtStep(a, "page") /\ suggested \subseteq LiveAssets
    /\ SaveColumns(a, [InHand(a) EXCEPT !.adjacent = suggested], {"adjacent"})
    /\ Answer(a)
    /\ UNCHANGED standing

\* Names that are not listings of the live profile are not kept.
SetAdjacent(a, named) ==
    /\ AtStep(a, "page") /\ named \subseteq LiveAssets
    /\ SaveColumns(a, [InHand(a) EXCEPT !.adjacent = named, !.approved = FALSE],
                   {"adjacent", "approved"})
    /\ NoLongerStands(a)
    /\ Answer(a)

\* One observation of a video is enough: of those asked for, in order, the
\* ones of a video not held when the row's observations were read.
Attachable(a, xs) ==
    LET held == {MediaOf[x] : x \in InHand(a).seen}
    IN  {x \in xs : /\ MediaOf[x] \notin held
                    /\ \A y \in xs : MediaOf[y] = MediaOf[x] => x <= y}

\* The observations of a candidate are written.  An approval the request has
\* seen is withdrawn next; one given since it loaded the row is not.
SaveSightings(a, xs) ==
    /\ candidate' = [candidate EXCEPT ![assessing[a].of].seen = xs]
    /\ IF InHand(a).approved THEN assessing' = [assessing EXCEPT ![a].act = "changed"]
                             ELSE Answer(a)
    /\ UNCHANGED standing

\* attach, and collect, which makes observations of collected items and
\* attaches them.
AttachSightings(a, xs) ==
    /\ AtStep(a, "page") /\ Attachable(a, xs) # {}
    /\ SaveSightings(a, candidate[assessing[a].of].seen \cup Attachable(a, xs))

DetachSighting(a, x) ==
    /\ AtStep(a, "page")
    /\ SaveSightings(a, candidate[assessing[a].of].seen \ {x})

\* _unapprove, and the save of what it blanked.
WithdrawApproval(a) ==
    /\ AtStep(a, "changed")
    /\ SaveColumns(a, [InHand(a) EXCEPT !.approved = FALSE], {"approved"})
    /\ NoLongerStands(a)
    /\ Answer(a)

\* edit(): the whole row, as it was loaded and edited.
EditCandidate(a, case, status) ==
    /\ AtStep(a, "page")
    /\ SaveColumns(a, [InHand(a) EXCEPT !.case = case, !.status = status, !.approved = FALSE],
                   AllColumns)
    /\ NoLongerStands(a)
    /\ Answer(a)

\* What approve() asks of the row in hand, and of the observations as they are.
Complete(row, sightings) ==
    /\ row.case # "blank" /\ row.gap.checked
    /\ row.status = "rejected" \/ sightings # {}

Approve(a) ==
    /\ AtStep(a, "page")
    /\ LET c == assessing[a].of IN
         /\ Complete(InHand(a), candidate[c].seen)
         /\ candidate' = [candidate EXCEPT ![c].approved = TRUE]
    /\ Stands(a)
    /\ Answer(a)

\* draft() reads the observations, checks the gap if that was never done, and
\* waits on the model ...
DraftCase(a) ==
    /\ AtStep(a, "page") /\ candidate[assessing[a].of].seen # {}
    /\ InHand(a).gap.checked \/ Current # {}
    /\ LET gap == IF InHand(a).gap.checked THEN InHand(a).gap ELSE GapNow(assessing[a].of)
       IN
         /\ SaveColumns(a, [InHand(a) EXCEPT !.gap = gap],
                        IF InHand(a).gap.checked THEN {} ELSE {"gap"})
         /\ assessing' = [assessing EXCEPT ![a].act = "model", ![a].row.gap = gap]
    /\ UNCHANGED standing

\* ... and saves the whole row it loaded before, with the new case.
SaveDraft(a) ==
    /\ AtStep(a, "model")
    /\ SaveColumns(a, [InHand(a) EXCEPT !.case = "drafted", !.approved = FALSE], AllColumns)
    /\ NoLongerStands(a)
    /\ Answer(a)

\* The model fails, something is missing, the page is left, or the request
\* ends between its two writes.
LeaveCandidate(a) ==
    /\ assessing[a] # Idle
    /\ Answer(a)
    /\ UNCHANGED <<candidate, standing>>

-----------------------------------------------------------------------------
\* approved_candidates of the opportunity brief.
InOpportunityBrief == {c \in Candidates : candidate[c].approved /\ candidate[c].status # "rejected"}

CandidatesInit ==
    /\ candidate = [c \in Proposed |-> NoCandidate]
    /\ assessing = [a \in Analysts |-> Idle]
    /\ standing = {}

Page(a) ==
    \/ \E c \in Proposed : LoadCandidate(a, c)
    \/ CheckGap(a)
    \/ \E named \in SUBSET Assets : SuggestAdjacent(a, named) \/ SetAdjacent(a, named)
    \/ \E xs \in SUBSET Sightings : AttachSightings(a, xs)
    \/ \E x \in Sightings : DetachSighting(a, x)
    \/ WithdrawApproval(a)
    \/ \E case \in Cases, status \in {"open", "rejected"} : EditCandidate(a, case, status)
    \/ Approve(a)
    \/ DraftCase(a)
    \/ SaveDraft(a)
    \/ LeaveCandidate(a)

CandidatesNext ==
    \/ \E c \in Proposed, suggested \in SUBSET Assets : CreateCandidate(c, suggested)
    \/ \E a \in Analysts : Page(a)

\* Candidates are assessed while the profile changes.
AssessmentNext ==
    \/ CandidatesNext /\ UNCHANGED profileVars
    \/ ProfilesNext /\ UNCHANGED candidateVars
AssessmentSpec ==
    ProfilesInit /\ CandidatesInit /\ [][AssessmentNext]_<<profileVars, candidateVars>>

=============================================================================
