--------------------------------- MODULE Briefs ---------------------------------
(***************************************************************************)
(* What an output says (apps/outputs): the trend brief of the developments *)
(* approved for a client (briefing.py), the content package drafted from   *)
(* one of them (content_brief.py), and the brief of a client's claims      *)
(* (drafting.py).                                                          *)
(*                                                                         *)
(* Prose is left out.  What is kept is which rows are chosen, in which     *)
(* order, and how a line refers to its source: a number into a list that   *)
(* grows while the lines are written.                                      *)
(***************************************************************************)
EXTENDS Scores

CONSTANTS
    Developments,     \* signals, by code
    Observations,     \* entered by hand or collected for a candidate
    PublishedOn,      \* the day of each
    Quotes,           \* EVIDENCE_PER_DEVELOPMENT
    Dissents,         \* DISSENT_PER_DEVELOPMENT
    Window,           \* WINDOW_DAYS
    PerSection,       \* MAX_PER_SECTION
    KindOf            \* the section each claim belongs to

ASSUME BriefsAssumption ==
    /\ Developments \subseteq Nat /\ IsFiniteSet(Developments)
    /\ Observations \subseteq Nat /\ IsFiniteSet(Observations)
    /\ Claims \subseteq Nat
    /\ PublishedOn \in [Observations -> Nat] /\ DOMAIN KindOf = Claims
    /\ Quotes \in Nat /\ Dissents \in Nat /\ Window \in Nat /\ PerSection \in Nat

VARIABLES
    told,       \* the role of each claim in each development
    shown,      \* the role of each observation in it
    entered,    \* observations, with the label each was entered with
    found,      \* developments an operator approved
    advised,    \* those whose recommendation is approved for the client
    outline,    \* what a content package's sections draw on, as a model asked
    written     \* the observations an analyst's text on a candidate refers to

briefVars == <<told, shown, entered, found, advised, outline, written>>

-----------------------------------------------------------------------------
Roles == {"supports", "contradicts"}
NoRole == "none"
Labels == {"current", "older"}
NotEntered == "not entered"

\* The members of a set in order.
Ordered(S, Precedes(_, _)) ==
    CHOOSE s \in [1 .. Cardinality(S) -> S] :
        \A m, n \in DOMAIN s : m < n => Precedes(s[m], s[n])

Told(d, role) == {c \in Claims : told[d][c] = role}
Shown(d, role) == {o \in Observations : shown[d][o] = role}
ShownAtAll(d) == {o \in Observations : shown[d][o] # NoRole}

\* approved_developments: both approvals, strongest standing first, then the
\* freshest evidence, then rank.
Approved == found \cap advised
Standing == [measured_trend |-> 0, recurring |-> 1, watch |-> 2]
Latest(d) == Highest({DayOf[i] : i \in ItemsOf(Told(d, "supports"))}
                     \cup {PublishedOn[o] : o \in Shown(d, "supports")})
Before(d, e) ==
    LET sd == Standing[Maturity(Told(d, "supports"))]
        se == Standing[Maturity(Told(e, "supports"))]
        rd == Rank(Told(d, "supports"))
        re == Rank(Told(e, "supports"))
    IN  \/ sd < se
        \/ sd = se /\ Latest(d) > Latest(e)
        \/ sd = se /\ Latest(d) = Latest(e) /\ rd > re
        \/ sd = se /\ Latest(d) = Latest(e) /\ rd = re /\ d < e
InOrder == Ordered(Approved, Before)

\* _evidence: what cites a study first, then the newest; of an item that
\* supports, its first line only.
RowBefore(c, k) ==
    LET dc == DayOf[ItemOf[c]]
        dk == DayOf[ItemOf[k]]
    IN  \/ c \in Cited /\ k \notin Cited
        \/ (c \in Cited <=> k \in Cited) /\ (dc > dk \/ (dc = dk /\ c < k))
FirstOf(cs, n) == {c \in cs : Cardinality({k \in cs : RowBefore(k, c)}) < n}
OnePerItem(cs) == {c \in cs : \A k \in cs : ItemOf[k] = ItemOf[c] => k = c \/ RowBefore(c, k)}
Quoted(d) == Ordered(FirstOf(OnePerItem(Told(d, "supports")), Quotes)
                          \cup FirstOf(Told(d, "contradicts"), Dissents), RowBefore)

\* Every line of a development refers to an item or to an observation.
Key(kind, k) == [kind |-> kind, key |-> k]
QuoteLine(c) == Key("item", ItemOf[c])
ObservationLine(o) == Key("obs", o)
Lines(d) ==
    LET claims == Quoted(d)
        observations == Ordered(ShownAtAll(d), <)
    IN  [n \in DOMAIN claims |-> QuoteLine(claims[n])]
        \o [n \in DOMAIN observations |-> ObservationLine(observations[n])]

\* Mutant of Cite: a source cited again is listed again.
CiteAgain(brief, key) ==
    [sources |-> Append(brief.sources, key),
     lines |-> Append(brief.lines, [key |-> key, number |-> Len(brief.sources) + 1])]

\* _cite: a source is listed when it is first cited, and keeps its number.
Cite(brief, key) ==
    LET sources == IF key \in ToSet(brief.sources) THEN brief.sources
                   ELSE Append(brief.sources, key)
    IN  [sources |-> sources,
         lines |-> Append(brief.lines, [key |-> key,
                       number |-> CHOOSE n \in DOMAIN sources : sources[n] = key])]

\* Sections are written one after another, into one list of sources.
Written(keys) == FoldLeft(Cite, [sources |-> <<>>, lines |-> <<>>], keys)

\* sections_for_brief
Body(ds) == Written(FlattenSeq([n \in DOMAIN ds |-> Lines(ds[n])]))
Brief == Body(InOrder)

\* is_older
Older(day) == day < today - Window

\* What the first sections say of the sources: how many, of which kind, from
\* which channels none, and when those inside the window were published.  An
\* observation is inside by the label it was entered with.
Of(brief, kind) == {k.key : k \in {s \in ToSet(brief.sources) : s.kind = kind}}
Gaps(brief) == {RouteOf[i] : i \in Items} \ {RouteOf[i] : i \in Of(brief, "item")}
Inside(brief) ==
    {DayOf[i] : i \in {i \in Of(brief, "item") : ~ Older(DayOf[i])}}
    \cup {PublishedOn[o] : o \in {o \in Of(brief, "obs") : entered[o] = "current"}}
Stated(brief) ==
    [sources |-> Len(brief.sources), items |-> Cardinality(Of(brief, "item")),
     observations |-> Cardinality(Of(brief, "obs")),
     creators |-> {CreatorOf[i] : i \in Of(brief, "item")}, gaps |-> Gaps(brief), inside |-> Inside(brief)]

\* They are placed before the developments and written after them, when the
\* list is whole.
FrontMatter == Stated(Brief)

-----------------------------------------------------------------------------
(* The content package of one development.                                 *)

\* Of what a section asks for, what the development's evidence holds.
Picked(d, section) ==
    [claims |-> Ordered(section.claims \cap (Told(d, "supports") \cup Told(d, "contradicts")), <),
     observations |-> Ordered(section.observations \cap ShownAtAll(d), <)]
Sections(d) == [n \in DOMAIN outline |-> Picked(d, outline[n])]

\* In the order they were first drawn on.
Distinct(seq) == FoldLeft(LAMBDA kept, x : IF x \in ToSet(kept) THEN kept ELSE Append(kept, x),
                          <<>>, seq)
Position(seq, x) == CHOOSE n \in DOMAIN seq : seq[n] = x
Used(sections) == Distinct(FlattenSeq([n \in DOMAIN sections |-> sections[n].claims]))
UsedObservations(sections) ==
    Distinct(FlattenSeq([n \in DOMAIN sections |-> sections[n].observations]))
EvidenceLines(d) ==
    LET used == Used(Sections(d))
        observations == UsedObservations(Sections(d))
    IN  [n \in DOMAIN used |-> Key("claim", used[n])]
        \o [n \in DOMAIN observations |-> Key("obs", observations[n])]

\* Mutant of Offset: observations are numbered as each section is read.
OffsetAsRead(d, n) == Len(Used(SubSeq(Sections(d), 1, n)))

\* Observations are numbered after all the claims.
Offset(d, n) == Len(Used(Sections(d)))

ClaimRef(d, c) == Position(Used(Sections(d)), c)
ObservationRef(d, n, o) == Offset(d, n) + Position(UsedObservations(Sections(d)), o)

-----------------------------------------------------------------------------
(* opportunity_brief.py: the candidates of a client, each with the           *)
(* observations attached to it (here: shown in it).                         *)

\* _cited: the analyst's numbers become this brief's; one the candidate does
\* not carry is dropped.
OwnReferences(d) ==
    FoldLeft(LAMBDA kept, o : IF o \in ShownAtAll(d) THEN Append(kept, o) ELSE kept,
             <<>>, written[d])

ByDate(o, p) == PublishedOn[o] < PublishedOn[p] \/ (PublishedOn[o] = PublishedOn[p] /\ o < p)
CandidateLines(d) ==
    LET cited == OwnReferences(d)
        listed == Ordered(ShownAtAll(d), ByDate)
    IN  [n \in DOMAIN cited |-> Key("obs", cited[n])]
        \o [n \in DOMAIN listed |-> Key("obs", listed[n])]
OpportunityBrief ==
    Written(FlattenSeq([n \in DOMAIN Ordered(found, <) |->
                           CandidateLines(Ordered(found, <)[n])]))

-----------------------------------------------------------------------------
(* drafting.py: the claims that match one client, section by section.      *)

ClaimBefore(c, k) ==
    \/ ClaimFit(c) > ClaimFit(k)
    \/ ClaimFit(c) = ClaimFit(k) /\ c \in Cited /\ k \notin Cited
    \/ ClaimFit(c) = ClaimFit(k) /\ (c \in Cited <=> k \in Cited) /\ c < k
Section(kind) ==
    LET theirs == {c \in Relevant : KindOf[c] = kind}
    IN  {c \in theirs : Cardinality({k \in theirs : ClaimBefore(k, c)}) < PerSection}

-----------------------------------------------------------------------------
BriefsInit ==
    /\ told = [d \in Developments |-> [c \in Claims |-> NoRole]]
    /\ shown = [d \in Developments |-> [o \in Observations |-> NoRole]]
    /\ entered = [o \in Observations |-> NotEntered]
    /\ found = {} /\ advised = {}
    /\ outline = <<>> /\ written = [d \in Developments |-> <<>>]

Tell(d, c, role) ==
    /\ told[d][c] = NoRole /\ DayOf[ItemOf[c]] <= today
    /\ told' = [told EXCEPT ![d][c] = role]
    /\ UNCHANGED <<shown, entered, found, advised, outline, written>>

\* Entered with the label the day asks for: by collection, and by an analyst
\* who reads the form's note.
Enter(o) ==
    /\ entered[o] = NotEntered /\ PublishedOn[o] <= today
    /\ entered' = [entered EXCEPT ![o] = IF Older(PublishedOn[o]) THEN "older" ELSE "current"]
    /\ UNCHANGED <<told, shown, found, advised, outline, written>>

Show(d, o, role) ==
    /\ entered[o] # NotEntered /\ shown[d][o] = NoRole
    /\ shown' = [shown EXCEPT ![d][o] = role]
    /\ UNCHANGED <<told, entered, found, advised, outline, written>>

Find(d) ==
    /\ found' = found \cup {d}
    /\ UNCHANGED <<told, shown, entered, advised, outline, written>>

Advise(d) ==
    /\ advised' = advised \cup {d}
    /\ UNCHANGED <<told, shown, entered, found, outline, written>>

\* The model's outline asks for any numbers it likes.
AskFor(section) ==
    /\ outline' = Append(outline, section)
    /\ UNCHANGED <<told, shown, entered, found, advised, written>>

\* The text of a candidate is edited: its approval is withdrawn (found).
Refer(d, o) ==
    /\ written' = [written EXCEPT ![d] = Append(@, o)]
    /\ found' = found \ {d}
    /\ UNCHANGED <<told, shown, entered, advised, outline>>

OutlineSection == [claims : SUBSET Claims, observations : SUBSET Observations]

BriefsNext ==
    \/ \E d \in Developments :
          \/ \E role \in Roles : \/ \E c \in Claims : Tell(d, c, role)
                                 \/ \E o \in Observations : Show(d, o, role)
          \/ Find(d) \/ Advise(d)
          \/ \E o \in Observations : Refer(d, o)
    \/ \E o \in Observations : Enter(o)
    \/ \E section \in OutlineSection : AskFor(section)

\* Documents are read whenever the rows allow, while the rows change.
DocumentsInit == ScoresInit /\ BriefsInit
DocumentsNext ==
    \/ ScoresNext /\ UNCHANGED briefVars
    \/ BriefsNext /\ UNCHANGED scoreVars
DocumentsSpec == DocumentsInit /\ [][DocumentsNext]_<<scoreVars, briefVars>>

=============================================================================
