--------------------------------- MODULE Scores ---------------------------------
(***************************************************************************)
(* What a development is worth (apps/intelligence/components.py with the   *)
(* coverage of detection.py) and what it is worth to one client            *)
(* (apps/scoring/relevance.py and signal_rank.py).                         *)
(*                                                                         *)
(* The scores are arithmetic over rows; the rows arrive in any order, and  *)
(* weeks pass.  Every number is a whole one as the code stores it; Python  *)
(* rounds a half to the even neighbour.                                    *)
(***************************************************************************)
EXTENDS Integers, FiniteSets, SequencesExt

CONSTANTS
    Items,          \* what was collected: conversations
    DayOf,          \* the day each was published
    SourceOf,       \* its source
    CreatorOf,      \* its creator
    RouteOf,        \* its platform
    Claims,         \* what was said in them
    ItemOf,         \* where
    Cited,          \* the claims that cite a study or a named source
    MinItems,       \* SIGNAL_COVERED_WEEK_MIN_ITEMS
    MinSources,     \* SIGNAL_COVERED_WEEK_MIN_SOURCES
    Entries,        \* of one client's live profile
    GroupOf,        \* asset, audience, or priority (competitors too)
    WeightOf,       \* 0 .. 100
    Named,          \* the entries that the words of each claim match
    Log2,           \* 1000 * log2(n), rounded
    LastDay         \* bound: days

\* As many numbers as the weekly counts can reach.
Counts == 1 .. 4 * (Cardinality(Items) + 1)

ASSUME ScoresAssumption ==
    /\ IsFiniteSet(Items) /\ IsFiniteSet(Claims) /\ IsFiniteSet(Entries)
    /\ DayOf \in [Items -> Nat] /\ DOMAIN SourceOf = Items
    /\ DOMAIN CreatorOf = Items /\ DOMAIN RouteOf = Items
    /\ ItemOf \in [Claims -> Items] /\ Cited \subseteq Claims
    /\ \A c \in Claims : Named[c] \subseteq Entries
    /\ \A e \in Entries : WeightOf[e] \in 0 .. 100
    /\ \A n \in Counts : Log2[n] \in Nat
    /\ \A m, n \in Counts : m <= n => Log2[m] <= Log2[n]
    /\ LastDay \in Nat

VARIABLES
    today,      \* the day the signal is scored
    analysed,   \* relevant, transcribed items that are no duplicates
    supports,   \* the signal's evidence
    against

scoreVars == <<today, analysed, supports, against>>

-----------------------------------------------------------------------------
\* round(n / d)
Rounded(n, d) ==
    LET q == n \div d
        r == 2 * (n % d)
    IN  IF r > d \/ (r = d /\ q % 2 = 1) THEN q + 1 ELSE q

Clamp(x) == IF x < 0 THEN 0 ELSE IF x > 100 THEN 100 ELSE x

Least(x, y) == IF x < y THEN x ELSE y
Highest(S) == CHOOSE x \in S \cup {0} : \A y \in S \cup {0} : y <= x

ItemsOf(cs) == {ItemOf[c] : c \in cs}
Creators(cs) == {CreatorOf[i] : i \in ItemsOf(cs)}
Routes(cs) == {RouteOf[i] : i \in ItemsOf(cs)}

WeekBack(i) == (today - DayOf[i]) \div 7
SinceWeeks == 6

\* _weekly_items: an item counts once in its week, however much it said.
Weekly(cs) == [w \in 0 .. SinceWeeks - 1 |-> Cardinality({i \in ItemsOf(cs) : WeekBack(i) = w})]

\* weekly_coverage: of the whole collection.
InWeek(w) == {i \in analysed : WeekBack(i) = w}
Covered(w) == /\ Cardinality(InWeek(w)) >= MinItems
              /\ Cardinality({SourceOf[i] : i \in InWeek(w)}) >= MinSources
Streak == Cardinality({w \in 0 .. SinceWeeks - 1 : \A v \in 0 .. w : Covered(v)})

-----------------------------------------------------------------------------
(* The components: a value, or Missing.                                    *)

Missing == -1

\* Four weeks before this one are the baseline.
Baseline(weekly) == weekly[1] + weekly[2] + weekly[3] + weekly[4]
\* 25 * log2(this week against the baseline's average)
Rate(weekly) == Clamp(50 + Rounded(Log2[4 * (weekly[0] + 1)] - Log2[Baseline(weekly) + 4], 40))

\* Mutant of Momentum: five weeks of calendar are enough.
MomentumByCalendar(weekly) == Rate(weekly)
Momentum(weekly) == IF Streak < 5 THEN Missing ELSE Rate(weekly)

Acceleration(weekly) ==
    IF Streak < 3 THEN Missing
    ELSE Clamp(50 + Rounded(25 * (weekly[0] - 2 * weekly[1] + weekly[2]), 2))
Diversity(cs) ==
    Rounded(35 * Least(Cardinality(Creators(cs)), 4) + 20 * Least(Cardinality(Routes(cs)), 3), 2)
Quality(cs) == IF cs = {} THEN Missing ELSE Rounded(100 * Cardinality(cs \cap Cited), Cardinality(cs))
Novelty == Clamp(100 - 20 * (today \div 7))
Recency(cs) ==
    LET age == today - Highest({DayOf[i] : i \in ItemsOf(cs)}) IN
    IF cs = {} THEN Missing
    ELSE IF age <= 2 THEN 100 ELSE Clamp(Rounded(100 * (28 - age), 26))

Weights == [momentum |-> 25, acceleration |-> 20, diversity |-> 15, quality |-> 15,
            engagement |-> 10, novelty |-> 10, recency |-> 5]
Components(cs) ==
    [momentum |-> Momentum(Weekly(cs)), acceleration |-> Acceleration(Weekly(cs)),
     diversity |-> Diversity(cs), quality |-> Quality(cs), engagement |-> Missing,
     novelty |-> Novelty, recency |-> Recency(cs)]

Measured(parts) == {p \in DOMAIN parts : parts[p] # Missing}

Weighted(parts) ==
    SumFunctionOnSet([p \in Measured(parts) |-> parts[p] * Weights[p]], Measured(parts))

\* Mutant of DomainScore: what is not measured counts as nothing.
MissingAsZero(parts) ==
    Rounded(Weighted(parts), 100)

\* The weighted mean of the components that have a value.
DomainScore(parts) ==
    Rounded(Weighted(parts), SumFunctionOnSet(Weights, Measured(parts)))

Maturity(cs) ==
    LET weekly == Weekly(cs)
        momentum == Momentum(weekly)
    IN  IF momentum # Missing /\ momentum >= 60 THEN "measured_trend"
        ELSE IF Cardinality({w \in DOMAIN weekly : weekly[w] > 0}) >= 2 THEN "recurring"
        ELSE "watch"

\* Mutant of Confidence: repeating it is as good as finding it elsewhere.
ConfidenceInClaims(cs, counter) ==
    Clamp(Least(30, 8 * Cardinality(cs)) + Least(25, 9 * Cardinality(Creators(cs)))
          + (IF counter = {} THEN 10 ELSE 0))

\* How sure we are that it is real.
Confidence(cs, counter) ==
    LET items == Cardinality(ItemsOf(cs))
        contra == Cardinality(ItemsOf(counter))
    IN  Clamp(Least(30, 8 * items) + Least(25, 9 * Cardinality(Creators(cs)))
              + (IF Cardinality(Routes(cs)) > 1 THEN 15 ELSE 0)
              + Least(20, 7 * Cardinality(cs \cap Cited))
              + (IF contra = 0 THEN 10 ELSE -Rounded(40 * contra, items + contra)))

-----------------------------------------------------------------------------
(* One client's part.                                                      *)

Groups == {"asset", "audience", "priority"}
RankWeights == [domain |-> 60, asset |-> 20, audience |-> 10, priority |-> 10]

\* The entries of a group that a claim matches, of the profile as compiled.
Hits(c, group) == {e \in Named[c] : GroupOf[e] = group}

\* _component of a claim: its strongest match, and a little for breadth.
Component(c, group) ==
    IF Hits(c, group) = {} THEN 0
    ELSE Least(100, Highest({WeightOf[e] : e \in Hits(c, group)})
                    + 5 * (Cardinality(Hits(c, group)) - 1))

\* The row kept of a claim: its components.
ClaimRelevance(c) == [g \in Groups |-> Component(c, g)]

\* Mutant of Best: what matched last.
OneOf(cs, group) == IF cs = {} THEN 0 ELSE Component(CHOOSE c \in cs : TRUE, group)

\* components_for: the best of the supporting claims.
Best(cs, group) == Highest({Component(c, group) : c \in cs})

ClientPart(part) == SumFunctionOnSet([g \in Groups |-> part[g] * RankWeights[g]], Groups)
FitOf(part) == Rounded(ClientPart(part), 40)
ClaimFit(c) == FitOf(ClaimRelevance(c))
Fit(cs) == FitOf([g \in Groups |-> Best(cs, g)])
Rank(cs) ==
    Rounded(60 * DomainScore(Components(cs)) + ClientPart([g \in Groups |-> Best(cs, g)]), 100)

\* relevant_claims: the claims that are this client's.
Relevant == {c \in Claims : ClaimFit(c) >= 1}

-----------------------------------------------------------------------------
ScoresInit ==
    /\ today = 0 /\ analysed = {} /\ supports = {} /\ against = {}

Analyse(i) ==
    /\ i \notin analysed /\ DayOf[i] <= today
    /\ analysed' = analysed \cup {i}
    /\ UNCHANGED <<today, supports, against>>

\* A claim is evidence of the signal once, in one role.
Support(c) ==
    /\ ItemOf[c] \in analysed /\ c \notin supports \cup against
    /\ supports' = supports \cup {c}
    /\ UNCHANGED <<today, analysed, against>>

Contradict(c) ==
    /\ ItemOf[c] \in analysed /\ c \notin supports \cup against
    /\ against' = against \cup {c}
    /\ UNCHANGED <<today, analysed, supports>>

Wait(days) ==
    /\ today + days <= LastDay
    /\ today' = today + days
    /\ UNCHANGED <<analysed, supports, against>>

ScoresNext ==
    \/ \E i \in Items : Analyse(i)
    \/ \E c \in Claims : Support(c) \/ Contradict(c)
    \/ Wait(7)

ScoresSpec == ScoresInit /\ [][ScoresNext]_scoreVars

=============================================================================
