----------------------------- MODULE ScoresProps -----------------------------
(***************************************************************************)
(* What must hold of the numbers and of the documents that carry them.     *)
(***************************************************************************)
EXTENDS Briefs

\* Only what was watched and rises is a trend: this week and the four of its
\* baseline were each covered by the collection, and this week has more than
\* the baseline's average (components.py, _momentum and _maturity).
TrendIsRising ==
    Maturity(supports) = "measured_trend" =>
        /\ \A w \in 0 .. 4 : Covered(w)
        /\ 4 * Weekly(supports)[0] > Baseline(Weekly(supports))

\* A part that is not measured does not move the score: it stays between the
\* weakest and the strongest of those that are, each of them one of 0 .. 100
\* (components.py, score).
WithinItsParts ==
    LET parts == Components(supports)
        values == {parts[p] : p \in Measured(parts)}
    IN  /\ values \subseteq 0 .. 100
        /\ \E v \in values : v <= DomainScore(parts)
        /\ \E v \in values : DomainScore(parts) <= v

\* Evidence moves the numbers the right way: what agrees lowers neither the
\* confidence nor the fit of a client, what disagrees never raises the
\* confidence, and a source that repeats itself adds nothing (_confidence,
\* _diversity, components_for).  A claim that the client's own brief may quote
\* makes the development it supports the client's (score_claim, fit_score).
EvidenceStep ==
    LET new == supports' \ supports
        counter == against' \ against
    IN  /\ new # {} => /\ Confidence(supports', against) >= Confidence(supports, against)
                       /\ Fit(supports') >= Fit(supports)
        /\ counter # {} => Confidence(supports, against') <= Confidence(supports, against)
        /\ \A c \in new : c \in Section(KindOf[c]) => Fit(supports') >= 1
        /\ (ItemsOf(new) \subseteq ItemsOf(supports) /\ new \cap Cited = {} /\ today' = today) =>
               Confidence(supports', against) = Confidence(supports, against)
EvidenceCounts == [][EvidenceStep]_scoreVars

\* A number in the text is the place of its source in the list, no source has
\* two numbers, and every source listed is cited (briefing.py, _cite and
\* _sources; opportunity_brief.py, _cited): in whatever order developments,
\* quotes and observations come; what the first sections count and date is that
\* list, though they are placed before it is begun; and a candidate's brief
\* cites what a candidate in it holds.
Agrees(brief) ==
    /\ IsInjective(brief.sources)
    /\ \A n \in DOMAIN brief.lines : brief.sources[brief.lines[n].number] = brief.lines[n].key
    /\ \A k \in ToSet(brief.sources) : \E n \in DOMAIN brief.lines : brief.lines[n].key = k
CitesWhatItHolds ==
    \A k \in ToSet(OpportunityBrief.sources) : \E d \in found : k.key \in ShownAtAll(d)
FrontAgrees ==
    LET cited == {Brief.lines[n].key : n \in DOMAIN Brief.lines}
        items == {k.key : k \in {c \in cited : c.kind = "item"}}
    IN  /\ FrontMatter.sources = Cardinality(cited)
        /\ FrontMatter.sources = FrontMatter.items + FrontMatter.observations
        /\ FrontMatter.creators = {CreatorOf[i] : i \in items}
        /\ \A i \in items : /\ RouteOf[i] \notin FrontMatter.gaps
                            /\ Older(DayOf[i]) \/ DayOf[i] \in FrontMatter.inside
NumbersAgree == Agrees(Brief) /\ FrontAgrees /\ Agrees(OpportunityBrief) /\ CitesWhatItHolds

\* Every reference of a section of a content package is to the line of the
\* claim or observation it means, though claims are numbered first and the
\* sections are read one by one (content_brief.py, sections_for).
ReferencesResolve ==
    \A d \in Developments : \A n \in DOMAIN outline :
        LET section == Sections(d)[n]
            lines == EvidenceLines(d)
        IN  /\ \A c \in ToSet(section.claims) :
                   lines[ClaimRef(d, c)] = Key("claim", c)
            /\ \A o \in ToSet(section.observations) :
                   /\ ObservationRef(d, n, o) \in DOMAIN lines
                   /\ lines[ObservationRef(d, n, o)] = Key("obs", o)

=============================================================================
