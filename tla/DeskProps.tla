------------------------------- MODULE DeskProps -------------------------------
(***************************************************************************)
(* The analysts' desk: signals, what a client should do about them, the    *)
(* client's profile and the candidates assessed against it; the portal's   *)
(* memberships and the backups; and what must hold of them.                *)
(***************************************************************************)
EXTENDS Recommendations, Candidates, Portal, Backups

\* "so nothing is lost" (review.py, merge): every claim a merged signal had is
\* evidence of the signal it went into, ever after, whatever detections,
\* further merges and decisions were under way on rows loaded before.
MergedIsKept ==
    \A s \in Codes : merged[s].into # 0 => merged[s].claims \subseteq Held(merged[s].into)

\* "Distinct CONVERSATIONS, not items" (detection.py, _apply): the claims of a
\* signal that says it was detected are of two conversations, as the items
\* counted when its detection read them, also after what later detections
\* attached to it and what was merged into it on stale rows: only a mark made
\* since leaves it fewer, and it is not taken back for that.  The count a
\* client reads is never more than the items its claims are of.
DetectedIsCrossSource ==
    \A s \in Codes : Exists(s) /\ signal[s].origin = "detected" =>
        LET support == ClaimsOf(s, "supports") IN
          /\ Cardinality(CountedBy(signal[s].marks, support)) >= 2
          /\ signal[s].items <= Cardinality(ItemsOf(support))

\* "what do we recommend?" has one answer: although the check is made before a
\* model call of seconds, by the daily run and by requests at once.
OneOpenRecommendation == \A s \in Codes : Cardinality(OpenOn(s)) <= 1

\* "Grounded or not stored": a recommendation cites something, and the claims
\* it cites are evidence of its own signal, whatever was detected or merged
\* since they were read.
CitesItsEvidence ==
    \A r \in Stored :
        /\ advice[r].claims \cup advice[r].observations # {}
        /\ advice[r].claims \subseteq Held(advice[r].signal)

-----------------------------------------------------------------------------
\* "Exactly one is current": two activations that read the same version to
\* supersede leave one live version, and one stays live from the first on.
OneLiveProfile ==
    Cardinality(Current) = (IF \E n \in Numbers : wentLive[n].exists THEN 1 ELSE 0)

\* "the approval no longer covers it" (opportunities.py, _unapprove): a
\* candidate is approved exactly while nothing that takes an approval back was
\* saved after the last approve(), by any request: no save of a row loaded
\* before revives what an edit or a draft took back, or takes back one given
\* since.
ApprovalStands == {c \in Candidates : candidate[c].approved} = standing

-----------------------------------------------------------------------------
\* "Its status is earned from the observations" (review.py,
\* start_from_observations): the events an analyst's signal was started from
\* stay counted in it.
EarnedIsKept ==
    \A s \in Codes : Exists(s) /\ signal[s].origin = "analyst" =>
        signal[s].items >= Cardinality(Events({x \in Observations : attached[s][x] = "supports"}))

=============================================================================
