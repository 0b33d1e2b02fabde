------------------------ MODULE EvidencePipelineProps -------------------------
(***************************************************************************)
(* What the evidence pipeline promises.                                    *)
(***************************************************************************)
EXTENDS EvidencePipeline

\* The types, and that the queue's workers hold nothing but deliveries.
TypeOK ==
    /\ decision \in [Items -> Decisions \union {"absent"}]
    /\ content \in [Items -> Contents]
    /\ transcripts \subseteq Items
    /\ duplicates \subseteq Items
    /\ segments \subseteq Items
    /\ runs \in [Items -> SUBSET Outcomes]
    /\ claims \in [Items -> 0 .. 2]
    /\ queue \in [Message -> Nat]
    /\ job \in [Workers -> Job \union {Idle}]
    /\ passed \subseteq Items
    /\ gaveUp \subseteq Items
    /\ crashes \in 0 .. MaxCrashes
    /\ scan \subseteq LoadedRow
    /\ scans \in 0 .. MaxScans
    /\ released \subseteq Items

\* Someone still owes work to i: a delivery waits, or a worker has one.
InFlight(i) ==
    \/ \E m \in Message : m.item = i /\ queue[m] > 0
    \/ \E w \in Workers : job[w] # Idle /\ ItemOf(w) = i

\* i has come to one of the ends of the pipeline.
Settled(i) ==
    \/ content[i] = "written off"
    \/ i \in duplicates
    \/ runs[i] # {}
    \/ i \in gaveUp

\* find_duplicates took back the mark that had ended i.  Nothing sends such
\* an item on by itself; the operator is shown it, and may.
LeftToOperator(i) == i \in released /\ i \in Unanalysed

(***************************************************************************)
(* No item the gate let through falls out of the pipeline unnoticed: a     *)
(* delivery still carries it, or it was written off, or it is a duplicate, *)
(* or a model was asked and its run says what came of it, or its retries   *)
(* ran out; or find_duplicates, on a row loaded earlier, took back the mark*)
(* that had ended it, and then it is on the operator's list.  It rests on  *)
(* acknowledging late, on re-delivery, on every leg sending the next before*)
(* it returns, and on reading the item again after the comparison, with    *)
(* workers lost at any step and two of them at the same item.              *)
(***************************************************************************)
NothingIsLost ==
    \A i \in Items :
        NeedsTranscript(decision[i]) => InFlight(i) \/ Settled(i) \/ LeftToOperator(i)

(***************************************************************************)
(* Money follows the gate: a ladder is walked, or an extraction asked for, *)
(* only for an item the gate once let through ("Only spend on a transcript *)
(* for items that earned one"), whoever queued the task and however often. *)
(***************************************************************************)
SpendsOnlyOnPassed ==
    \A i \in Items :
        \/ runs[i] # {}
        \/ \E m \in Message : m.task # "assess" /\ m.item = i /\ queue[m] > 0
        \/ \E w \in Workers : job[w] # Idle /\ ItemOf(w) = i /\ job[w].msg.task # "assess"
        => i \in passed

(***************************************************************************)
(* A collected item does not wait for ever for its verdict, though its     *)
(* first message may be lost with the poll that should have sent it.       *)
(***************************************************************************)
EventuallyJudged ==
    \A i \in Items : decision[i] = "pending" ~> decision[i] # "pending"

(***************************************************************************)
(* An item let through comes to an end of the pipeline, unless a second    *)
(* screening takes the verdict back, or find_duplicates the mark that had  *)
(* ended it.                                                               *)
(***************************************************************************)
EventuallySettled ==
    \A i \in Items :
        NeedsTranscript(decision[i])
            ~> (Settled(i) \/ decision[i] = "rejected" \/ i \in released)

(***************************************************************************)
(* "once per item, ever. extraction.extract enforces that itself, so a     *)
(* duplicate dispatch is cheap rather than billable"                       *)
(* (enrichment/tasks.py:121).                                              *)
(***************************************************************************)
ExtractedOnce == \A i \in Items : claims[i] <= 1

(***************************************************************************)
(* "leave the item for the next scheduled pass" (enrichment/tasks.py:99):  *)
(* an item whose last retry broke is taken up again.                       *)
(***************************************************************************)
NextPassPicksUp ==
    \A i \in Items :
        i \in gaveUp ~> (queue[Msg("acquire", i)] > 0 \/ i \in transcripts)

=============================================================================
