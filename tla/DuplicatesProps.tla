--------------------------- MODULE DuplicatesProps ----------------------------
(***************************************************************************)
(* What marking duplicates promises.                                       *)
(***************************************************************************)
EXTENDS Duplicates

\* The types of the rows and of the checks under way; a status and the item it
\* refers to are set together.
TypeOK ==
    /\ held \subseteq Items
    /\ text \in [Items -> Texts \union {{}}]
    /\ status \in [Items -> Statuses]
    /\ original \in [Items -> Items \union {None}]
    /\ \A i \in Items : status[i] = "" <=> original[i] = None
    /\ job \in [Workers -> Job \union {Idle}]

(***************************************************************************)
(* "The longer transcript is the canonical item; the shorter is marked     *)
(* duplicate_of it": along every chain the transcripts never get shorter,  *)
(* whichever checks overlapped and however often items were re-pointed.    *)
(***************************************************************************)
LongerIsKept ==
    \A i \in Items : IsDuplicate(i) => Length(text[original[i]]) >= Length(text[i])

(***************************************************************************)
(* Two unrelated conversations are never merged: what no two items of the  *)
(* same conversation connect, no duplicate and what it counts under does.  *)
(***************************************************************************)
Pairs ==
    {e \in Items \X Items : e[1] # e[2] /\ SameConversation(text[e[1]], text[e[2]])}

Separate(S) == \A e \in Pairs : e[1] \in S => e[2] \in S

OnlyRelatedMerged ==
    \A S \in SUBSET Items :
        Separate(S) => \A i \in S : IsDuplicate(i) => original[i] \in S

(***************************************************************************)
(* A conversation does not vanish from the evidence: the item a duplicate  *)
(* counts under is not itself a duplicate, and so is extracted, unless two *)
(* transcripts of one length tie for the place.                            *)
(***************************************************************************)
Tied(i) == \E j \in Items \ {i} : Length(text[j]) = Length(text[i])

KeptUnlessTied ==
    \A i \in Items : IsDuplicate(i) => ~IsDuplicate(Canonical(i)) \/ Tied(Canonical(i))

(***************************************************************************)
(* Whichever checks overlap, each step of theirs is to the evidence one of *)
(* those of Conversations or nothing: a transcript once stored is never    *)
(* written again, and a step moves items under one that is as long and of  *)
(* the same conversation, or lets one go.                                  *)
(***************************************************************************)
Counted == INSTANCE Conversations WITH
    under <- [i \in Items |-> IF IsDuplicate(i) THEN original[i] ELSE i]

MeetsConversations == Counted!Spec

=============================================================================
