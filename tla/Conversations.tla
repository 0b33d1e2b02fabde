----------------------------- MODULE Conversations -----------------------------
(***************************************************************************)
(* What marking duplicates amounts to, without the checks that do it: each *)
(* item's evidence is counted under one item, at first its own.  A text    *)
(* is heard once and stays; items come to be counted under another only if *)
(* it is no shorter and of the same conversation; one may be counted under *)
(* itself again.                                                           *)
(***************************************************************************)
EXTENDS Integers

CONSTANTS
    Items, Texts,
    Length(_),
    SameConversation(_, _)

VARIABLES
    text,          \* text[i]: what is said in i, {} while it is not known
    under          \* under[i]: the item that i is counted under

counted == <<text, under>>

\* Nothing is known to be said in i, so nothing is counted under it or it
\* under anything.
Alone(i) == \A k \in Items : under[k] = i <=> k = i

\* The steps from one text to another that say the same lead from i to j.
Joined(i, j) ==
    \A S \in SUBSET Items :
        /\ i \in S
        /\ \A k, l \in Items :
              k \in S /\ k # l /\ SameConversation(text[k], text[l]) => l \in S
        => j \in S

Init ==
    /\ text = [i \in Items |-> {}]
    /\ under = [i \in Items |-> i]

Hear(i, t) ==
    /\ text' = [text EXCEPT ![i] = t]
    /\ text[i] = {} /\ Alone(i)
    /\ UNCHANGED under

Count(S, j) ==
    /\ UNCHANGED text
    /\ under' = [i \in Items |-> IF i \in S THEN j ELSE under[i]]
    /\ \A i \in S : Length(text[i]) <= Length(text[j]) /\ Joined(i, j)

Release(i) ==
    /\ under' = [under EXCEPT ![i] = i]
    /\ UNCHANGED text

Next ==
    \/ \E S \in SUBSET Items, j \in Items : Count(S, j)
    \/ \E i \in Items, t \in Texts : Hear(i, t)
    \/ \E i \in Items : Release(i)

Spec == Init /\ [][Next]_counted

================================================================================
