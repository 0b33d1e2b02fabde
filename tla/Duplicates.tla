------------------------------ MODULE Duplicates ------------------------------
(***************************************************************************)
(* One conversation published more than once.  A transcript is the set of  *)
(* its shingles; when most of the shorter of two is contained in the       *)
(* longer, the shorter item is marked a duplicate of the longer, and its   *)
(* claims count under the item at the root of its chain.                   *)
(*                                                                         *)
(* check() runs without a transaction: it decides on the row its caller    *)
(* loaded, reads the others while it compares, marks one of the two, and   *)
(* re-points what hung from it, each a step that others may fall between.  *)
(* Every item of an instance lies in the window in which items are         *)
(* compared.                                                               *)
(***************************************************************************)
EXTENDS Integers, FiniteSets

CONSTANTS
    Items,
    Workers,       \* the tasks and the command that run check()
    Texts,         \* the transcripts that may arrive: sets of shingles
    MinShingles,   \* a shorter transcript tells nothing apart
    LookAlikes,    \* pairs {i, j} whose titles and durations agree
    None

ASSUME DuplicatesAssumption ==
    /\ IsFiniteSet(Items)
    /\ MinShingles \in Nat \ {0}
    /\ None \notin Items
    /\ \A t \in Texts : IsFiniteSet(t) /\ t # {}

VARIABLES
    held,          \* items with a row
    text,        \* text[i]: the shingles of i's transcript, {} without one
    status,      \* status[i]: duplicate_status
    original,    \* original[i]: duplicate_of
    job          \* job[w]: the check w is in

vars == <<held, text, status, original, job>>

Statuses == {"", "suspected", "confirmed"}
NoMatch == [other |-> None, keep |-> None, status |-> ""]
Match == [other : Items, keep : Items, status : Statuses \ {""}]
Idle == [step |-> "idle"]
Job == [step : {"loaded", "found", "marked"}, item : Items,
        text : Texts \union {{}}, match : Match \union {NoMatch}]

IsDuplicate(i) == status[i] = "confirmed" /\ original[i] # None

\* ContentItem.canonical: along the chain to its root, or to the first item
\* met again.
Canonical(i) ==
    LET Walk[n \in 0 .. Cardinality(Items)] ==
          IF n = 0 THEN [at |-> i, seen |-> {}]
          ELSE LET last == Walk[n - 1]
               IN  IF IsDuplicate(last.at) /\ last.at \notin last.seen
                   THEN [at |-> original[last.at], seen |-> last.seen \union {last.at}]
                   ELSE last
    IN  Walk[Cardinality(Items)].at

----------------------------------------------------------------------------
(* The comparison *)

Length(t) == Cardinality(t)
Shorter(s, t) == IF Length(s) <= Length(t) THEN s ELSE t
Shared(s, t) == Cardinality(s \intersect t)

\* containment(s, t) >= containment(s, u), without the division
AtLeast(s, t, u) ==
    Shared(s, t) * Length(Shorter(s, u)) >= Shared(s, u) * Length(Shorter(s, t))

Comparable(t) == Length(t) >= MinShingles

\* containment(s, t) >= CONTAINMENT
SameConversation(s, t) ==
    /\ Comparable(s) /\ Comparable(t)
    /\ 10 * Shared(s, t) >= 6 * Length(Shorter(s, t))

\* A wrong threshold: any words in common would do.
SharesWords(i, t) ==
    {j \in Items \ {i} : Comparable(t) /\ Comparable(text[j]) /\ Shared(t, text[j]) > 0}

\* find(): i with the text t its caller holds against what is stored.
ConfirmedMatches(i, t) ==
    {j \in Items \ {i} : SameConversation(t, text[j])}

Strongest(i, t) ==
    {j \in ConfirmedMatches(i, t) :
        \A k \in ConfirmedMatches(i, t) : AtLeast(t, text[j], text[k])}

\* A wrong direction: the clip is kept and the episode is marked.
KeepShorter(i, t, j) == IF Length(text[j]) <= Length(t) THEN j ELSE i

Keep(i, t, j) == IF Length(text[j]) >= Length(t) THEN j ELSE i

Found(i, t) ==
    {[other |-> j, keep |-> Keep(i, t, j), status |-> "confirmed"] : j \in Strongest(i, t)}
    \union
    {[other |-> j, keep |-> j, status |-> "suspected"] :
        j \in {k \in held \ {i} : t = {} /\ {i, k} \in LookAlikes}}

----------------------------------------------------------------------------
(* check() and the rows it works on *)

\* An item is collected, a post or a captioned video with its text.
Ingest(i, t) ==
    /\ i \notin held
    /\ held' = held \union {i}
    /\ text' = [text EXCEPT ![i] = t]
    /\ UNCHANGED <<status, original, job>>

\* acquire_transcript loads its item; the command loads every item.
\* An item already known as a duplicate is not checked.
Load(w, i) ==
    /\ job[w] = Idle
    /\ i \in held
    /\ ~IsDuplicate(i)
    /\ job' = [job EXCEPT ![w] = [step |-> "loaded", item |-> i, text |-> text[i],
                                  match |-> NoMatch]]
    /\ UNCHANGED <<held, text, status, original>>

\* A wrong insert: the second walker's transcript replaces the first.
AcquireAgain(w, t) ==
    /\ job[w].step = "loaded"
    /\ job[w].text = {}
    /\ text' = [text EXCEPT ![job[w].item] = t]
    /\ job' = [job EXCEPT ![w].text = t]
    /\ UNCHANGED <<held, status, original>>

\* The ladder stores a transcript.  It is one-to-one with its item: of two
\* walkers the second one's insert raises and its task ends.
Acquire(w, t) ==
    /\ job[w].step = "loaded"
    /\ job[w].text = {}
    /\ LET i == job[w].item IN
       IF text[i] = {}
       THEN /\ text' = [text EXCEPT ![i] = t]
            /\ job' = [job EXCEPT ![w].text = t]
       ELSE /\ job' = [job EXCEPT ![w] = Idle]
            /\ UNCHANGED text
    /\ UNCHANGED <<held, status, original>>

Find(w) ==
    /\ job[w].step = "loaded"
    /\ LET found == Found(job[w].item, job[w].text) IN
       IF found = {}
       THEN job' = [job EXCEPT ![w] = Idle]
       ELSE \E match \in found :
              job' = [job EXCEPT ![w].step = "found", ![w].match = match]
    /\ UNCHANGED <<held, text, status, original>>

\* The item the match demotes, and the one it points at: the other item's
\* chain is read afresh, the item's own is as it was loaded, without one.
Demoted(w) ==
    IF job[w].match.keep = job[w].match.other THEN job[w].item ELSE job[w].match.other

Root(w) ==
    IF job[w].match.status = "confirmed" /\ job[w].match.keep = job[w].match.other
    THEN Canonical(job[w].match.other)
    ELSE job[w].match.keep

Mark(w) ==
    /\ job[w].step = "found"
    /\ status' = [status EXCEPT ![Demoted(w)] = job[w].match.status]
    /\ original' = [original EXCEPT ![Demoted(w)] = Root(w)]
    /\ job' = [job EXCEPT ![w] = IF job[w].match.status = "confirmed"
                                 THEN [@ EXCEPT !.step = "marked"] ELSE Idle]
    /\ UNCHANGED <<held, text>>

\* A wrong re-pointing: the two items are swapped.
RepointBackwards(w) ==
    /\ job[w].step = "marked"
    /\ original' = [i \in Items |->
          IF status[i] = "confirmed" /\ original[i] = job[w].match.keep
          THEN Demoted(w) ELSE original[i]]
    /\ job' = [job EXCEPT ![w] = Idle]
    /\ UNCHANGED <<held, text, status>>

\* What pointed at the demoted item follows it.
Repoint(w) ==
    /\ job[w].step = "marked"
    /\ original' = [i \in Items |->
          IF status[i] = "confirmed" /\ original[i] = Demoted(w)
          THEN job[w].match.keep ELSE original[i]]
    /\ job' = [job EXCEPT ![w] = Idle]
    /\ UNCHANGED <<held, text, status>>

Init ==
    /\ held = {}
    /\ text = [i \in Items |-> {}]
    /\ status = [i \in Items |-> ""]
    /\ original = [i \in Items |-> None]
    /\ job = [w \in Workers |-> Idle]

Next ==
    \/ \E i \in Items, t \in Texts \union {{}} : Ingest(i, t)
    \/ \E w \in Workers, i \in Items : Load(w, i)
    \/ \E w \in Workers, t \in Texts : Acquire(w, t)
    \/ \E w \in Workers : Find(w)
    \/ \E w \in Workers : Mark(w)
    \/ \E w \in Workers : Repoint(w)

Spec == Init /\ [][Next]_vars

=============================================================================
