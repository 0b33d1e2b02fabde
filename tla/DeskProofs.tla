----------------------------- MODULE DeskProofs -----------------------------
(***************************************************************************)
(* What was merged is kept, and what was detected has two conversations    *)
(* behind it; one open recommendation per signal, grounded in the evidence *)
(* of that signal; one live profile; and approvals of candidates that no   *)
(* stale save revives: for any claims, signals, requests, rows, versions   *)
(* and observations.                                                       *)
(***************************************************************************)
EXTENDS DeskProps, FiniteSetTheorems, TLAPS

(* Signals.                                                                *)

\* The types of SignalRow and Review, with any count of conversations.
AnyRow == [state : SignalStates \cup {"absent"}, awaiting : BOOLEAN,
           origin : {"detected", "analyst"}, maturity : Maturities, items : Nat,
           marks : [ContentItems -> ContentItems]]
SignalTypes ==
    /\ signal \in [Codes -> AnyRow]
    /\ evidence \in [Codes -> [Claims -> Roles \cup {NoRole}]]
    /\ review \in [Requests -> Review \cup {NoReview}]
    /\ merged \in [Codes -> [into : Codes \cup {0}, claims : SUBSET Claims]]
    /\ original \in [ContentItems -> ContentItems]

\* Codes are given out in order.
Existing == {s \in Codes : Exists(s)}
InOrderOfCode == \E n \in 0 .. MaxSignals : Existing = 1 .. n

\* What a request saw exists, however it has been decided since.
SawWhatExists(r) ==
    r # NoReview =>
        /\ \A t \in Codes : r.seen[t] # "absent" => Exists(t)
        /\ r.act \in {"move", "merge"} => Exists(r.at)
        /\ r.act = "merge" => Exists(r.into) /\ r.at # r.into

NothingBefore == \A s \in Codes : ~ Exists(s) => Held(s) = {}

IInv ==
    /\ SignalTypes
    /\ InOrderOfCode
    /\ \A o \in Requests : SawWhatExists(review[o])
    /\ NothingBefore
    /\ MergedIsKept
    /\ DetectedIsCrossSource

Support(s) == ClaimsOf(s, "supports")
Count(s) == Cardinality(Conversations(Support(s)))
Sources(s) == Cardinality(ItemsOf(Support(s)))
Voices(s) == Cardinality(CountedBy(signal[s].marks, Support(s)))

-----------------------------------------------------------------------------
(* What every step does to rows and to evidence.                           *)

\* A claim held in a role stays held in it.
Grows == \A s \in Codes, c \in Claims : evidence[s][c] # NoRole => evidence'[s][c] = evidence[s][c]

SameRows == \A s \in Codes : Exists(s)' <=> Exists(s)
OneMore == /\ NextCode \in Codes
           /\ \A s \in Codes : Exists(s)' <=> (Exists(s) \/ s = NextCode)

\* However the items count, no more conversations than items, and no more
\* items than claims.
LEMMA ConversationsAreFinite ==
  ASSUME NEW cs \in SUBSET Claims, NEW marks
  PROVE /\ IsFiniteSet(ItemsOf(cs)) /\ IsFiniteSet(CountedBy(marks, cs))
        /\ Cardinality(ItemsOf(cs)) \in Nat /\ Cardinality(CountedBy(marks, cs)) \in Nat
        /\ Cardinality(CountedBy(marks, cs)) <= Cardinality(ItemsOf(cs))
<1> DEFINE is == ItemsOf(cs)
           f == [c \in cs |-> ItemOf[c]]
           g == [i \in is |-> Canonical(marks, i)]
<1>1. IsFiniteSet(cs)
  BY FS_Subset, SignalsAssumption
<1>2. f \in Surjection(cs, is)
  BY DEF Surjection, ItemsOf
<1>3. IsFiniteSet(is)
  BY <1>1, <1>2, FS_Surjection
<1>4. g \in Surjection(is, CountedBy(marks, cs))
  BY DEF Surjection, CountedBy
<1>5. IsFiniteSet(CountedBy(marks, cs)) /\ Cardinality(CountedBy(marks, cs)) <= Cardinality(is)
  BY <1>3, <1>4, FS_Surjection
<1> QED
  BY <1>3, <1>5, FS_CardinalityType

LEMMA NextCodeIs ==
  ASSUME NEW n \in 0 .. MaxSignals, Existing = 1 .. n PROVE NextCode = n + 1
<1>1. Cardinality(1 .. n) = n
  BY FS_Interval, SignalsAssumption
<1>2. NextCode = 1 + Cardinality(Existing)
  BY DEF NextCode, Existing
<1> QED
  BY <1>1, <1>2

LEMMA CountIsFinite ==
  ASSUME SignalTypes, NEW s \in Codes
  PROVE Count(s) \in Nat
<1>1. Support(s) \subseteq Claims
  BY DEF Support, ClaimsOf
<1> QED
  BY <1>1, ConversationsAreFinite DEF Count, Conversations

\* What is counted of a signal after a step, and that it is not too much.
LEMMA CountedAfter ==
  ASSUME NEW s \in Codes
  PROVE /\ Support(s)' \subseteq Claims
        /\ Count(s)' = Cardinality(CountedBy(original', Support(s)'))
        /\ Sources(s)' = Cardinality(ItemsOf(Support(s)'))
        /\ Voices(s)' = Cardinality(CountedBy(signal'[s].marks, Support(s)'))
        /\ Count(s)' \in Nat /\ Sources(s)' \in Nat /\ Voices(s)' \in Nat
        /\ Count(s)' <= Sources(s)'
<1>1. Support(s)' \subseteq Claims
  BY DEF Support, ClaimsOf
<1>2. /\ Count(s)' = Cardinality(CountedBy(original', Support(s)'))
      /\ Sources(s)' = Cardinality(ItemsOf(Support(s)'))
      /\ Voices(s)' = Cardinality(CountedBy(signal'[s].marks, Support(s)'))
  BY DEF Count, Sources, Voices, Conversations, CountedBy, ItemsOf
<1> QED
  BY <1>1, <1>2, ConversationsAreFinite

LEMMA MoreEvidence ==
  ASSUME SignalTypes, SignalTypes', Grows, NEW s \in Codes
  PROVE /\ Held(s) \subseteq Held(s)' /\ Support(s) \subseteq Support(s)'
        /\ Sources(s) <= Sources(s)'
        /\ signal'[s].marks = signal[s].marks => Voices(s) <= Voices(s)'
<1>1. Held(s) \subseteq Held(s)'
  BY DEF Held, Grows
<1>2. Support(s) \subseteq Support(s)'
  BY DEF Support, ClaimsOf, Grows, NoRole
<1>3. Support(s)' \subseteq Claims
  BY CountedAfter
<1>4. Cardinality(ItemsOf(Support(s))) <= Cardinality(ItemsOf(Support(s)'))
  <2>1. ItemsOf(Support(s)) \subseteq ItemsOf(Support(s)')
    BY <1>2 DEF ItemsOf
  <2> QED
    BY <1>3, <2>1, ConversationsAreFinite, FS_Subset
<1>5. ASSUME NEW marks
      PROVE Cardinality(CountedBy(marks, Support(s))) <= Cardinality(CountedBy(marks, Support(s)'))
  <2>1. CountedBy(marks, Support(s)) \subseteq CountedBy(marks, Support(s)')
    BY <1>2 DEF CountedBy, ItemsOf
  <2> QED
    BY <1>3, <2>1, ConversationsAreFinite, FS_Subset
<1>6. Sources(s) <= Sources(s)'
  BY <1>4, CountedAfter DEF Sources
<1>7. signal'[s].marks = signal[s].marks => Voices(s) <= Voices(s)'
  BY <1>5, CountedAfter DEF Voices
<1> QED
  BY <1>1, <1>2, <1>6, <1>7

LEMMA NextIsFree ==
  ASSUME IInv, NextCode \in Codes
  PROVE ~ Exists(NextCode) /\ Held(NextCode) = {}
<1>1. PICK n \in 0 .. MaxSignals : Existing = 1 .. n
  BY DEF IInv, InOrderOfCode
<1>3. NextCode = n + 1
  BY <1>1, NextCodeIs
<1>4. ~ Exists(NextCode)
  BY <1>1, <1>3, SignalsAssumption DEF Existing
<1> QED
  BY <1>4 DEF IInv, NothingBefore

LEMMA RowsStay ==
  ASSUME IInv, SameRows \/ OneMore
  PROVE InOrderOfCode' /\ \A s \in Codes : Exists(s) => Exists(s)'
<1>1. PICK n \in 0 .. MaxSignals : Existing = 1 .. n
  BY DEF IInv, InOrderOfCode
<1>2. CASE SameRows
  BY <1>1, <1>2 DEF SameRows, Existing, InOrderOfCode
<1>3. CASE OneMore
  <2>2. NextCode = n + 1 /\ n + 1 \in Codes
    BY <1>1, <1>3, NextCodeIs DEF OneMore
  <2>3. Existing' = 1 .. n + 1
    <3>1. \A s \in Codes : s \in Existing' <=> s \in 1 .. n \/ s = n + 1
      BY <1>1, <1>3, <2>2 DEF OneMore, Existing
    <3>2. Existing' \subseteq Codes
      BY DEF Existing
    <3> QED
      <4>1. \A s : s \in Existing' <=> s \in Codes /\ (s \in 1 .. n \/ s = n + 1)
        BY <3>1, <3>2
      <4>2. \A s : s \in Codes /\ (s \in 1 .. n \/ s = n + 1) <=> s \in 1 .. n + 1
        BY <2>2, SignalsAssumption DEF Codes
      <4> QED
        BY <4>1, <4>2
  <2> QED
    BY <1>1, <1>3, <2>2, <2>3, SignalsAssumption DEF InOrderOfCode, OneMore, Codes
<1> QED
  BY <1>2, <1>3

LEMMA SeenStays ==
  ASSUME IInv, SameRows \/ OneMore, NEW r \in Review \cup {NoReview}, SawWhatExists(r)
  PROVE SawWhatExists(r)'
<1>1. \A s \in Codes : Exists(s) => Exists(s)'
  BY RowsStay
<1>2. r # NoReview => r.at \in Codes /\ r.into \in Codes
  BY DEF Review
<1> QED
  BY <1>1, <1>2 DEF SawWhatExists

LEMMA LoadedSaw ==
  ASSUME SignalTypes, NEW act \in {"move", "merge", "model", "applied", "ended", "rescoring"},
         NEW s \in Codes, NEW into \in Codes, NEW rows,
         act \in {"move", "merge"} => Exists(s), act = "merge" => Exists(into) /\ s # into
  PROVE Loaded(act, s, into, rows) \in Review /\ SawWhatExists(Loaded(act, s, into, rows))
<1> DEFINE r == Loaded(act, s, into, rows)
<1>1. r.seen \in [Codes -> SignalStates \cup {"absent"}]
  BY DEF Loaded, SignalTypes, AnyRow
<1>2. r \in Review
  BY <1>1 DEF Loaded, Review, Unmarked
<1>3. \A t \in Codes : r.seen[t] # "absent" => Exists(t)
  BY DEF Loaded, Exists
<1> QED
  BY <1>2, <1>3 DEF SawWhatExists, Loaded

-----------------------------------------------------------------------------
(* The invariant after a step, from what the step does.                    *)

\* A detected signal's count is what it was, or is counted anew; a new signal
\* starts from nought, with two conversations.
Recounted(s) ==
    \/ /\ Exists(s) /\ signal[s].origin = signal'[s].origin
       /\ signal[s].marks = signal'[s].marks
       /\ signal'[s].items \in {signal[s].items, Count(s)'}
    \/ Voices(s)' >= 2 /\ signal'[s].items = 0

LEMMA DetectedStays ==
  ASSUME IInv, SignalTypes', Grows,
         \A s \in Codes : Exists(s)' /\ signal'[s].origin = "detected" => Recounted(s)
  PROVE DetectedIsCrossSource'
<1>0. ASSUME NEW s \in Codes, Exists(s)', signal'[s].origin = "detected"
      PROVE Voices(s)' >= 2 /\ signal'[s].items <= Sources(s)'
  <2>1. Count(s)' \in Nat /\ Sources(s)' \in Nat /\ Voices(s)' \in Nat /\ Count(s)' <= Sources(s)'
    BY CountedAfter
  <2>2. Sources(s) <= Sources(s)' /\ (signal'[s].marks = signal[s].marks => Voices(s) <= Voices(s)')
    BY MoreEvidence DEF IInv
  <2>3. signal'[s].items \in Nat
    BY DEF SignalTypes, AnyRow
  <2>4. CASE /\ Exists(s) /\ signal[s].origin = "detected" /\ signal'[s].marks = signal[s].marks
             /\ signal'[s].items \in {signal[s].items, Count(s)'}
    <3>1. Voices(s) >= 2 /\ signal[s].items <= Sources(s)
      BY <2>4 DEF IInv, DetectedIsCrossSource, Voices, Sources, Support
    <3>2. signal[s].items \in Nat
      BY DEF IInv, SignalTypes, AnyRow
    <3>3. Support(s) \subseteq Claims
      BY DEF Support, ClaimsOf
    <3>4. Sources(s) \in Nat /\ Voices(s) \in Nat
      BY <3>3, ConversationsAreFinite DEF Sources, Voices
    <3> QED
      BY <2>1, <2>2, <2>3, <2>4, <3>1, <3>2, <3>4
  <2>5. CASE Voices(s)' >= 2 /\ signal'[s].items = 0
    BY <2>1, <2>5
  <2> QED
    BY <1>0, <2>4, <2>5 DEF Recounted
<1> SUFFICES ASSUME NEW s \in Codes, Exists(s)', signal'[s].origin = "detected"
             PROVE /\ Cardinality(CountedBy(signal'[s].marks, Support(s)')) >= 2
                   /\ signal'[s].items <= Cardinality(ItemsOf(Support(s)'))
  BY DEF DetectedIsCrossSource, Support, CountedBy, ItemsOf
<1> QED
  BY <1>0, CountedAfter

LEMMA MergedStays ==
  ASSUME IInv, SignalTypes', Grows, UNCHANGED merged
  PROVE MergedIsKept'
<1> SUFFICES ASSUME NEW s \in Codes, merged[s].into # 0
             PROVE merged[s].claims \subseteq Held(merged[s].into)'
  BY DEF MergedIsKept
<1>1. merged[s].into \in Codes
  BY DEF IInv, SignalTypes
<1>2. Held(merged[s].into) \subseteq Held(merged[s].into)'
  BY <1>1, MoreEvidence DEF IInv
<1> QED
  BY <1>2 DEF IInv, MergedIsKept

\* A step that moves no evidence, and of the signals at most one's state.
LEMMA QuietStep ==
  ASSUME IInv, SignalTypes', SameRows, UNCHANGED <<evidence, merged, original>>,
         \A s \in Codes : /\ signal'[s].origin = signal[s].origin
                          /\ signal'[s].marks = signal[s].marks
                          /\ signal'[s].items \in {signal[s].items, Count(s)},
         \A o \in Requests : review'[o] = review[o] \/ SawWhatExists(review'[o])
  PROVE IInv'
<1>1. Grows
  BY DEF Grows
<1>2. InOrderOfCode' /\ NothingBefore'
  BY RowsStay DEF IInv, NothingBefore, SameRows, Held
<1>3. \A o \in Requests : SawWhatExists(review[o])'
  <2> SUFFICES ASSUME NEW o \in Requests PROVE SawWhatExists(review[o])'
    OBVIOUS
  <2>1. review'[o] \in Review \cup {NoReview}
    BY DEF SignalTypes
  <2>2. \A s \in Codes : Exists(s) => Exists(s)'
    BY DEF SameRows
  <2>3. review'[o] # NoReview => review'[o].at \in Codes /\ review'[o].into \in Codes
    BY <2>1 DEF Review
  <2>4. CASE review'[o] = review[o]
    BY <2>2, <2>3, <2>4 DEF IInv, SawWhatExists
  <2>5. CASE SawWhatExists(review'[o])
    BY <2>2, <2>3, <2>5 DEF SawWhatExists
  <2> QED
    BY <2>4, <2>5
<1>4. MergedIsKept'
  BY <1>1, MergedStays
<1>5. \A s \in Codes : Exists(s)' /\ signal'[s].origin = "detected" => Recounted(s)
  <2> SUFFICES ASSUME NEW s \in Codes, Exists(s)' PROVE Recounted(s)
    OBVIOUS
  <2>1. Count(s)' = Count(s)
    BY DEF Count, Support, ClaimsOf, Conversations, CountedBy
  <2> QED
    BY <2>1 DEF Recounted, SameRows
<1>6. DetectedIsCrossSource'
  BY <1>1, <1>5, DetectedStays
<1> QED
  BY <1>2, <1>3, <1>4, <1>6 DEF IInv

\* A request that loads, or that ends: nothing is written.
LEMMA ReadStep ==
  ASSUME IInv, UNCHANGED <<signal, evidence, merged, original>>,
         NEW o \in Requests, NEW r \in Review \cup {NoReview}, SawWhatExists(r),
         review' = [review EXCEPT ![o] = r]
  PROVE IInv'
<1>1. SignalTypes'
  BY DEF IInv, SignalTypes
<1>2. SameRows
  BY DEF SameRows, Exists
<1>3. \A p \in Requests : review'[p] = review[p] \/ SawWhatExists(review'[p])
  BY DEF IInv, SignalTypes
<1> QED
  BY <1>1, <1>2, <1>3, QuietStep

LEMMA ClosedIsFine == SawWhatExists(NoReview)
BY DEF SawWhatExists

-----------------------------------------------------------------------------
(* The actions, one by one.                                                *)

LEMMA InitHolds == SignalsInit => IInv
<1> SUFFICES ASSUME SignalsInit PROVE IInv
  OBVIOUS
<1>1. SignalTypes
  BY DEF SignalsInit, SignalTypes, NoSignal, AnyRow, Maturities, NowhereElse, Unmarked
<1>2. \A s \in Codes : ~ Exists(s)
  BY DEF SignalsInit, Exists, NoSignal
<1>3. InOrderOfCode
  <2>1. Existing = 1 .. 0
    BY <1>2 DEF Existing
  <2> QED
    BY <2>1, SignalsAssumption DEF InOrderOfCode
<1>4. NothingBefore
  BY DEF SignalsInit, NothingBefore, Held
<1>5. MergedIsKept
  BY DEF SignalsInit, MergedIsKept, NowhereElse
<1>6. DetectedIsCrossSource
  BY <1>2 DEF DetectedIsCrossSource
<1>7. \A o \in Requests : SawWhatExists(review[o])
  BY ClosedIsFine DEF SignalsInit
<1> QED
  BY <1>1, <1>3, <1>4, <1>5, <1>6, <1>7 DEF IInv

LEMMA OneIsACode == 1 \in Codes
BY SignalsAssumption DEF Codes

LEMMA LoadSteps ==
  ASSUME IInv, NEW o \in Requests, UNCHANGED <<signal, evidence, merged, original>>,
         NEW act \in {"move", "merge", "model", "applied", "ended", "rescoring"},
         NEW s \in Codes, NEW into \in Codes, NEW rows,
         act \in {"move", "merge"} => Exists(s), act = "merge" => Exists(into) /\ s # into,
         review' = [review EXCEPT ![o] = Loaded(act, s, into, rows)]
  PROVE IInv'
BY LoadedSaw, ReadStep DEF IInv

LEMMA CloseSteps ==
  ASSUME IInv, NEW o \in Requests, UNCHANGED <<signal, evidence, merged, original>>, Close(o)
  PROVE IInv'
BY ClosedIsFine, ReadStep DEF Close

\* One row is written, and no evidence.
LEMMA RowStep ==
  ASSUME IInv, NEW s \in Codes, NEW row \in AnyRow,
         row.state = "absent" <=> signal[s].state = "absent",
         row.origin = signal[s].origin, row.marks = signal[s].marks, row.items \in {signal[s].items, Count(s)},
         signal' = [signal EXCEPT ![s] = row], UNCHANGED <<evidence, merged, original>>,
         NEW o \in Requests, NEW r \in Review \cup {NoReview}, SawWhatExists(r),
         review' = [review EXCEPT ![o] = r]
  PROVE IInv'
<1>1. signal \in [Codes -> AnyRow] /\ review \in [Requests -> Review \cup {NoReview}]
  BY DEF IInv, SignalTypes
<1>2. signal' \in [Codes -> AnyRow] /\ review' \in [Requests -> Review \cup {NoReview}]
  BY <1>1
<1>3. signal'[s] = row
  BY <1>1
<1>4. \A t \in Codes : t # s => signal'[t] = signal[t]
  BY <1>1
<1>5. SignalTypes'
  BY <1>2 DEF IInv, SignalTypes
<1>6. SameRows
  BY <1>3, <1>4 DEF SameRows, Exists
<1>7. \A t \in Codes : /\ signal'[t].origin = signal[t].origin
                       /\ signal'[t].marks = signal[t].marks
                       /\ signal'[t].items \in {signal[t].items, Count(t)}
  BY <1>3, <1>4
<1>8. \A p \in Requests : review'[p] = review[p] \/ SawWhatExists(review'[p])
  <2>1. review'[o] = r
    BY <1>1
  <2>2. \A p \in Requests : p # o => review'[p] = review[p]
    BY <1>1
  <2> QED
    BY <2>1, <2>2
<1> QED
  BY <1>5, <1>6, <1>7, <1>8, QuietStep

\* A state is written on a row that was there when it was loaded.
LEMMA MoveStep ==
  ASSUME IInv, NEW o \in Requests, NEW to \in SignalStates, CommitMove(o, to)
  PROVE IInv'
<1>1. review[o] \in Review /\ review[o].act = "move" /\ review[o] # NoReview
  BY DEF CommitMove, Doing, IInv, SignalTypes
<1>2. PICK k \in Codes : k = review[o].at /\ Exists(k)
  BY <1>1 DEF IInv, SawWhatExists, Review
<1> DEFINE row == [signal[k] EXCEPT !.state = to, !.awaiting = (to = "candidate")]
<1>3. signal' = [signal EXCEPT ![k] = row]
  BY <1>2 DEF CommitMove
<1>4. signal[k] \in AnyRow /\ signal[k].state # "absent"
  BY <1>2 DEF IInv, SignalTypes, Exists
<1>5. row \in AnyRow /\ row.state = to /\ row.origin = signal[k].origin
      /\ row.items = signal[k].items /\ row.marks = signal[k].marks
  BY <1>4 DEF AnyRow
<1>6. to # "absent"
  BY DEF SignalStates
<1>7. review' = [review EXCEPT ![o] = NoReview] /\ UNCHANGED <<evidence, merged, original>>
  BY DEF CommitMove, Close
<1> HIDE DEF row
<1> QED
  BY <1>3, <1>4, <1>5, <1>6, <1>7, ClosedIsFine, RowStep

LEMMA RescoreStep ==
  ASSUME IInv, NEW o \in Requests, NEW s \in Codes, NEW rising \in BOOLEAN,
         RescoreOne(o, s, rising)
  PROVE IInv'
<1>1. review[o] \in Review /\ review[o].act = "rescoring" /\ review[o] # NoReview
  BY DEF RescoreOne, Doing, IInv, SignalTypes
<1>2. PICK row : row = Rescored(signal[s], Support(s), review[o].seen[s], rising)
  OBVIOUS
<1>3. PICK r : r = IF review[o].left = {s} THEN NoReview
                   ELSE [review[o] EXCEPT !.left = review[o].left \ {s}]
  OBVIOUS
<1>4. signal' = [signal EXCEPT ![s] = row]
  BY <1>2 DEF RescoreOne, Support
<1>5. review' = [review EXCEPT ![o] = r] /\ UNCHANGED <<evidence, merged, original>>
  BY <1>3 DEF RescoreOne
<1>6. signal[s] \in AnyRow /\ Support(s) \in SUBSET Claims
  BY DEF IInv, SignalTypes, Support, ClaimsOf
<1>7. row \in AnyRow /\ row.state = signal[s].state /\ row.origin = signal[s].origin
      /\ row.items = Count(s) /\ row.marks = signal[s].marks
  <2>1. Count(s) \in Nat
    BY CountIsFinite DEF IInv
  <2>2. MaturityOf(Support(s), rising) \in Maturities
    BY DEF MaturityOf, Maturities
  <2> QED
    BY <1>2, <1>6, <2>1, <2>2 DEF Rescored, AnyRow, Count
<1>8. r \in Review \cup {NoReview} /\ SawWhatExists(r)
  <2>1. CASE review[o].left = {s}
    BY <1>3, <2>1, ClosedIsFine
  <2>2. CASE review[o].left # {s}
    <3>1. r \in Review /\ r.seen = review[o].seen /\ r.act = "rescoring"
      BY <1>1, <1>3, <2>2 DEF Review
    <3>2. SawWhatExists(review[o])
      BY DEF IInv
    <3> QED
      BY <1>1, <3>1, <3>2 DEF SawWhatExists
  <2> QED
    BY <2>1, <2>2
<1> QED
  BY <1>4, <1>5, <1>7, <1>8, RowStep


\* A step that adds evidence, or a row.
LEMMA GrowStep ==
  ASSUME IInv, SignalTypes', SameRows \/ OneMore, Grows, NothingBefore', MergedIsKept',
         \A s \in Codes : Exists(s)' /\ signal'[s].origin = "detected" => Recounted(s),
         NEW o \in Requests, NEW r \in Review \cup {NoReview}, SawWhatExists(r),
         review' = [review EXCEPT ![o] = r]
  PROVE IInv'
<1>1. InOrderOfCode'
  BY RowsStay
<1>2. DetectedIsCrossSource'
  BY DetectedStays
<1>3. \A p \in Requests : review'[p] \in Review \cup {NoReview} /\ SawWhatExists(review'[p])
  <2>1. review \in [Requests -> Review \cup {NoReview}] /\ \A p \in Requests : SawWhatExists(review[p])
    BY DEF IInv, SignalTypes
  <2>2. review'[o] = r
    BY <2>1
  <2>3. \A p \in Requests : p # o => review'[p] = review[p]
    BY <2>1
  <2> QED
    BY <2>1, <2>2, <2>3
<1>4. \A s \in Codes : Exists(s) => Exists(s)'
  BY RowsStay
<1>5. \A p \in Requests : SawWhatExists(review[p])'
  <2> SUFFICES ASSUME NEW p \in Requests PROVE SawWhatExists(review[p])'
    OBVIOUS
  <2>1. review'[p] \in Review \cup {NoReview} /\ SawWhatExists(review'[p])
    BY <1>3
  <2>2. review'[p] # NoReview => review'[p].at \in Codes /\ review'[p].into \in Codes
    BY <2>1 DEF Review
  <2> QED
    BY <1>4, <2>1, <2>2 DEF SawWhatExists
<1> QED
  BY <1>1, <1>2, <1>5 DEF IInv

LEMMA EvidenceWritten ==
  ASSUME IInv, NEW s \in Codes, NEW row \in [Claims -> Roles \cup {NoRole}],
         evidence' = [evidence EXCEPT ![s] = row],
         \A c \in Claims : evidence[s][c] # NoRole => row[c] = evidence[s][c]
  PROVE /\ evidence' \in [Codes -> [Claims -> Roles \cup {NoRole}]]
        /\ Grows
        /\ evidence'[s] = row
        /\ \A t \in Codes : t # s => Held(t)' = Held(t)
<1>1. evidence \in [Codes -> [Claims -> Roles \cup {NoRole}]]
  BY DEF IInv, SignalTypes
<1>2. evidence' \in [Codes -> [Claims -> Roles \cup {NoRole}]]
  BY <1>1
<1>3. evidence'[s] = row
  BY <1>1
<1>4. \A t \in Codes : t # s => evidence'[t] = evidence[t]
  BY <1>1
<1>5. Grows
  BY <1>3, <1>4 DEF Grows
<1>6. \A t \in Codes : t # s => Held(t)' = Held(t)
  BY <1>4 DEF Held
<1> QED
  BY <1>2, <1>3, <1>5, <1>6

\* Observations are evidence of another table, and a duplicate is marked in
\* another still: no signal is written.
LEMMA ByHandSteps ==
  ASSUME IInv, UNCHANGED <<signal, evidence, review, merged>>,
         original' \in [ContentItems -> ContentItems]
  PROVE IInv'
<1>1. \A s \in Codes : Exists(s)' = Exists(s) /\ Held(s)' = Held(s) /\ ClaimsOf(s, "supports")' = ClaimsOf(s, "supports")
  BY DEF Exists, Held, ClaimsOf
<1>2. SignalTypes'
  BY DEF IInv, SignalTypes
<1>3. SameRows /\ Grows
  BY <1>1 DEF SameRows, Grows
<1>4. \A s \in Codes : Exists(s)' => Recounted(s)
  BY <1>1 DEF Recounted
<1>5. InOrderOfCode' /\ DetectedIsCrossSource' /\ MergedIsKept' /\ NothingBefore'
  BY <1>1, <1>2, <1>3, <1>4, RowsStay, DetectedStays, MergedStays DEF IInv, NothingBefore
<1>6. \A o \in Requests : SawWhatExists(review[o])'
  <2> SUFFICES ASSUME NEW o \in Requests PROVE SawWhatExists(review[o])'
    OBVIOUS
  <2>1. review[o] \in Review \cup {NoReview} /\ SawWhatExists(review[o])
    BY DEF IInv, SignalTypes
  <2>2. review[o] # NoReview => review[o].at \in Codes /\ review[o].into \in Codes
    BY <2>1 DEF Review
  <2> QED
    BY <1>1, <2>1, <2>2 DEF SawWhatExists
<1> QED
  BY <1>2, <1>5, <1>6 DEF IInv

LEMMA StartStep ==
  ASSUME IInv, NEW os \in SUBSET Observations, StartFromObservations(os)
  PROVE IInv'
<1>1. PICK k \in Codes : k = NextCode
  BY DEF StartFromObservations
<1>2. ~ Exists(k) /\ Held(k) = {}
  BY <1>1, NextIsFree
<1>3. Cardinality(Events(os)) \in Nat
  <2> DEFINE xs == os \ References
             f == [x \in xs |-> EventOf[x]]
  <2>1. IsFiniteSet(xs)
    BY FS_Subset, SignalsAssumption
  <2>2. f \in Surjection(xs, Events(os))
    BY DEF Surjection, Events
  <2> QED
    BY <2>1, <2>2, FS_Surjection, FS_CardinalityType
<1>4. PICK row : row = [NoSignal EXCEPT !.state = "candidate", !.origin = "analyst",
                                       !.maturity = Earned(os), !.items = Cardinality(Events(os))]
  OBVIOUS
<1>5. row \in AnyRow /\ row.origin = "analyst" /\ row.state = "candidate"
  <2>1. Earned(os) \in Maturities
    BY DEF Earned, Maturities
  <2> QED
    BY <1>3, <1>4, <2>1 DEF NoSignal, AnyRow, SignalStates, Unmarked
<1>6. signal' = [signal EXCEPT ![k] = row] /\ UNCHANGED <<evidence, review, merged, original>>
  BY <1>1, <1>4 DEF StartFromObservations
<1>7. signal \in [Codes -> AnyRow]
  BY DEF IInv, SignalTypes
<1>8. signal' \in [Codes -> AnyRow] /\ signal'[k] = row
  BY <1>5, <1>6, <1>7
<1>9. \A t \in Codes : t # k => signal'[t] = signal[t]
  BY <1>6, <1>7
<1>10. SignalTypes' /\ Grows
  BY <1>6, <1>8 DEF IInv, SignalTypes, Grows
<1>11. OneMore
  BY <1>1, <1>5, <1>8, <1>9 DEF OneMore, Exists
<1>12. NothingBefore'
  BY <1>6, <1>11 DEF IInv, NothingBefore, OneMore, Held
<1>13. MergedIsKept'
  BY <1>6, <1>10, MergedStays
<1>14. \A t \in Codes : Exists(t)' /\ signal'[t].origin = "detected" => Recounted(t)
  BY <1>5, <1>8, <1>9, <1>1, <1>11 DEF Recounted, OneMore
<1>15. DetectedIsCrossSource'
  BY <1>10, <1>14, DetectedStays
<1>16. \A o \in Requests : SawWhatExists(review[o])'
  <2> SUFFICES ASSUME NEW o \in Requests PROVE SawWhatExists(review[o])'
    OBVIOUS
  <2>1. review[o] \in Review \cup {NoReview} /\ SawWhatExists(review[o])
    BY DEF IInv, SignalTypes
  <2>2. review[o] # NoReview => review[o].at \in Codes /\ review[o].into \in Codes
    BY <2>1 DEF Review
  <2>3. \A t \in Codes : Exists(t) => Exists(t)'
    BY <1>11 DEF OneMore
  <2> QED
    BY <1>6, <2>1, <2>2, <2>3 DEF SawWhatExists
<1>17. InOrderOfCode'
  BY <1>11, RowsStay
<1> QED
  BY <1>10, <1>12, <1>13, <1>15, <1>16, <1>17 DEF IInv


\* The claims of one go to the other, and what it was merged into says so.
LEMMA MergeStep ==
  ASSUME IInv, NEW o \in Requests, NEW rising \in BOOLEAN, CommitMerge(o, rising)
  PROVE IInv'
<1>1. review[o] \in Review /\ review[o].act = "merge" /\ review[o] # NoReview
  BY DEF CommitMerge, Doing, IInv, SignalTypes
<1>2. PICK s, into \in Codes : /\ s = review[o].at /\ into = review[o].into
                               /\ Exists(s) /\ Exists(into) /\ s # into
  BY <1>1 DEF IInv, SawWhatExists, Review
<1>3. PICK row : row = Folded(s, into)
  OBVIOUS
<1>4. PICK support : support = {c \in Claims : row[c] = "supports"}
  OBVIOUS
<1>5. PICK lost : lost = [signal[s] EXCEPT !.state = "rejected", !.awaiting = FALSE]
  OBVIOUS
<1>6. PICK won : won = Rescored(signal[into], support, review[o].seen[into], rising)
  OBVIOUS
<1>7. evidence' = [evidence EXCEPT ![into] = row]
  BY <1>2, <1>3 DEF CommitMerge
<1>8. merged' = [merged EXCEPT ![s] = [into |-> into, claims |-> Held(s)]]
  BY <1>2 DEF CommitMerge
<1>9. signal \in [Codes -> AnyRow] /\ evidence \in [Codes -> [Claims -> Roles \cup {NoRole}]]
      /\ merged \in [Codes -> [into : Codes \cup {0}, claims : SUBSET Claims]]
  BY DEF IInv, SignalTypes
<1>10. signal' = [signal EXCEPT ![s] = lost, ![into] = won]
  <2>1. signal' = [signal EXCEPT ![s].state = "rejected", ![s].awaiting = FALSE, ![into] = won]
    BY <1>2, <1>3, <1>4, <1>6 DEF CommitMerge
  <2> QED
    BY <1>2, <1>5, <1>9, <2>1
<1>11. row \in [Claims -> Roles \cup {NoRole}]
       /\ \A c \in Claims : /\ evidence[into][c] # NoRole => row[c] = evidence[into][c]
                            /\ evidence[s][c] # NoRole => row[c] # NoRole
  BY <1>2, <1>3, <1>9 DEF Folded, Held
<1>12. /\ evidence' \in [Codes -> [Claims -> Roles \cup {NoRole}]]
       /\ Grows /\ evidence'[into] = row
       /\ \A t \in Codes : t # into => Held(t)' = Held(t)
  <2>1. row \in [Claims -> Roles \cup {NoRole}]
    BY <1>11
  <2>2. \A c \in Claims : evidence[into][c] # NoRole => row[c] = evidence[into][c]
    BY <1>11
  <2> QED
    BY <1>7, <2>1, <2>2, EvidenceWritten
<1>13. Support(into)' = support /\ support \in SUBSET Claims
  BY <1>4, <1>12 DEF Support, ClaimsOf
<1>14. /\ Count(into)' = Cardinality(Conversations(support)) /\ Count(into)' \in Nat
       /\ original' = original
  BY <1>13, CountedAfter DEF CommitMerge, Conversations
<1>15. lost \in AnyRow /\ lost.state = "rejected" /\ lost.origin = signal[s].origin
       /\ lost.items = signal[s].items /\ lost.marks = signal[s].marks
  <2>1. signal[s] \in AnyRow
    BY <1>2, <1>9
  <2> QED
    BY <1>5, <2>1 DEF AnyRow, SignalStates
<1>16. won \in AnyRow /\ won.state = signal[into].state /\ won.origin = signal[into].origin
       /\ won.items = Count(into)' /\ won.marks = signal[into].marks
  <2>1. signal[into] \in AnyRow
    BY <1>2, <1>9
  <2>2. MaturityOf(support, rising) \in Maturities
    BY DEF MaturityOf, Maturities
  <2>3. PICK n \in Nat : n = Cardinality(Conversations(support))
    BY <1>14
  <2> QED
    BY <1>6, <1>14, <2>1, <2>2, <2>3 DEF Rescored, AnyRow
<1>17. signal' \in [Codes -> AnyRow] /\ signal'[s] = lost /\ signal'[into] = won
  BY <1>2, <1>9, <1>10, <1>15, <1>16
<1>18. \A t \in Codes : t # s /\ t # into => signal'[t] = signal[t]
  BY <1>9, <1>10
<1>19. review' = [review EXCEPT ![o] = NoReview]
  BY DEF CommitMerge, Close
<1>20. merged'[s] = [into |-> into, claims |-> Held(s)]
       /\ \A t \in Codes : t # s => merged'[t] = merged[t]
  BY <1>8, <1>9
<1>21. merged' \in [Codes -> [into : Codes \cup {0}, claims : SUBSET Claims]]
  <2>1. Held(s) \in SUBSET Claims
    BY DEF Held
  <2> QED
    BY <1>2, <1>8, <1>9, <2>1
<1>22. SignalTypes'
  <2>1. review' \in [Requests -> Review \cup {NoReview}]
    BY <1>19 DEF IInv, SignalTypes
  <2> QED
    BY <1>12, <1>14, <1>17, <1>21, <2>1 DEF IInv, SignalTypes
<1>23. SameRows
  <2>1. Exists(s)' /\ Exists(into)'
    BY <1>2, <1>15, <1>16, <1>17 DEF Exists
  <2>2. \A t \in Codes : t # s /\ t # into => (Exists(t)' <=> Exists(t))
    BY <1>18 DEF Exists
  <2> QED
    BY <1>2, <2>1, <2>2 DEF SameRows
<1>24. NothingBefore'
  BY <1>2, <1>12, <1>23 DEF IInv, NothingBefore, SameRows
<1>25. \A t \in Codes : Exists(t)' /\ signal'[t].origin = "detected" => Recounted(t)
  <2> SUFFICES ASSUME NEW t \in Codes, Exists(t)' PROVE Recounted(t)
    OBVIOUS
  <2>1. Exists(t)
    BY <1>23 DEF SameRows
  <2>2. CASE t = s
    BY <1>15, <1>17, <2>1, <2>2 DEF Recounted
  <2>3. CASE t = into
    BY <1>16, <1>17, <2>1, <2>3 DEF Recounted
  <2>4. CASE t # s /\ t # into
    BY <1>18, <2>1, <2>4 DEF Recounted
  <2> QED
    BY <2>2, <2>3, <2>4
<1>26. ASSUME NEW t \in Codes, NEW k \in Codes, merged'[t].into = k
       PROVE merged'[t].claims \subseteq Held(k)'
  <2>1. CASE t = s
    <3>1. Held(s) \subseteq Held(into)'
      BY <1>11, <1>12 DEF Held
    <3>2. k = into /\ merged'[t].claims = Held(s)
      BY <1>20, <1>26, <2>1
    <3> QED
      BY <3>1, <3>2
  <2>2. CASE t # s
    <3>1. merged'[t] = merged[t]
      BY <1>20, <2>2
    <3>2. k # 0
      BY SignalsAssumption DEF Codes
    <3>3. merged[t].claims \subseteq Held(k)
      BY <1>26, <3>1, <3>2 DEF IInv, MergedIsKept
    <3>4. Held(k) \subseteq Held(k)'
      BY <1>12, <1>22, MoreEvidence DEF IInv
    <3> QED
      BY <3>1, <3>3, <3>4
  <2> QED
    BY <2>1, <2>2
<1>27. MergedIsKept'
  <2>1. \A t \in Codes : merged'[t].into # 0 => merged'[t].into \in Codes
    BY <1>21
  <2> QED
    BY <1>26, <2>1 DEF MergedIsKept, Held
<1> QED
  BY <1>12, <1>19, <1>22, <1>23, <1>24, <1>25, <1>27, ClosedIsFine, GrowStep

\* What a detection run proposes goes to a signal it saw, or to a new one.
LEMMA ApplyStep ==
  ASSUME IInv, NEW o \in Requests, NEW extends \in Codes,
         NEW cs \in SUBSET Claims, NEW against \in SUBSET Claims,
         DetectApply(o, extends, cs, against)
  PROVE IInv'
<1>1. review[o] \in Review /\ review[o].act = "model" /\ review[o] # NoReview
  BY DEF DetectApply, Doing, IInv, SignalTypes
<1>2. PICK known : known = Continues(o, extends, cs)
  OBVIOUS
<1>3. PICK s \in Codes : s = IF known = {} THEN NextCode ELSE CHOOSE k \in known : TRUE
  BY <1>2 DEF DetectApply
<1>4. evidence' = [evidence EXCEPT ![s] = Supported(s, cs, against)]
  BY <1>2, <1>3 DEF DetectApply
<1>5. signal' = IF known = {}
                THEN [signal EXCEPT ![s] = [NoSignal EXCEPT !.state = "candidate",
                                                            !.marks = review[o].marks]]
                ELSE signal
  BY <1>2, <1>3 DEF DetectApply
<1>6. PICK r : r = Loaded("applied", 1, 1, {})
  OBVIOUS
<1>7. review' = [review EXCEPT ![o] = r] /\ UNCHANGED <<merged, original>> /\ CrossSource(o, cs)
  BY <1>6 DEF DetectApply
<1>8. r \in Review /\ SawWhatExists(r)
  BY <1>6, OneIsACode, LoadedSaw DEF IInv
<1>9. signal \in [Codes -> AnyRow] /\ evidence \in [Codes -> [Claims -> Roles \cup {NoRole}]]
  BY DEF IInv, SignalTypes
<1>10. PICK row : row = Supported(s, cs, against)
  OBVIOUS
<1>11. row \in [Claims -> Roles \cup {NoRole}]
       /\ \A c \in Claims : evidence[s][c] # NoRole => row[c] = evidence[s][c]
  BY <1>9, <1>10 DEF Supported, Roles
<1>12. /\ evidence' \in [Codes -> [Claims -> Roles \cup {NoRole}]]
       /\ Grows /\ evidence'[s] = row
       /\ \A t \in Codes : t # s => Held(t)' = Held(t)
  BY <1>4, <1>10, <1>11, EvidenceWritten
<1>13. review' \in [Requests -> Review \cup {NoReview}]
  BY <1>7, <1>8 DEF IInv, SignalTypes
<1>14. CASE known # {}
  <2>1. known \subseteq SeenOpen(o)
    BY <1>2 DEF Continues, AlreadyOpen
  <2>2. s \in known
    BY <1>3, <1>14
  <2>3. review[o].seen[s] # "absent"
    BY <2>1, <2>2 DEF SeenOpen, OpenStates, SignalStates
  <2>4. Exists(s)
    BY <1>1, <2>3 DEF IInv, SawWhatExists
  <2>5. UNCHANGED signal
    BY <1>5, <1>14
  <2>6. SameRows
    BY <2>5 DEF SameRows, Exists
  <2>7. SignalTypes'
    BY <1>7, <1>12, <1>13, <2>5 DEF IInv, SignalTypes
  <2>8. NothingBefore'
    BY <1>12, <2>4, <2>6 DEF IInv, NothingBefore, SameRows
  <2>9. MergedIsKept'
    BY <1>7, <1>12, <2>7, MergedStays
  <2>10. \A t \in Codes : Exists(t)' /\ signal'[t].origin = "detected" => Recounted(t)
    BY <2>5, <2>6 DEF SameRows, Recounted
  <2> QED
    BY <1>7, <1>8, <1>12, <2>6, <2>7, <2>8, <2>9, <2>10, GrowStep
<1>15. CASE known = {}
  <2>1. s = NextCode /\ ~ Exists(s) /\ Held(s) = {}
    BY <1>3, <1>15, NextIsFree
  <2>2. PICK new : new = [NoSignal EXCEPT !.state = "candidate", !.marks = review[o].marks]
    OBVIOUS
  <2>3. new \in AnyRow /\ new.state = "candidate" /\ new.items = 0 /\ new.marks = review[o].marks
    BY <1>1, <2>2 DEF NoSignal, AnyRow, SignalStates, Maturities, Review
  <2>4. signal' = [signal EXCEPT ![s] = new]
    BY <1>5, <1>15, <2>2
  <2>5. signal' \in [Codes -> AnyRow] /\ signal'[s] = new
    BY <1>9, <2>3, <2>4
  <2>6. \A t \in Codes : t # s => signal'[t] = signal[t]
    BY <1>9, <2>4
  <2>7. SignalTypes'
    BY <1>7, <1>12, <1>13, <2>5 DEF IInv, SignalTypes
  <2>8. OneMore
    BY <2>1, <2>3, <2>5, <2>6 DEF OneMore, Exists
  <2>9. NothingBefore'
    BY <1>12, <2>1, <2>8 DEF IInv, NothingBefore, OneMore
  <2>10. MergedIsKept'
    BY <1>7, <1>12, <2>7, MergedStays
  <2>11. Support(s)' = cs
    <3>1. \A c \in Claims : evidence[s][c] = NoRole
      BY <2>1 DEF Held
    <3>2. \A c \in Claims : row[c] = "supports" <=> c \in cs
      BY <1>10, <3>1 DEF Supported, NoRole
    <3> QED
      BY <1>12, <3>2 DEF Support, ClaimsOf
  <2>12. Voices(s)' >= 2
    BY <1>7, <2>3, <2>5, <2>11, CountedAfter DEF CrossSource
  <2>13. \A t \in Codes : Exists(t)' /\ signal'[t].origin = "detected" => Recounted(t)
    <3> SUFFICES ASSUME NEW t \in Codes, Exists(t)' PROVE Recounted(t)
      OBVIOUS
    <3>1. CASE t = s
      BY <2>3, <2>5, <2>12, <3>1 DEF Recounted
    <3>2. CASE t # s
      BY <2>1, <2>6, <2>8, <3>2 DEF Recounted, OneMore
    <3> QED
      BY <3>1, <3>2
  <2> QED
    BY <1>7, <1>8, <1>12, <2>7, <2>8, <2>9, <2>10, <2>13, GrowStep
<1> QED
  BY <1>14, <1>15


-----------------------------------------------------------------------------
LEMMA DetectLoadStep ==
  ASSUME IInv, NEW o \in Requests, DetectLoad(o)
  PROVE IInv'
<1>1. PICK k : k = Loaded("model", 1, 1, OpenSignals)
  OBVIOUS
<1>2. k \in Review /\ SawWhatExists(k) /\ k.act = "model"
  <2>1. k.act = "model"
    BY <1>1 DEF Loaded
  <2> QED
    BY <1>1, <2>1, OneIsACode, LoadedSaw DEF IInv
<1>3. PICK r : r = [k EXCEPT !.marks = original]
  OBVIOUS
<1>4. r \in Review /\ r.seen = k.seen /\ r.act = "model" /\ k # NoReview
  <2>1. original \in [ContentItems -> ContentItems]
    BY DEF IInv, SignalTypes
  <2>2. r \in Review
    BY <1>2, <1>3, <2>1 DEF Review
  <2>3. r.seen = k.seen /\ r.act = k.act /\ r # NoReview
    BY <1>2, <1>3 DEF Review, NoReview
  <2> QED
    BY <1>2, <2>2, <2>3 DEF Review, NoReview
<1>5. SawWhatExists(r)
  BY <1>2, <1>4 DEF SawWhatExists
<1>6. review' = [review EXCEPT ![o] = r] /\ UNCHANGED <<signal, evidence, merged, original>>
  BY <1>1, <1>3 DEF DetectLoad
<1> QED
  BY <1>4, <1>5, <1>6, ReadStep

LEMMA RescoreLoadStep ==
  ASSUME IInv, NEW o \in Requests, RescoreLoad(o)
  PROVE IInv'
<1>1. CASE OpenSignals = {}
  <2>1. Close(o) /\ UNCHANGED <<signal, evidence, merged, original>>
    BY <1>1 DEF RescoreLoad, Close
  <2> QED
    BY <2>1, CloseSteps
<1>2. CASE OpenSignals # {}
  <2>1. PICK k : k = Loaded("rescoring", 1, 1, OpenSignals)
    OBVIOUS
  <2>2. k \in Review /\ SawWhatExists(k) /\ k.act = "rescoring"
    <3>1. SignalTypes
      BY DEF IInv
    <3>2. k.act = "rescoring"
      BY <2>1 DEF Loaded
    <3> QED
      BY <2>1, <3>1, <3>2, OneIsACode, LoadedSaw
  <2>3. PICK r : r = [k EXCEPT !.left = OpenSignals]
    OBVIOUS
  <2>4. OpenSignals \in SUBSET Codes
    BY DEF OpenSignals
  <2>5. r \in Review /\ r.seen = k.seen /\ r.act = "rescoring" /\ k # NoReview
    BY <2>2, <2>3, <2>4 DEF Review, NoReview
  <2>6. SawWhatExists(r)
    BY <2>2, <2>5 DEF SawWhatExists
  <2>7. review' = [review EXCEPT ![o] = r] /\ UNCHANGED <<signal, evidence, merged, original>>
    BY <1>2, <2>1, <2>3 DEF RescoreLoad
  <2> QED
    BY <2>5, <2>6, <2>7, ReadStep
<1> QED
  BY <1>1, <1>2

LEMMA StepHolds == IInv /\ [SignalsNext]_signalVars => IInv'
<1> SUFFICES ASSUME IInv, [SignalsNext]_signalVars PROVE IInv'
  OBVIOUS
<1>1. CASE UNCHANGED signalVars
  BY <1>1, ByHandSteps DEF signalVars, IInv, SignalTypes
<1>2. CASE Entering
  <2>1. CASE \E s \in Codes, os \in SUBSET Observations, role \in Roles : Attach(s, os, role)
    BY <2>1, ByHandSteps DEF Attach, IInv, SignalTypes
  <2>2. CASE \E s \in Codes, x \in Observations : Detach(s, x)
    BY <2>2, ByHandSteps DEF Detach, IInv, SignalTypes
  <2>3. CASE \E os \in SUBSET Observations : StartFromObservations(os)
    BY <2>3, StartStep
  <2> QED
    BY <1>2, <2>1, <2>2, <2>3 DEF Entering
<1>3. ASSUME NEW o \in Operators, Deciding(o) PROVE IInv'
  <2>1. o \in Requests
    BY DEF Requests
  <2>2. ASSUME NEW s \in Codes, LoadMove(o, s) PROVE IInv'
    BY <2>1, <2>2, LoadSteps DEF LoadMove
  <2>3. ASSUME NEW to \in SignalStates, CommitMove(o, to) PROVE IInv'
    BY <2>1, <2>3, MoveStep
  <2>4. ASSUME NEW s \in Codes, NEW into \in Codes, LoadMerge(o, s, into) PROVE IInv'
    BY <2>1, <2>4, LoadSteps DEF LoadMerge
  <2>5. ASSUME NEW rising \in BOOLEAN, CommitMerge(o, rising) PROVE IInv'
    BY <2>1, <2>5, MergeStep
  <2>6. CASE LeaveReview(o)
    BY <2>1, <2>6, CloseSteps DEF LeaveReview
  <2> QED
    BY <1>3, <2>2, <2>3, <2>4, <2>5, <2>6 DEF Deciding
<1>4. ASSUME NEW o \in Detectors, Detecting(o) PROVE IInv'
  <2>1. o \in Requests
    BY DEF Requests
  <2>2. CASE DetectLoad(o)
    BY <2>1, <2>2, DetectLoadStep
  <2>3. CASE DetectThin(o)
    BY <2>1, <2>3, OneIsACode, LoadSteps DEF DetectThin
  <2>4. CASE DetectSkipped(o)
    BY <2>1, <2>4, OneIsACode, LoadSteps DEF DetectSkipped
  <2>5. ASSUME NEW extends \in Codes, NEW cs \in SUBSET Claims, NEW against \in SUBSET Claims,
               DetectApply(o, extends, cs, against)
        PROVE IInv'
    BY <2>1, <2>5, ApplyStep
  <2>6. CASE DetectNothing(o)
    BY <2>1, <2>6, OneIsACode, LoadSteps DEF DetectNothing
  <2>7. CASE CodeTaken(o)
    BY <2>1, <2>7, CloseSteps DEF CodeTaken
  <2>8. CASE RescoreLoad(o)
    BY <2>1, <2>8, RescoreLoadStep
  <2>9. ASSUME NEW s \in Codes, NEW rising \in BOOLEAN, RescoreOne(o, s, rising) PROVE IInv'
    BY <2>1, <2>9, RescoreStep
  <2> QED
    BY <1>4, <2>2, <2>3, <2>4, <2>5, <2>6, <2>7, <2>8, <2>9 DEF Detecting
<1>5. ASSUME NEW items \in SUBSET ContentItems, NEW kept \in ContentItems,
             MarkDuplicates(items, kept)
      PROVE IInv'
  <2>1. original' \in [ContentItems -> ContentItems]
    BY <1>5 DEF MarkDuplicates, IInv, SignalTypes
  <2> QED
    BY <1>5, <2>1, ByHandSteps DEF MarkDuplicates
<1> QED
  BY <1>1, <1>2, <1>3, <1>4, <1>5 DEF SignalsNext

LEMMA Inductive == SignalsSpec => []IInv
<1> QED
  BY InitHolds, StepHolds, PTL DEF SignalsSpec

\* For any claims, operators and detection runs: what a merged signal had is
\* evidence of the signal it went into, ever after (review.py, merge).
THEOREM NothingMergedIsLost == SignalsSpec => []MergedIsKept
<1>1. IInv => MergedIsKept
  BY DEF IInv
<1> QED
  BY <1>1, Inductive, PTL

\* For any claims, operators, detection runs and marks of duplicates: a
\* detected signal rests on two conversations as its detection counted them,
\* and never counts more than the items it has (detection.py, _apply and
\* rescore).
THEOREM DetectedHasTwoSources == SignalsSpec => []DetectedIsCrossSource
<1>1. IInv => DetectedIsCrossSource
  BY DEF IInv
<1> QED
  BY <1>1, Inductive, PTL

-----------------------------------------------------------------------------
(* Recommendations and profiles.                                           *)

AnyAdvice == [signal : Codes \cup {0}, state : AdviceStates \cup {"absent"},
              claims : SUBSET Claims, observations : SUBSET Observations]
AnyAdvising == [act : {"draft", "between", "edit", "decide", "withdraw"},
                row : Rows \cup {0}, signal : Codes \cup {0}, seen : AdviceStates,
                claims : SUBSET Claims, observations : SUBSET Observations,
                daily : BOOLEAN, past : SUBSET Codes, spent : Nat]
AdviceTypes ==
    /\ advice \in [Rows -> AnyAdvice]
    /\ advising \in [Requests -> AnyAdvising \cup {NotAdvising}]

RowsInOrder == \E n \in 0 .. MaxAdvice : Stored = 1 .. n

\* What a request carries: a draft, evidence of its signal as it was read; a
\* review, the row it loaded.
OnItsRow(q) ==
    q # NotAdvising =>
        /\ q.act = "draft" => q.signal \in Codes /\ q.claims \subseteq Held(q.signal)
        /\ q.act \in {"edit", "decide", "withdraw"} =>
              q.row \in Stored /\ q.signal = advice[q.row].signal

OfASignal == \A r \in Stored : advice[r].signal \in Codes
AtMostOne ==
    \A r1, r2 \in Stored :
        /\ advice[r1].state \in OpenAdvice /\ advice[r2].state \in OpenAdvice
        /\ advice[r1].signal = advice[r2].signal
        => r1 = r2

AInv ==
    /\ AdviceTypes
    /\ RowsInOrder
    /\ \A o \in Requests : OnItsRow(advising[o])
    /\ OfASignal
    /\ AtMostOne
    /\ CitesItsEvidence

-----------------------------------------------------------------------------
LEMMA NextRowIsFree ==
  ASSUME AInv, NextRow \in Rows
  PROVE /\ NextRow \notin Stored
        /\ \E n \in 0 .. MaxAdvice : Stored = 1 .. n /\ NextRow = n + 1
<1>1. PICK n \in 0 .. MaxAdvice : Stored = 1 .. n
  BY DEF AInv, RowsInOrder
<1>2. Cardinality(1 .. n) = n
  BY FS_Interval, RecommendationsAssumption
<1>3. NextRow = n + 1
  BY <1>1, <1>2 DEF NextRow
<1> QED
  BY <1>1, <1>3, RecommendationsAssumption

\* A request that reads or ends: no row is written.
LEMMA AdviceRead ==
  ASSUME AInv, UNCHANGED <<advice, evidence>>,
         NEW o \in Requests, NEW q \in AnyAdvising \cup {NotAdvising}, OnItsRow(q),
         advising' = [advising EXCEPT ![o] = q]
  PROVE AInv'
<1>1. AdviceTypes'
  BY DEF AInv, AdviceTypes
<1>2. Stored' = Stored /\ \A s \in Codes : Held(s)' = Held(s)
  BY DEF Stored, Held
<1>3. RowsInOrder' /\ OfASignal' /\ AtMostOne'
  BY <1>2 DEF AInv, RowsInOrder, OfASignal, AtMostOne
<1>4. CitesItsEvidence'
  BY <1>2 DEF AInv, CitesItsEvidence, Held
<1>5. ASSUME NEW p \in Requests PROVE OnItsRow(advising[p])'
  <2>1. PICK k : k = advising'[p]
    OBVIOUS
  <2>2. OnItsRow(k)
    BY <2>1 DEF AInv, AdviceTypes
  <2>3. k # NotAdvising => k \in AnyAdvising
    BY <1>1, <2>1 DEF AdviceTypes
  <2> QED
    BY <1>2, <2>1, <2>2, <2>3 DEF OnItsRow, Held
<1> QED
  BY <1>1, <1>3, <1>4, <1>5 DEF AInv


\* A row is written, a new one or the one a request loaded, where the index
\* admits it and the evidence has what it cites.
LEMMA AdviceWrite ==
  ASSUME AInv, UNCHANGED evidence, NEW r \in Rows, NEW row \in AnyAdvice,
         row.state # "absent", row.signal \in Codes,
         r = NextRow \/ (r \in Stored /\ row.signal = advice[r].signal),
         IndexAdmits(r, row.signal, row.state),
         row.claims \cup row.observations # {}, row.claims \subseteq Held(row.signal),
         advice' = [advice EXCEPT ![r] = row],
         NEW o \in Requests, NEW q \in AnyAdvising \cup {NotAdvising},
         q # NotAdvising => q.act = "between",
         advising' = [advising EXCEPT ![o] = q]
  PROVE AInv'
<1>1. advice \in [Rows -> AnyAdvice] /\ advising \in [Requests -> AnyAdvising \cup {NotAdvising}]
  BY DEF AInv, AdviceTypes
<1>2. advice' \in [Rows -> AnyAdvice] /\ advice'[r] = row
  BY <1>1
<1>3. \A k \in Rows : k # r => advice'[k] = advice[k]
  BY <1>1
<1>4. advising' \in [Requests -> AnyAdvising \cup {NotAdvising}] /\ advising'[o] = q
  BY <1>1
<1>5. \A p \in Requests : p # o => advising'[p] = advising[p]
  BY <1>1
<1>6. AdviceTypes'
  BY <1>2, <1>4 DEF AdviceTypes
<1>7. \A s \in Codes : Held(s)' = Held(s)
  BY DEF Held
<1>8. Stored' = Stored \cup {r}
  BY <1>2, <1>3 DEF Stored
<1>9. RowsInOrder'
  <2>1. CASE r \in Stored
    BY <1>8, <2>1 DEF AInv, RowsInOrder
  <2>2. CASE r = NextRow
    <3>1. PICK n \in 0 .. MaxAdvice : Stored = 1 .. n /\ r = n + 1
      BY <2>2, NextRowIsFree
    <3>2. n + 1 \in 0 .. MaxAdvice
      BY <3>1, RecommendationsAssumption DEF Rows
    <3>3. Stored' = 1 .. n + 1
      BY <1>8, <3>1
    <3> QED
      BY <3>2, <3>3 DEF RowsInOrder
  <2> QED
    BY <2>1, <2>2
<1>10. \A k \in Stored : advice'[k].signal = advice[k].signal
  <2>1. r \in Stored => row.signal = advice[r].signal
    BY NextRowIsFree
  <2>2. Stored \subseteq Rows
    BY DEF Stored
  <2> QED
    BY <1>2, <1>3, <2>1, <2>2
<1>11. OfASignal'
  BY <1>2, <1>8, <1>10 DEF AInv, OfASignal
<1>12. ASSUME NEW k \in Stored, k # r, advice[k].state \in OpenAdvice,
              row.state \in OpenAdvice, advice[k].signal = row.signal
       PROVE FALSE
  <2>1. k \in OpenOn(row.signal)
    BY <1>12 DEF OpenOn, RowsOn
  <2> QED
    BY <1>12, <2>1 DEF IndexAdmits
<1>13. AtMostOne'
  <2> SUFFICES ASSUME NEW r1 \in Stored', NEW r2 \in Stored',
                      advice'[r1].state \in OpenAdvice, advice'[r2].state \in OpenAdvice,
                      advice'[r1].signal = advice'[r2].signal
               PROVE r1 = r2
    BY DEF AtMostOne
  <2>1. Stored \subseteq Rows
    BY DEF Stored
  <2>2. CASE r1 = r /\ r2 # r
    BY <1>2, <1>3, <1>8, <1>12, <2>1, <2>2
  <2>3. CASE r1 # r /\ r2 = r
    BY <1>2, <1>3, <1>8, <1>12, <2>1, <2>3
  <2>4. CASE r1 # r /\ r2 # r
    BY <1>3, <1>8, <2>1, <2>4 DEF AInv, AtMostOne
  <2> QED
    BY <2>2, <2>3, <2>4
<1>14. CitesItsEvidence'
  <2> SUFFICES ASSUME NEW k \in Stored'
               PROVE /\ advice'[k].claims \cup advice'[k].observations # {}
                     /\ advice'[k].claims \subseteq Held(advice[k].signal)'
    BY DEF CitesItsEvidence
  <2>1. Stored \subseteq Rows
    BY DEF Stored
  <2>2. PICK s \in Codes : s = advice'[k].signal
    BY <1>11 DEF OfASignal
  <2>3. Held(advice[k].signal)' = Held(s)'
    BY <2>2 DEF Held
  <2>4. CASE k = r
    BY <1>2, <1>7, <2>2, <2>3, <2>4
  <2>5. CASE k # r
    <3>1. k \in Stored /\ advice'[k] = advice[k]
      BY <1>3, <1>8, <2>1, <2>5
    <3> QED
      BY <1>7, <2>2, <2>3, <3>1 DEF AInv, CitesItsEvidence
  <2> QED
    BY <2>4, <2>5
<1>15. ASSUME NEW p \in Requests PROVE OnItsRow(advising[p])'
  <2>1. PICK k : k = advising'[p]
    OBVIOUS
  <2>2. CASE p = o
    BY <1>4, <2>1, <2>2 DEF OnItsRow
  <2>3. CASE p # o
    <3>1. k = advising[p] /\ OnItsRow(k) /\ (k # NotAdvising => k \in AnyAdvising)
      BY <1>1, <1>5, <2>1, <2>3 DEF AInv
    <3>2. ASSUME k # NotAdvising, k.act = "draft"
          PROVE k.signal \in Codes /\ k.claims \subseteq Held(k.signal)'
      BY <1>7, <3>1, <3>2 DEF OnItsRow
    <3>3. ASSUME k # NotAdvising, k.act \in {"edit", "decide", "withdraw"}
          PROVE k.row \in Stored' /\ k.signal = advice'[k.row].signal
      BY <1>8, <1>10, <3>1, <3>3 DEF OnItsRow
    <3> QED
      BY <2>1, <3>2, <3>3 DEF OnItsRow, Held
  <2> QED
    BY <2>2, <2>3
<1> QED
  BY <1>6, <1>9, <1>11, <1>13, <1>14, <1>15 DEF AInv

\* Evidence only grows: what was cited, or read, is still there.
LEMMA EvidenceGrew ==
  ASSUME AInv, UNCHANGED adviceVars, SignalTypes, SignalTypes', Grows
  PROVE AInv'
<1>1. UNCHANGED <<advice, advising>>
  BY DEF adviceVars
<1>2. \A s \in Codes : Held(s) \subseteq Held(s)'
  BY MoreEvidence
<1>3. Stored' = Stored
  BY <1>1 DEF Stored
<1>4. AdviceTypes' /\ RowsInOrder' /\ OfASignal' /\ AtMostOne'
  BY <1>1, <1>3 DEF AInv, AdviceTypes, RowsInOrder, OfASignal, AtMostOne
<1>5. CitesItsEvidence'
  <2> SUFFICES ASSUME NEW k \in Stored
               PROVE /\ advice[k].claims \cup advice[k].observations # {}
                     /\ advice[k].claims \subseteq Held(advice[k].signal)'
    BY <1>1, <1>3 DEF CitesItsEvidence, Held
  <2>1. advice[k].signal \in Codes
    BY DEF AInv, OfASignal
  <2>2. PICK s \in Codes : s = advice[k].signal
    BY <2>1
  <2>3. Held(advice[k].signal)' = Held(s)'
    BY <1>1, <2>2 DEF Held
  <2>4. /\ advice[k].claims \cup advice[k].observations # {}
        /\ advice[k].claims \subseteq Held(s)
    BY <2>2 DEF AInv, CitesItsEvidence
  <2> QED
    BY <1>2, <2>3, <2>4
<1>6. ASSUME NEW p \in Requests PROVE OnItsRow(advising[p])'
  <2>1. PICK k : k = advising[p] /\ k = advising'[p]
    BY <1>1
  <2>2. OnItsRow(k)
    BY <2>1 DEF AInv
  <2>3. ASSUME k # NotAdvising, k.act = "draft"
        PROVE k.signal \in Codes /\ k.claims \subseteq Held(k.signal)'
    BY <1>2, <2>2, <2>3 DEF OnItsRow
  <2> QED
    BY <1>1, <1>3, <2>1, <2>2, <2>3 DEF OnItsRow, Held
<1> QED
  BY <1>4, <1>5, <1>6 DEF AInv


-----------------------------------------------------------------------------
LEMMA EvidenceOnlyGrows == IInv /\ SignalsNext => Grows
<1> SUFFICES ASSUME IInv, SignalsNext PROVE Grows
  OBVIOUS
<1>1. CASE UNCHANGED evidence
  BY <1>1 DEF Grows
<1>2. ASSUME NEW o \in Requests, NEW rising \in BOOLEAN, CommitMerge(o, rising) PROVE Grows
  <2>1. review[o] \in Review /\ review[o].act = "merge" /\ review[o] # NoReview
    BY <1>2 DEF CommitMerge, Doing, IInv, SignalTypes
  <2>2. PICK s, into \in Codes : s = review[o].at /\ into = review[o].into
    BY <2>1 DEF Review
  <2>3. PICK row : row = Folded(s, into)
    OBVIOUS
  <2>4. evidence' = [evidence EXCEPT ![into] = row]
    BY <1>2, <2>2, <2>3 DEF CommitMerge
  <2>5. evidence \in [Codes -> [Claims -> Roles \cup {NoRole}]]
    BY DEF IInv, SignalTypes
  <2>6. row \in [Claims -> Roles \cup {NoRole}]
    BY <2>2, <2>3, <2>5 DEF Folded
  <2>7. \A c \in Claims : evidence[into][c] # NoRole => row[c] = evidence[into][c]
    BY <2>3 DEF Folded, Held
  <2> QED
    BY <2>2, <2>4, <2>6, <2>7, EvidenceWritten
<1>3. ASSUME NEW o \in Requests, NEW extends \in Codes, NEW cs \in SUBSET Claims,
             NEW against \in SUBSET Claims, DetectApply(o, extends, cs, against)
      PROVE Grows
  <2>1. PICK s \in Codes : evidence' = [evidence EXCEPT ![s] = Supported(s, cs, against)]
    BY <1>3 DEF DetectApply
  <2>2. PICK row : row = Supported(s, cs, against)
    OBVIOUS
  <2>3. evidence \in [Codes -> [Claims -> Roles \cup {NoRole}]]
    BY DEF IInv, SignalTypes
  <2>4. row \in [Claims -> Roles \cup {NoRole}]
    BY <2>2, <2>3 DEF Supported, Roles
  <2>5. \A c \in Claims : evidence[s][c] # NoRole => row[c] = evidence[s][c]
    BY <2>2 DEF Supported
  <2> QED
    BY <2>1, <2>2, <2>4, <2>5, EvidenceWritten
<1>4. Operators \subseteq Requests /\ Detectors \subseteq Requests
  BY DEF Requests
<1>5. CASE Entering
  BY <1>1, <1>5 DEF Entering, Attach, Detach, StartFromObservations
<1>6. ASSUME NEW o \in Operators, Deciding(o) PROVE Grows
  <2>1. CASE \E rising \in BOOLEAN : CommitMerge(o, rising)
    BY <1>2, <1>4, <2>1
  <2>2. CASE UNCHANGED evidence
    BY <1>1, <2>2
  <2> QED
    BY <1>6, <2>1, <2>2 DEF Deciding, LoadMove, CommitMove, LoadMerge, LeaveReview
<1>7. ASSUME NEW o \in Detectors, Detecting(o) PROVE Grows
  <2>1. CASE \E extends \in Codes, cs, against \in SUBSET Claims :
                DetectApply(o, extends, cs, against)
    BY <1>3, <1>4, <2>1
  <2>2. CASE UNCHANGED evidence
    BY <1>1, <2>2
  <2> QED
    BY <1>7, <2>1, <2>2 DEF Detecting, DetectLoad, DetectThin, DetectSkipped, DetectNothing,
                            CodeTaken, RescoreLoad, RescoreOne
<1>8. ASSUME NEW items \in SUBSET ContentItems, NEW kept \in ContentItems,
             MarkDuplicates(items, kept)
      PROVE Grows
  BY <1>1, <1>8 DEF MarkDuplicates
<1> QED
  BY <1>5, <1>6, <1>7, <1>8 DEF SignalsNext

-----------------------------------------------------------------------------
LEMMA AdviceInitHolds == SignalsInit /\ AdviceInit => AInv
<1> SUFFICES ASSUME AdviceInit PROVE AInv
  OBVIOUS
<1>1. AdviceTypes
  BY DEF AdviceInit, AdviceTypes, NoAdvice, AnyAdvice
<1>2. Stored = {}
  BY DEF AdviceInit, Stored, NoAdvice
<1>3. RowsInOrder
  BY <1>2, RecommendationsAssumption DEF RowsInOrder
<1> QED
  BY <1>1, <1>2, <1>3
     DEF AInv, AdviceInit, OnItsRow, OfASignal, AtMostOne, CitesItsEvidence

LEMMA AskedIsFine == Asked \in AnyAdvising /\ Asked # NotAdvising
BY DEF Asked, AnyAdvising, NotAdvising, AdviceStates

\* What a request goes on with once its draft is over.
LEMMA AfterDraftIs ==
  ASSUME AInv, NEW o \in Requests, NEW spent \in 0 .. 1, AfterDraft(o, spent),
         advising[o] # NotAdvising
  PROVE \E q \in AnyAdvising \cup {NotAdvising} :
           /\ q # NotAdvising => q.act = "between"
           /\ advising' = [advising EXCEPT ![o] = q]
<1>1. advising[o] \in AnyAdvising
  BY DEF AInv, AdviceTypes
<1>2. PICK q : q = IF advising[o].daily THEN Between(advising[o], advising[o].spent + spent)
                                        ELSE NotAdvising
  OBVIOUS
<1>3. advising' = [advising EXCEPT ![o] = q]
  BY <1>2 DEF AfterDraft
<1>4. CASE advising[o].daily
  <2>1. PICK n \in Nat : n = advising[o].spent + spent
    BY <1>1 DEF AnyAdvising
  <2>2. q \in AnyAdvising /\ q.act = "between"
    BY <1>1, <1>2, <1>4, <2>1 DEF Between, AnyAdvising
  <2> QED
    BY <1>3, <2>2
<1>5. CASE ~ advising[o].daily
  BY <1>2, <1>3, <1>5
<1> QED
  BY <1>4, <1>5

LEMMA DraftingStep ==
  ASSUME AInv, UNCHANGED evidence, NEW o \in Requests, Drafting(o)
  PROVE AInv'
<1>1. ASSUME NEW s \in Codes, DraftByHand(o, s) PROVE AInv'
  <2>1. PICK q : q = [Asked EXCEPT !.signal = s, !.claims = Held(s), !.observations = AttachedTo(s)]
    OBVIOUS
  <2>2. Held(s) \in SUBSET Claims /\ AttachedTo(s) \in SUBSET Observations
    BY DEF Held, AttachedTo
  <2>3. q \in AnyAdvising /\ q.act = "draft" /\ q.signal = s /\ q.claims = Held(s)
    BY <2>1, <2>2, AskedIsFine DEF Asked, AnyAdvising
  <2>4. OnItsRow(q)
    BY <2>3 DEF OnItsRow
  <2> QED
    BY <1>1, <2>1, <2>3, <2>4, AdviceRead DEF DraftByHand
<1>2. CASE DailyStart(o)
  <2>1. PICK q : q = [Asked EXCEPT !.act = "between", !.daily = TRUE,
                                   !.past = {s \in Codes : RowsOn(s) # {} \/ s \notin OpenSignals}]
    OBVIOUS
  <2>2. q \in AnyAdvising /\ q.act = "between"
    BY <2>1, AskedIsFine DEF Asked, AnyAdvising
  <2> QED
    BY <1>2, <2>1, <2>2, AdviceRead DEF DailyStart, OnItsRow
<1>3. ASSUME NEW s \in Codes, DailyDraft(o, s) PROVE AInv'
  <2>1. advising[o] \in AnyAdvising /\ advising[o].act = "between"
    BY <1>3 DEF DailyDraft, Busy, AInv, AdviceTypes
  <2>2. PICK tried \in SUBSET Codes : tried = advising[o].past \cup {s}
    BY <2>1 DEF AnyAdvising
  <2>3. PICK q : q = IF CanDraft(s)
                     THEN [advising[o] EXCEPT !.act = "draft", !.signal = s, !.past = tried,
                                              !.claims = Held(s), !.observations = AttachedTo(s)]
                     ELSE [advising[o] EXCEPT !.past = tried]
    OBVIOUS
  <2>4. advising' = [advising EXCEPT ![o] = q] /\ UNCHANGED advice
    BY <1>3, <2>2, <2>3 DEF DailyDraft
  <2>5. Held(s) \in SUBSET Claims /\ AttachedTo(s) \in SUBSET Observations
    BY DEF Held, AttachedTo
  <2>6. CASE CanDraft(s)
    <3>1. q \in AnyAdvising /\ q.act = "draft" /\ q.signal = s /\ q.claims = Held(s)
      BY <2>1, <2>2, <2>3, <2>5, <2>6 DEF AnyAdvising
    <3> QED
      BY <2>4, <3>1, AdviceRead DEF OnItsRow
  <2>7. CASE ~ CanDraft(s)
    <3>1. q \in AnyAdvising /\ q.act = "between"
      BY <2>1, <2>2, <2>3, <2>7 DEF AnyAdvising
    <3> QED
      BY <2>4, <3>1, AdviceRead DEF OnItsRow
  <2> QED
    BY <2>6, <2>7
<1>4. CASE DailyEnd(o) \/ DraftConflict(o)
  BY <1>4, AdviceRead DEF DailyEnd, DraftConflict, Leave, OnItsRow
<1>5. ASSUME NEW cs \in SUBSET Claims, NEW os \in SUBSET Observations, Drafted(o, cs, os)
      PROVE AInv'
  <2>1. advising[o] \in AnyAdvising /\ advising[o].act = "draft" /\ advising[o] # NotAdvising
    BY <1>5 DEF Drafted, Busy, AInv, AdviceTypes
  <2>2. advising[o].signal \in Codes /\ advising[o].claims \subseteq Held(advising[o].signal)
    BY <2>1 DEF AInv, OnItsRow
  <2>3. PICK row : row = [signal |-> advising[o].signal, state |-> "proposed",
                          claims |-> cs, observations |-> os]
    OBVIOUS
  <2>4. /\ row \in AnyAdvice /\ row.state = "proposed" /\ row.signal = advising[o].signal
        /\ row.claims = cs /\ row.observations = os
    BY <2>2, <2>3 DEF AnyAdvice, AdviceStates
  <2>5. PICK r \in Rows : r = NextRow
    BY <1>5 DEF Drafted
  <2>6. advice' = [advice EXCEPT ![r] = row]
    BY <1>5, <2>3, <2>5 DEF Drafted
  <2>7. IndexAdmits(r, row.signal, row.state)
    BY <1>5, <2>4, <2>5 DEF Drafted
  <2>8. row.claims \cup row.observations # {} /\ row.claims \subseteq Held(row.signal)
    BY <1>5, <2>2, <2>4 DEF Drafted, Grounded
  <2>9. PICK q \in AnyAdvising \cup {NotAdvising} :
           /\ q # NotAdvising => q.act = "between"
           /\ advising' = [advising EXCEPT ![o] = q]
    BY <1>5, <2>1, AfterDraftIs DEF Drafted
  <2>10. row.state # "absent" /\ row.signal \in Codes
    BY <2>2, <2>4
  <2> QED
    BY <2>4, <2>5, <2>6, <2>7, <2>8, <2>9, <2>10, AdviceWrite
<1>6. ASSUME NEW declined \in BOOLEAN, NotDrafted(o, declined) PROVE AInv'
  <2>1. PICK spent \in 0 .. 1 : spent = IF declined THEN 1 ELSE 0
    OBVIOUS
  <2>2. AfterDraft(o, spent) /\ advising[o] # NotAdvising /\ UNCHANGED advice
    BY <1>6, <2>1 DEF NotDrafted, Busy
  <2>3. PICK q \in AnyAdvising \cup {NotAdvising} :
           /\ q # NotAdvising => q.act = "between"
           /\ advising' = [advising EXCEPT ![o] = q]
    BY <2>2, AfterDraftIs
  <2>4. OnItsRow(q)
    BY <2>3 DEF OnItsRow
  <2> QED
    BY <2>2, <2>3, <2>4, AdviceRead
<1> QED
  BY <1>1, <1>2, <1>3, <1>4, <1>5, <1>6 DEF Drafting


\* A state or a text written on the row that was loaded, or refused.
LEMMA SettleStep ==
  ASSUME AInv, UNCHANGED evidence, NEW o \in Requests, NEW state \in AdviceStates,
         NEW row \in AnyAdvice, advising[o] # NotAdvising,
         advising[o].act \in {"edit", "decide", "withdraw"},
         row.state = state, row.signal = advising[o].signal,
         row.claims \cup row.observations # {}, row.claims \subseteq Held(row.signal),
         Settle(o, state, row)
  PROVE AInv'
<1>1. PICK r : r = advising[o].row
  OBVIOUS
<1>2. r \in Stored /\ row.signal = advice[r].signal
  BY <1>1 DEF AInv, OnItsRow
<1>3. r \in Rows /\ row.signal \in Codes
  BY <1>2 DEF Stored, AInv, OfASignal
<1>4. advising' = [advising EXCEPT ![o] = NotAdvising]
  BY DEF Settle, Leave
<1>5. CASE IndexAdmits(r, row.signal, row.state)
  <2>1. advice' = [advice EXCEPT ![r] = row]
    BY <1>1, <1>5 DEF Settle
  <2>2. row.state # "absent"
    BY DEF AdviceStates
  <2> QED
    BY <1>2, <1>3, <1>4, <1>5, <2>1, <2>2, AdviceWrite
<1>6. CASE ~ IndexAdmits(r, row.signal, row.state)
  <2>1. UNCHANGED advice
    BY <1>1, <1>6 DEF Settle
  <2> QED
    BY <1>4, <2>1, AdviceRead DEF OnItsRow
<1> QED
  BY <1>5, <1>6

\* A new state on the row a request reviews.
LEMMA RestateStep ==
  ASSUME AInv, UNCHANGED evidence, NEW o \in Requests, NEW state \in AdviceStates,
         advising[o] # NotAdvising, advising[o].act \in {"edit", "decide", "withdraw"},
         Settle(o, state, [advice[advising[o].row] EXCEPT !.state = state])
  PROVE AInv'
<1>1. PICK row : row = [advice[advising[o].row] EXCEPT !.state = state]
  OBVIOUS
<1>2. Settle(o, state, row)
  BY <1>1
<1>3. PICK r \in Stored : r = advising[o].row /\ advising[o].signal = advice[r].signal
  BY DEF AInv, OnItsRow
<1>4. advice[r] \in AnyAdvice
  BY <1>3 DEF AInv, AdviceTypes, Stored
<1>5. /\ advice[r].claims \cup advice[r].observations # {}
      /\ advice[r].claims \subseteq Held(advice[r].signal)
  BY <1>3 DEF AInv, CitesItsEvidence
<1>6. /\ row \in AnyAdvice /\ row.state = state /\ row.signal = advice[r].signal
      /\ row.claims = advice[r].claims /\ row.observations = advice[r].observations
  BY <1>1, <1>3, <1>4 DEF AnyAdvice
<1>7. /\ row \in AnyAdvice /\ row.state = state /\ row.signal = advising[o].signal
      /\ row.claims \cup row.observations # {} /\ row.claims \subseteq Held(row.signal)
  BY <1>3, <1>5, <1>6
<1> QED
  BY <1>2, <1>7, SettleStep

LEMMA ReviewingStep ==
  ASSUME AInv, UNCHANGED evidence, NEW o \in Requests, Reviewing(o)
  PROVE AInv'
<1>1. ASSUME NEW r \in Rows, NEW act \in {"edit", "decide", "withdraw"}, LoadAdvice(o, r, act)
      PROVE AInv'
  <2>1. PICK q : q = [Asked EXCEPT !.act = act, !.row = r, !.signal = advice[r].signal,
                                   !.seen = advice[r].state]
    OBVIOUS
  <2>2. advice[r].signal \in Codes \cup {0} /\ advice[r].state \in AdviceStates /\ r \in Stored
    BY <1>1 DEF LoadAdvice, OpenAdvice, AInv, AdviceTypes, AnyAdvice
  <2>3. q \in AnyAdvising /\ q.act = act /\ q.row = r /\ q.signal = advice[r].signal
    BY <2>1, <2>2, AskedIsFine DEF Asked, AnyAdvising
  <2>4. OnItsRow(q)
    BY <2>2, <2>3 DEF OnItsRow
  <2> QED
    BY <1>1, <2>1, <2>3, <2>4, AdviceRead DEF LoadAdvice
<1>2. ASSUME NEW cs \in SUBSET Claims, NEW os \in SUBSET Observations, CommitEdit(o, cs, os)
      PROVE AInv'
  <2>1. advising[o] # NotAdvising /\ advising[o].act = "edit"
    BY <1>2 DEF CommitEdit, Busy
  <2>2. advising[o].signal \in Codes
    BY <2>1 DEF AInv, OnItsRow, OfASignal
  <2>3. PICK row : row = [signal |-> advising[o].signal, state |-> "operator edited",
                          claims |-> cs, observations |-> os]
    OBVIOUS
  <2>4. /\ row \in AnyAdvice /\ row.state = "operator edited" /\ row.signal = advising[o].signal
        /\ row.claims = cs /\ row.observations = os
    BY <2>2, <2>3 DEF AnyAdvice, AdviceStates
  <2>5. row.claims \cup row.observations # {} /\ row.claims \subseteq Held(row.signal)
    BY <1>2, <2>4 DEF CommitEdit, Grounded
  <2>6. Settle(o, "operator edited", row)
    BY <1>2, <2>3 DEF CommitEdit
  <2>7. "operator edited" \in AdviceStates
    BY DEF AdviceStates
  <2> QED
    BY <2>1, <2>4, <2>5, <2>6, <2>7, SettleStep
<1>3. ASSUME NEW verdict \in {"approved", "rejected"}, CommitDecide(o, verdict) PROVE AInv'
  <2>1. advising[o] # NotAdvising /\ advising[o].act = "decide"
    BY <1>3 DEF CommitDecide, Busy
  <2>2. Settle(o, verdict, [advice[advising[o].row] EXCEPT !.state = verdict])
    BY <1>3 DEF CommitDecide
  <2>3. verdict \in AdviceStates
    BY DEF AdviceStates
  <2> QED
    BY <2>1, <2>2, <2>3, RestateStep
<1>4. CASE CommitWithdraw(o)
  <2>1. advising[o] # NotAdvising /\ advising[o].act = "withdraw"
    BY <1>4 DEF CommitWithdraw, Busy
  <2>2. PICK state \in AdviceStates : state = "operator edited"
    BY DEF AdviceStates
  <2>3. Settle(o, state, [advice[advising[o].row] EXCEPT !.state = state])
    BY <1>4, <2>2 DEF CommitWithdraw
  <2>4. advising[o].act \in {"edit", "decide", "withdraw"}
    BY <2>1
  <2> QED
    BY <2>1, <2>3, <2>4, RestateStep
<1>5. CASE RefuseAdvice(o)
  BY <1>5, AdviceRead DEF RefuseAdvice, Leave, OnItsRow
<1> QED
  BY <1>1, <1>2, <1>3, <1>4, <1>5 DEF Reviewing

LEMMA GroundedStep ==
  IInv /\ AInv /\ [GroundedNext]_<<signalVars, adviceVars>> => IInv' /\ AInv'
<1> SUFFICES ASSUME IInv, AInv, [GroundedNext]_<<signalVars, adviceVars>> PROVE IInv' /\ AInv'
  OBVIOUS
<1>1. [SignalsNext]_signalVars
  BY DEF GroundedNext
<1>2. IInv'
  BY <1>1, StepHolds
<1>3. ASSUME AdviceNext, UNCHANGED signalVars PROVE AInv'
  <2>1. UNCHANGED evidence
    BY <1>3 DEF signalVars
  <2> QED
    BY <1>3, <2>1, DraftingStep, ReviewingStep DEF AdviceNext
<1>4. ASSUME [SignalsNext]_signalVars, UNCHANGED adviceVars PROVE AInv'
  <2>1. SignalTypes /\ SignalTypes'
    BY <1>2 DEF IInv
  <2>2. CASE SignalsNext
    BY <1>4, <2>1, <2>2, EvidenceOnlyGrows, EvidenceGrew
  <2>3. CASE UNCHANGED signalVars
    <3>1. Grows
      BY <2>3 DEF Grows, signalVars
    <3> QED
      BY <1>4, <2>1, <3>1, EvidenceGrew
  <2> QED
    BY <1>4, <2>2, <2>3
<1>5. (AdviceNext /\ UNCHANGED signalVars) \/ ([SignalsNext]_signalVars /\ UNCHANGED adviceVars)
  BY DEF GroundedNext
<1> QED
  BY <1>2, <1>3, <1>4, <1>5

LEMMA GroundedInductive == GroundedSpec => [](IInv /\ AInv)
<1>1. SignalsInit /\ AdviceInit => IInv /\ AInv
  BY InitHolds, AdviceInitHolds
<1> QED
  BY <1>1, GroundedStep, PTL DEF GroundedSpec

LEMMA OneIsOne ==
  ASSUME NEW S, \A x, y \in S : x = y PROVE Cardinality(S) <= 1
<1>1. CASE S = {}
  BY <1>1, FS_EmptySet
<1>2. CASE S # {}
  <2>1. PICK x : S = {x}
    BY <1>2
  <2> QED
    BY <2>1, FS_Singleton
<1> QED
  BY <1>1, <1>2

\* For any requests and daily runs, each acting on what it read before a model
\* call: a signal has one open recommendation (models.py,
\* one_open_recommendation_per_signal).
THEOREM OneAnswer == GroundedSpec => []OneOpenRecommendation
<1>1. AInv => OneOpenRecommendation
  <2> SUFFICES ASSUME AInv, NEW s \in Codes PROVE Cardinality(OpenOn(s)) <= 1
    BY DEF OneOpenRecommendation
  <2>1. \A x, y \in OpenOn(s) : x = y
    BY DEF AInv, AtMostOne, OpenOn, RowsOn
  <2> QED
    BY <2>1, OneIsOne
<1> QED
  BY <1>1, GroundedInductive, PTL

\* While evidence is detected, attached, merged and rescored: a recommendation
\* cites something, and what it cites is evidence of its own signal
\* (recommendations.py, validate).
THEOREM AdviceIsGrounded == GroundedSpec => []CitesItsEvidence
<1>1. AInv => CitesItsEvidence
  BY DEF AInv
<1> QED
  BY <1>1, GroundedInductive, PTL


-----------------------------------------------------------------------------
(* The live version of a profile.                                          *)

ProfileTypes ==
    /\ version \in [Numbers -> Version]
    /\ profiling \in [Admins -> Profiling \cup {NotProfiling}]
    /\ wentLive \in [Numbers -> Version]

VersionsInOrder == \E n \in 0 .. MaxVersions : InDraft = 1 .. n
LiveOnce == \A n, k \in Current : n = k

\* Whatever is live was drafted before, and something stays live from the
\* first on.
LiveIsDrafted == Current \subseteq InDraft
LiveIsKnown == (\E n \in Numbers : wentLive[n].exists) <=> Current # {}

ActsOnADraft == \A a \in Admins : profiling[a] # NotProfiling => profiling[a].number \in InDraft

PInv ==
    /\ ProfileTypes /\ VersionsInOrder /\ ActsOnADraft
    /\ LiveOnce /\ LiveIsDrafted /\ LiveIsKnown

LEMMA ProfileInitHolds == ProfilesInit => PInv
<1> SUFFICES ASSUME ProfilesInit PROVE PInv
  OBVIOUS
<1>1. ProfileTypes
  BY DEF ProfilesInit, ProfileTypes, NoVersion, Version
<1>2. InDraft = {} /\ Current = {}
  BY DEF ProfilesInit, InDraft, Current, NoVersion
<1>3. VersionsInOrder
  BY <1>2, ProfilesAssumption DEF VersionsInOrder
<1> QED
  BY <1>1, <1>2, <1>3
     DEF PInv, ProfilesInit, ActsOnADraft, LiveOnce, LiveIsDrafted, LiveIsKnown, NoVersion

\* Versions come one after the other, and none is born live.
LEMMA NewVersionStep ==
  ASSUME PInv, NEW assets \in SUBSET Assets, NEW terms \in SUBSET Terms,
         NewVersion(assets, terms)
  PROVE PInv'
<1>1. PICK n \in 0 .. MaxVersions : InDraft = 1 .. n
  BY DEF PInv, VersionsInOrder
<1>2. PICK k \in Numbers : k = NextNumber
  BY DEF NewVersion
<1>3. k = n + 1
  <2>1. Cardinality(1 .. n) = n
    BY FS_Interval, ProfilesAssumption
  <2> QED
    BY <1>1, <1>2, <2>1 DEF NextNumber
<1>4. k \notin InDraft /\ k \notin Current
  BY <1>1, <1>3, ProfilesAssumption DEF PInv, LiveIsDrafted
<1>5. PICK row : row = [exists |-> TRUE, current |-> FALSE, assets |-> assets, terms |-> terms]
  OBVIOUS
<1>6. row \in Version /\ row.exists /\ ~ row.current
  BY <1>5 DEF Version
<1>7. version' = [version EXCEPT ![k] = row] /\ UNCHANGED <<profiling, wentLive>>
  BY <1>2, <1>5 DEF NewVersion
<1>8. version \in [Numbers -> Version]
  BY DEF PInv, ProfileTypes
<1>9. version' \in [Numbers -> Version] /\ version'[k] = row
  BY <1>6, <1>7, <1>8
<1>10. \A j \in Numbers : j # k => version'[j] = version[j]
  BY <1>7, <1>8
<1>11. ProfileTypes'
  BY <1>7, <1>9 DEF PInv, ProfileTypes
<1>12. InDraft' = InDraft \cup {k} /\ Current' = Current
  BY <1>4, <1>6, <1>9, <1>10 DEF InDraft, Current
<1>13. VersionsInOrder'
  <2>1. n + 1 \in 0 .. MaxVersions
    BY <1>2, <1>3, ProfilesAssumption DEF Numbers
  <2>2. InDraft' = 1 .. n + 1
    BY <1>1, <1>3, <1>12
  <2> QED
    BY <2>1, <2>2 DEF VersionsInOrder
<1> QED
  BY <1>7, <1>11, <1>12, <1>13
     DEF PInv, ActsOnADraft, LiveOnce, LiveIsDrafted, LiveIsKnown

\* A request that reads, edits or ends.
LEMMA ProfileQuiet ==
  ASSUME PInv, ProfileTypes', UNCHANGED wentLive,
         \A n \in Numbers : /\ version'[n].exists = version[n].exists
                            /\ version'[n].current = version[n].current,
         NEW a \in Admins, NEW q \in Profiling \cup {NotProfiling},
         q # NotProfiling => q.number \in InDraft,
         profiling' = [profiling EXCEPT ![a] = q]
  PROVE PInv'
<1>1. InDraft' = InDraft /\ Current' = Current
  BY DEF InDraft, Current
<1>2. ActsOnADraft'
  BY <1>1 DEF PInv, ProfileTypes, ActsOnADraft
<1> QED
  BY <1>1, <1>2 DEF PInv, VersionsInOrder, LiveOnce, LiveIsDrafted, LiveIsKnown

LEMMA SwitchStep ==
  ASSUME PInv, NEW a \in Admins, ActivateWrite(a) PROVE PInv'
<1>1. profiling[a] \in Profiling /\ profiling[a].number \in InDraft
  BY DEF ActivateWrite, ProfileStep, PInv, ProfileTypes, ActsOnADraft
<1>2. PICK n \in Numbers, old \in Numbers \cup {0} : n = profiling[a].number /\ old = profiling[a].superseded
  BY <1>1 DEF Profiling
<1>3. profiling' = [profiling EXCEPT ![a] = NotProfiling]
  BY DEF ActivateWrite, ProfileDone
<1>4. CASE OnlyCurrent(n, Current \ {old})
  <2>1. version' = [k \in Numbers |->
                      [version[k] EXCEPT !.current = (version[k].current /\ k # old) \/ k = n]]
    BY <1>2, <1>4 DEF ActivateWrite
  <2>2. \A k \in Numbers : version[k] \in Version
    BY DEF PInv, ProfileTypes
  <2>3. \A k \in Numbers : /\ version'[k] \in Version
                           /\ version'[k].exists = version[k].exists
                           /\ version'[k].current <=> (version[k].current /\ k # old) \/ k = n
    BY <2>1, <2>2 DEF Version
  <2>4. version' \in [Numbers -> Version]
    BY <2>1, <2>3
  <2>5. PICK first : first = IF wentLive[n].exists THEN wentLive[n] ELSE version[n]
    OBVIOUS
  <2>6. wentLive' = [wentLive EXCEPT ![n] = first]
    BY <1>2, <1>4, <2>5 DEF ActivateWrite
  <2>7. wentLive \in [Numbers -> Version] /\ first \in Version /\ first.exists
    BY <1>1, <1>2, <2>2, <2>5 DEF PInv, ProfileTypes, InDraft
  <2>8. wentLive' \in [Numbers -> Version] /\ wentLive'[n].exists
    BY <2>6, <2>7
  <2>9. ProfileTypes'
    BY <1>3, <2>4, <2>8 DEF PInv, ProfileTypes
  <2>10. InDraft' = InDraft
    BY <2>3 DEF InDraft
  <2>11. Current' = {n}
    <3>1. \A k \in Numbers : version[k].current /\ k # old => k = n
      BY <1>4 DEF OnlyCurrent, Current
    <3>2. \A k \in Numbers : version'[k].current <=> k = n
      BY <2>3, <3>1
    <3> QED
      BY <3>2 DEF Current
  <2>12. ActsOnADraft'
    BY <1>3, <2>10 DEF PInv, ProfileTypes, ActsOnADraft
  <2>13. LiveOnce' /\ LiveIsDrafted' /\ LiveIsKnown'
    BY <1>1, <1>2, <2>8, <2>10, <2>11 DEF LiveOnce, LiveIsDrafted, LiveIsKnown
  <2> QED
    BY <2>9, <2>10, <2>12, <2>13 DEF PInv, VersionsInOrder
<1>5. CASE ~ OnlyCurrent(n, Current \ {old})
  <2>1. UNCHANGED <<version, wentLive>>
    BY <1>2, <1>5 DEF ActivateWrite
  <2>2. ProfileTypes'
    BY <1>3, <2>1 DEF PInv, ProfileTypes
  <2> QED
    BY <1>3, <2>1, <2>2, ProfileQuiet
<1> QED
  BY <1>4, <1>5


LEMMA ProfileStepHolds == PInv /\ [ProfilesNext]_profileVars => PInv'
<1> SUFFICES ASSUME PInv, [ProfilesNext]_profileVars PROVE PInv'
  OBVIOUS
<1>1. ASSUME UNCHANGED <<version, profiling, wentLive>> PROVE PInv'
  <2>1. InDraft' = InDraft /\ Current' = Current
    BY <1>1 DEF InDraft, Current
  <2> QED
    BY <1>1, <2>1 DEF PInv, ProfileTypes, VersionsInOrder, ActsOnADraft, LiveOnce,
                      LiveIsDrafted, LiveIsKnown
<1>2. ASSUME Versioning PROVE PInv'
  <2>1. LiveAssets \in SUBSET Assets /\ LiveTerms \in SUBSET Terms
    BY DEF LiveAssets, LiveTerms, Current, PInv, ProfileTypes, Version
  <2>2. \E assets \in SUBSET Assets, terms \in SUBSET Terms : NewVersion(assets, terms)
    <3>1. CASE DraftCopy
      BY <2>1, <3>1 DEF DraftCopy
    <3>2. ASSUME NEW assets \in SUBSET Assets, NEW terms \in SUBSET Terms,
                 ImportProfile(assets, terms) \/ Discover(assets, terms)
          PROVE \E as \in SUBSET Assets, ts \in SUBSET Terms : NewVersion(as, ts)
      BY <3>2 DEF ImportProfile, Discover
    <3>3. ASSUME NEW assets \in SUBSET Assets, NEW terms \in SUBSET Terms,
                 ImportProducts(assets, terms)
          PROVE \E as \in SUBSET Assets, ts \in SUBSET Terms : NewVersion(as, ts)
      <4>1. LiveAssets \cup assets \in SUBSET Assets /\ LiveTerms \cup terms \in SUBSET Terms
        BY <2>1
      <4> QED
        BY <3>3, <4>1 DEF ImportProducts
    <3>4. ASSUME NEW assets \in SUBSET Assets, ImportInventory(assets)
          PROVE \E as \in SUBSET Assets, ts \in SUBSET Terms : NewVersion(as, ts)
      BY <2>1, <3>4 DEF ImportInventory
    <3> QED
      BY <1>2, <3>1, <3>2, <3>3, <3>4 DEF Versioning
  <2> QED
    BY <2>2, NewVersionStep
<1>3. ASSUME Contacting PROVE PInv'
  BY <1>1, <1>3 DEF Contacting, AddContact, ToggleContact, DeactivateContact
<1>4. ASSUME NEW a \in Admins, Switching(a) PROVE PInv'
  <2>1. version \in [Numbers -> Version] /\ profiling \in [Admins -> Profiling \cup {NotProfiling}]
    BY DEF PInv, ProfileTypes
  <2>2. ASSUME NEW n \in Numbers, NEW act \in {"edit", "activate"}, LoadVersion(a, n, act)
        PROVE PInv'
    <3>1. PICK q : q = [act |-> act, number |-> n, current |-> version[n].current, superseded |-> 0]
      OBVIOUS
    <3>2. q \in Profiling /\ q.number = n /\ n \in InDraft
      BY <2>1, <2>2, <3>1 DEF LoadVersion, Profiling, Version
    <3>3. profiling' = [profiling EXCEPT ![a] = q] /\ UNCHANGED <<version, wentLive>>
      BY <2>2, <3>1 DEF LoadVersion
    <3>4. ProfileTypes'
      BY <3>2, <3>3 DEF PInv, ProfileTypes
    <3> QED
      BY <3>2, <3>3, <3>4, ProfileQuiet
  <2>3. ASSUME NEW assets \in SUBSET Assets, NEW terms \in SUBSET Terms, EditVersion(a, assets, terms)
        PROVE PInv'
    <3>1. profiling[a] \in Profiling
      BY <2>1, <2>3 DEF EditVersion, ProfileStep
    <3>2. PICK n \in Numbers : n = profiling[a].number
      BY <3>1 DEF Profiling
    <3>3. PICK row : row = [version[n] EXCEPT !.assets = assets, !.terms = terms]
      OBVIOUS
    <3>4. row \in Version /\ row.exists = version[n].exists /\ row.current = version[n].current
      <4>1. version[n] \in Version
        BY <2>1
      <4> QED
        BY <3>3, <4>1 DEF Version
    <3>5. version' = [version EXCEPT ![n] = row]
      <4>1. version' = [version EXCEPT ![n].assets = assets, ![n].terms = terms]
        BY <2>3, <3>2 DEF EditVersion
      <4> QED
        BY <2>1, <3>3, <4>1
    <3>6. profiling' = [profiling EXCEPT ![a] = NotProfiling] /\ UNCHANGED wentLive
      BY <2>3 DEF EditVersion, ProfileDone
    <3>7. version' \in [Numbers -> Version] /\ version'[n] = row
      BY <2>1, <3>4, <3>5
    <3>8. \A k \in Numbers : k # n => version'[k] = version[k]
      BY <2>1, <3>5
    <3>9. ProfileTypes'
      BY <3>6, <3>7 DEF PInv, ProfileTypes
    <3>10. \A k \in Numbers : /\ version'[k].exists = version[k].exists
                              /\ version'[k].current = version[k].current
      BY <3>4, <3>7, <3>8
    <3> QED
      BY <3>6, <3>9, <3>10, ProfileQuiet
  <2>4. CASE RefuseProfile(a)
    <3>1. profiling' = [profiling EXCEPT ![a] = NotProfiling] /\ UNCHANGED <<version, wentLive>>
      BY <2>4 DEF RefuseProfile, ProfileDone
    <3>2. ProfileTypes'
      BY <3>1 DEF PInv, ProfileTypes
    <3> QED
      BY <3>1, <3>2, ProfileQuiet
  <2>5. CASE ActivateRead(a)
    <3>1. profiling[a] \in Profiling /\ profiling[a].number \in InDraft
      BY <2>1, <2>5 DEF ActivateRead, ProfileStep, PInv, ActsOnADraft
    <3>2. PICK old \in Numbers \cup {0} :
             profiling' = [profiling EXCEPT ![a].act = "switch", ![a].superseded = old]
      BY <2>5 DEF ActivateRead, Current
    <3>3. PICK q : q = [profiling[a] EXCEPT !.act = "switch", !.superseded = old]
      OBVIOUS
    <3>4. q \in Profiling /\ q.number = profiling[a].number
      BY <3>1, <3>3 DEF Profiling
    <3>5. profiling' = [profiling EXCEPT ![a] = q]
      BY <2>1, <3>2, <3>3
    <3>6. UNCHANGED <<version, wentLive>>
      BY <2>5 DEF ActivateRead
    <3>7. ProfileTypes'
      BY <3>4, <3>5, <3>6 DEF PInv, ProfileTypes
    <3> QED
      BY <3>1, <3>4, <3>5, <3>6, <3>7, ProfileQuiet
  <2>6. CASE ActivateWrite(a)
    BY <2>6, SwitchStep
  <2> QED
    BY <1>4, <2>2, <2>3, <2>4, <2>5, <2>6 DEF Switching
<1> QED
  BY <1>1, <1>2, <1>3, <1>4 DEF ProfilesNext, profileVars

\* For any administrators and any versions: after the first activation one
\* version is live, and before it none (services.py, activate, and models.py,
\* one_current_profile_per_org).
THEOREM OneIsLive == ProfilesSpec => []OneLiveProfile
<1>1. PInv => OneLiveProfile
  <2> SUFFICES ASSUME PInv
               PROVE Cardinality(Current) = (IF \E n \in Numbers : wentLive[n].exists THEN 1 ELSE 0)
    BY DEF OneLiveProfile
  <2>1. CASE Current = {}
    BY <2>1, FS_EmptySet DEF PInv, LiveIsKnown
  <2>2. CASE Current # {}
    <3>1. PICK n : Current = {n}
      BY <2>2 DEF PInv, LiveOnce
    <3>2. Cardinality(Current) = 1
      BY <3>1, FS_Singleton
    <3> QED
      BY <2>2, <3>2 DEF PInv, LiveIsKnown
  <2> QED
    BY <2>1, <2>2
<1> QED
  BY <1>1, ProfileInitHolds, ProfileStepHolds, PTL DEF ProfilesSpec

-----------------------------------------------------------------------------
(* Candidates and their approval.                                         *)

CandidateTypes ==
    /\ candidate \in [Proposed -> CandidateRow]
    /\ assessing \in [Analysts -> Assessing \cup {Idle}]
    /\ standing \in SUBSET Proposed

\* What a request has loaded is there.
InHandExists ==
    \A a \in Analysts : assessing[a] # Idle => candidate[assessing[a].of].exists

Approved(row) == row.exists /\ row.approved
StandsAsDecided == \A c \in Proposed : Approved(candidate[c]) <=> c \in standing

Assessed == CandidateTypes /\ InHandExists /\ StandsAsDecided

Columns == {"exists", "status", "case", "gap", "adjacent", "approved", "seen"}

LEMMA SavedRow ==
  ASSUME NEW r \in CandidateRow, NEW q \in CandidateRow, NEW cols \in SUBSET Columns
  PROVE  LET new == [f \in DOMAIN r |-> IF f \in cols THEN r[f] ELSE q[f]] IN
         /\ new \in CandidateRow
         /\ \A f \in Columns : new[f] = IF f \in cols THEN r[f] ELSE q[f]
<1>1. DOMAIN r = Columns
  BY DEF CandidateRow, Columns
<1>2. PICK new : new = [f \in DOMAIN r |-> IF f \in cols THEN r[f] ELSE q[f]]
  OBVIOUS
<1>3. \A f \in Columns : new[f] = IF f \in cols THEN r[f] ELSE q[f]
  BY <1>1, <1>2
<1>4. new = [exists |-> new.exists, status |-> new.status, case |-> new.case, gap |-> new.gap,
             adjacent |-> new.adjacent, approved |-> new.approved, seen |-> new.seen]
  BY <1>1, <1>2 DEF Columns
<1>5. /\ new.exists \in BOOLEAN /\ new.status \in {"open", "rejected"} /\ new.case \in Cases
      /\ new.gap \in [checked : BOOLEAN, found : SUBSET Assets]
      /\ new.adjacent \in SUBSET Assets /\ new.approved \in BOOLEAN
      /\ new.seen \in SUBSET Sightings
  BY <1>3 DEF CandidateRow, Columns
<1>6. new \in CandidateRow
  BY <1>4, <1>5 DEF CandidateRow
<1> QED
  BY <1>2, <1>3, <1>6

\* A request that has a row in hand goes on, or ends, whatever it writes.
GoesOn ==
    \A b \in Analysts : assessing'[b] # Idle =>
        assessing[b] # Idle /\ assessing'[b].of = assessing[b].of

\* A request writes a row, and what that says of the approval is what was
\* decided, or the row says of it what it said.
LEMMA RowWritten ==
  ASSUME Assessed, NEW a \in Analysts, assessing[a] # Idle,
         assessing' \in [Analysts -> Assessing \cup {Idle}], GoesOn,
         NEW c, c = assessing[a].of, NEW row \in CandidateRow, row.exists,
         candidate' = [candidate EXCEPT ![c] = row],
         \/ (row.approved <=> candidate[c].approved) /\ UNCHANGED standing
         \/ ~ row.approved /\ NoLongerStands(a)
         \/ row.approved /\ Stands(a)
  PROVE Assessed'
<1>1. c \in Proposed /\ candidate[c].exists
  BY DEF Assessed, CandidateTypes, Assessing, InHandExists
<1>2. candidate' \in [Proposed -> CandidateRow] /\ candidate'[c] = row
  BY <1>1 DEF Assessed, CandidateTypes
<1>3. \A k \in Proposed : k # c => candidate'[k] = candidate[k]
  BY <1>1 DEF Assessed, CandidateTypes
<1>4. standing' \in SUBSET Proposed /\ \A k \in Proposed : k # c => (k \in standing' <=> k \in standing)
  BY <1>1 DEF Assessed, CandidateTypes, Stands, NoLongerStands
<1>5. row.approved <=> c \in standing'
  <2>1. candidate[c].approved <=> c \in standing
    BY <1>1 DEF Assessed, StandsAsDecided, Approved
  <2> QED
    BY <1>1, <2>1 DEF Stands, NoLongerStands
<1>6. StandsAsDecided'
  <2> SUFFICES ASSUME NEW k \in Proposed PROVE Approved(candidate'[k]) <=> k \in standing'
    BY DEF StandsAsDecided, Approved
  <2>1. CASE k = c
    BY <1>2, <1>5, <2>1 DEF Approved
  <2>2. CASE k # c
    BY <1>3, <1>4, <2>2 DEF Assessed, StandsAsDecided
  <2> QED
    BY <2>1, <2>2
<1>7. InHandExists'
  <2> SUFFICES ASSUME NEW b \in Analysts, assessing'[b] # Idle
               PROVE candidate'[assessing'[b].of].exists
    BY DEF InHandExists
  <2>1. assessing[b] # Idle /\ assessing'[b].of = assessing[b].of
    BY DEF GoesOn
  <2>2. assessing[b].of \in Proposed /\ candidate[assessing[b].of].exists
    BY <2>1 DEF Assessed, CandidateTypes, Assessing, InHandExists
  <2> QED
    BY <1>2, <1>3, <2>1, <2>2
<1> QED
  BY <1>2, <1>4, <1>6, <1>7 DEF Assessed, CandidateTypes

LEMMA AnswerEnds ==
  ASSUME Assessed, NEW a \in Analysts, Answer(a)
  PROVE assessing' \in [Analysts -> Assessing \cup {Idle}] /\ GoesOn
<1>1. assessing \in [Analysts -> Assessing \cup {Idle}]
  BY DEF Assessed, CandidateTypes
<1>2. assessing' \in [Analysts -> Assessing \cup {Idle}]
  BY <1>1 DEF Answer
<1>3. assessing'[a] = Idle /\ \A b \in Analysts : b # a => assessing'[b] = assessing[b]
  BY <1>1 DEF Answer
<1> QED
  BY <1>2, <1>3 DEF GoesOn

LEMMA InHandIs ==
  ASSUME Assessed, NEW a \in Analysts, assessing[a] # Idle
  PROVE /\ assessing[a].of \in Proposed /\ InHand(a) \in CandidateRow
        /\ candidate[assessing[a].of] \in CandidateRow /\ candidate[assessing[a].of].exists
BY DEF Assessed, CandidateTypes, Assessing, InHandExists, InHand

\* Every step that saves columns of the row in hand: the approval is either
\* none of them, or is taken back.
LEMMA ColumnsSaved ==
  ASSUME Assessed, NEW a \in Analysts, assessing[a] # Idle,
         assessing' \in [Analysts -> Assessing \cup {Idle}], GoesOn,
         NEW cols \in SUBSET AllColumns, NEW r \in CandidateRow, SaveColumns(a, r, cols),
         \/ "approved" \notin cols /\ UNCHANGED standing
         \/ "approved" \in cols /\ ~ r.approved /\ NoLongerStands(a)
  PROVE Assessed'
<1>1. PICK c \in Proposed : c = assessing[a].of
  BY InHandIs
<1>2. PICK q \in CandidateRow : q = candidate[c] /\ q.exists
  BY <1>1, InHandIs
<1>3. PICK row : row = [f \in DOMAIN r |-> IF f \in cols THEN r[f] ELSE q[f]]
  OBVIOUS
<1>4. cols \in SUBSET Columns /\ "exists" \notin cols
  BY DEF AllColumns, Columns
<1>5. row \in CandidateRow /\ \A f \in Columns : row[f] = IF f \in cols THEN r[f] ELSE q[f]
  BY <1>2, <1>3, <1>4, SavedRow
<1>6. /\ row.exists = q.exists
      /\ row.approved = (IF "approved" \in cols THEN r.approved ELSE q.approved)
  BY <1>4, <1>5 DEF Columns
<1>7. candidate' = [candidate EXCEPT ![c] = row]
  BY <1>1, <1>2, <1>3 DEF SaveColumns, Assessed, CandidateTypes
<1>8. row.exists
  BY <1>2, <1>6
<1>9. \/ (row.approved <=> candidate[c].approved) /\ UNCHANGED standing
      \/ ~ row.approved /\ NoLongerStands(a)
  BY <1>2, <1>6
<1> QED
  BY <1>1, <1>5, <1>7, <1>8, <1>9, RowWritten

LEMMA GapIsARow ==
  ASSUME NEW c \in Proposed
  PROVE  GapNow(c) \in [checked : BOOLEAN, found : SUBSET Assets] /\ GapNow(c).checked
BY CandidatesAssumption DEF GapNow

LEMMA CandidatesBegin == CandidatesInit => Assessed
BY DEF CandidatesInit, Assessed, CandidateTypes, InHandExists, StandsAsDecided, Approved,
       NoCandidate, CandidateRow, Cases, Unchecked

LEMMA CreateStep ==
  ASSUME Assessed, NEW c \in Proposed, NEW suggested \in SUBSET Assets,
         CreateCandidate(c, suggested)
  PROVE  Assessed'
<1>1. PICK row : row = [NoCandidate EXCEPT !.exists = TRUE, !.gap = GapNow(c), !.adjacent = suggested]
  OBVIOUS
<1>2. row \in CandidateRow /\ row.exists /\ ~ row.approved
  BY <1>1, GapIsARow DEF NoCandidate, CandidateRow, Cases
<1>3. candidate' = [candidate EXCEPT ![c] = row] /\ UNCHANGED <<assessing, standing>>
  BY <1>1 DEF CreateCandidate
<1>4. candidate' \in [Proposed -> CandidateRow] /\ candidate'[c] = row
  BY <1>2, <1>3 DEF Assessed, CandidateTypes
<1>5. \A k \in Proposed : k # c => candidate'[k] = candidate[k]
  BY <1>3 DEF Assessed, CandidateTypes
<1>6. c \notin standing
  BY DEF CreateCandidate, Assessed, StandsAsDecided, Approved
<1>7. StandsAsDecided'
  <2> SUFFICES ASSUME NEW k \in Proposed PROVE Approved(candidate'[k]) <=> k \in standing
    BY <1>3 DEF StandsAsDecided, Approved
  <2>1. CASE k = c
    BY <1>2, <1>4, <1>6, <2>1 DEF Approved
  <2>2. CASE k # c
    BY <1>5, <2>2 DEF Assessed, StandsAsDecided
  <2> QED
    BY <2>1, <2>2
<1>8. InHandExists'
  <2> SUFFICES ASSUME NEW a \in Analysts, assessing[a] # Idle
               PROVE candidate'[assessing[a].of].exists
    BY <1>3 DEF InHandExists
  <2>1. PICK k \in Proposed : k = assessing[a].of /\ candidate[k].exists
    BY InHandIs
  <2> QED
    BY <1>2, <1>4, <1>5, <2>1
<1> QED
  BY <1>3, <1>4, <1>7, <1>8 DEF Assessed, CandidateTypes

LEMMA LoadStep ==
  ASSUME Assessed, NEW a \in Analysts, NEW c \in Proposed, LoadCandidate(a, c)
  PROVE  Assessed'
<1>1. PICK q : q = [act |-> "page", of |-> c, row |-> candidate[c]]
  OBVIOUS
<1>2. q \in Assessing /\ q.of = c
  BY <1>1 DEF Assessed, CandidateTypes, Assessing
<1>3. /\ assessing' = [assessing EXCEPT ![a] = q] /\ UNCHANGED <<candidate, standing>>
      /\ candidate[c].exists
  BY <1>1 DEF LoadCandidate
<1>4. CandidateTypes'
  BY <1>2, <1>3 DEF Assessed, CandidateTypes
<1>5. InHandExists'
  <2> SUFFICES ASSUME NEW b \in Analysts, assessing'[b] # Idle
               PROVE candidate[assessing'[b].of].exists
    BY <1>3 DEF InHandExists
  <2>1. CASE b = a
    BY <1>2, <1>3, <2>1 DEF Assessed, CandidateTypes
  <2>2. CASE b # a
    BY <1>3, <2>2 DEF Assessed, CandidateTypes, InHandExists
  <2> QED
    BY <2>1, <2>2
<1>6. StandsAsDecided'
  BY <1>3 DEF Assessed, StandsAsDecided, Approved
<1> QED
  BY <1>4, <1>5, <1>6 DEF Assessed

LEMMA SaveColumnStep ==
  ASSUME Assessed, NEW a \in Analysts,
         \/ CheckGap(a)
         \/ \E named \in SUBSET Assets : SuggestAdjacent(a, named) \/ SetAdjacent(a, named)
         \/ \E case \in Cases, status \in {"open", "rejected"} : EditCandidate(a, case, status)
         \/ WithdrawApproval(a)
         \/ SaveDraft(a)
  PROVE  Assessed'
<1>1. assessing[a] # Idle
  BY DEF CheckGap, SuggestAdjacent, SetAdjacent, EditCandidate, WithdrawApproval, SaveDraft, AtStep
<1>2. PICK q \in CandidateRow : q = InHand(a)
  BY <1>1, InHandIs
<1>3. assessing' \in [Analysts -> Assessing \cup {Idle}] /\ GoesOn
  BY AnswerEnds DEF CheckGap, SuggestAdjacent, SetAdjacent, EditCandidate, WithdrawApproval, SaveDraft
<1>4. CASE CheckGap(a)
  <2>1. PICK gap \in [checked : BOOLEAN, found : SUBSET Assets] : gap = GapNow(assessing[a].of)
    BY <1>1, InHandIs, GapIsARow
  <2>2. PICK r : r = [q EXCEPT !.gap = gap]
    OBVIOUS
  <2>3. r \in CandidateRow
    BY <2>2 DEF CandidateRow
  <2>4. SaveColumns(a, r, {"gap"}) /\ UNCHANGED standing
    BY <1>2, <1>4, <2>1, <2>2 DEF CheckGap
  <2> QED
    BY <1>1, <1>3, <2>3, <2>4, ColumnsSaved DEF AllColumns
<1>5. ASSUME NEW named \in SUBSET Assets, SuggestAdjacent(a, named) PROVE Assessed'
  <2>1. PICK r : r = [q EXCEPT !.adjacent = named]
    OBVIOUS
  <2>2. r \in CandidateRow
    BY <2>1 DEF CandidateRow
  <2>3. SaveColumns(a, r, {"adjacent"}) /\ UNCHANGED standing
    BY <1>2, <1>5, <2>1 DEF SuggestAdjacent
  <2> QED
    BY <1>1, <1>3, <2>2, <2>3, ColumnsSaved DEF AllColumns
<1>6. ASSUME NEW r \in CandidateRow, ~ r.approved, NEW cols \in SUBSET AllColumns,
             "approved" \in cols, SaveColumns(a, r, cols), NoLongerStands(a)
      PROVE Assessed'
  BY <1>1, <1>3, <1>6, ColumnsSaved
<1>7. ASSUME NEW named \in SUBSET Assets, SetAdjacent(a, named) PROVE Assessed'
  <2>1. PICK r : r = [q EXCEPT !.adjacent = named, !.approved = FALSE]
    OBVIOUS
  <2>2. r \in CandidateRow /\ ~ r.approved
    BY <2>1 DEF CandidateRow
  <2>3. SaveColumns(a, r, {"adjacent", "approved"}) /\ NoLongerStands(a)
    BY <1>2, <1>7, <2>1 DEF SetAdjacent
  <2> QED
    BY <1>6, <2>2, <2>3 DEF AllColumns
<1>8. ASSUME NEW case \in Cases, NEW status \in {"open", "rejected"}, EditCandidate(a, case, status)
      PROVE Assessed'
  <2>1. PICK r : r = [q EXCEPT !.case = case, !.status = status, !.approved = FALSE]
    OBVIOUS
  <2>2. r \in CandidateRow /\ ~ r.approved
    BY <2>1 DEF CandidateRow
  <2>3. SaveColumns(a, r, AllColumns) /\ NoLongerStands(a)
    BY <1>2, <1>8, <2>1 DEF EditCandidate
  <2> QED
    BY <1>6, <2>2, <2>3 DEF AllColumns
<1>9. CASE WithdrawApproval(a)
  <2>1. PICK r : r = [q EXCEPT !.approved = FALSE]
    OBVIOUS
  <2>2. r \in CandidateRow /\ ~ r.approved
    BY <2>1 DEF CandidateRow
  <2>3. SaveColumns(a, r, {"approved"}) /\ NoLongerStands(a)
    BY <1>2, <1>9, <2>1 DEF WithdrawApproval
  <2> QED
    BY <1>6, <2>2, <2>3 DEF AllColumns
<1>10. CASE SaveDraft(a)
  <2>1. PICK r : r = [q EXCEPT !.case = "drafted", !.approved = FALSE]
    OBVIOUS
  <2>2. r \in CandidateRow /\ ~ r.approved
    BY <2>1 DEF CandidateRow, Cases
  <2>3. SaveColumns(a, r, AllColumns) /\ NoLongerStands(a)
    BY <1>2, <1>10, <2>1 DEF SaveDraft
  <2> QED
    BY <1>6, <2>2, <2>3 DEF AllColumns
<1> QED
  BY <1>4, <1>5, <1>7, <1>8, <1>9, <1>10

\* The observations are written first: the approval is as it was.
LEMMA SightingStep ==
  ASSUME Assessed, NEW a \in Analysts,
         \/ \E xs \in SUBSET Sightings : AttachSightings(a, xs)
         \/ \E x \in Sightings : DetachSighting(a, x)
  PROVE  Assessed'
<1>1. assessing[a] # Idle
  BY DEF AttachSightings, DetachSighting, AtStep
<1>2. PICK c \in Proposed : c = assessing[a].of
  BY <1>1, InHandIs
<1>3. PICK q \in CandidateRow : q = candidate[c] /\ q.exists
  BY <1>1, <1>2, InHandIs
<1>4. PICK xs \in SUBSET Sightings : SaveSightings(a, xs)
  <2>1. \A ys : Attachable(a, ys) \subseteq ys
    BY DEF Attachable
  <2>2. q.seen \in SUBSET Sightings
    BY DEF CandidateRow
  <2> QED
    BY <1>2, <1>3, <2>1, <2>2 DEF AttachSightings, DetachSighting
<1>5. PICK r : r = [q EXCEPT !.seen = xs]
  OBVIOUS
<1>6. r \in CandidateRow /\ r.exists /\ (r.approved <=> candidate[c].approved)
  BY <1>3, <1>5 DEF CandidateRow
<1>7. candidate' = [candidate EXCEPT ![c] = r] /\ UNCHANGED standing
  BY <1>2, <1>3, <1>4, <1>5 DEF SaveSightings, Assessed, CandidateTypes
<1>8. assessing' \in [Analysts -> Assessing \cup {Idle}] /\ GoesOn
  <2>1. CASE Answer(a)
    BY <2>1, AnswerEnds
  <2>2. CASE assessing' = [assessing EXCEPT ![a].act = "changed"]
    <3>1. PICK p : p = [assessing[a] EXCEPT !.act = "changed"]
      OBVIOUS
    <3>2. p \in Assessing /\ p.of = assessing[a].of
      BY <1>1, <3>1 DEF Assessed, CandidateTypes, Assessing
    <3>3. assessing' = [assessing EXCEPT ![a] = p]
      BY <2>2, <3>1 DEF Assessed, CandidateTypes
    <3> QED
      BY <1>1, <3>2, <3>3 DEF Assessed, CandidateTypes, GoesOn
  <2> QED
    BY <1>4, <2>1, <2>2 DEF SaveSightings
<1> QED
  BY <1>1, <1>2, <1>6, <1>7, <1>8, RowWritten

LEMMA ApproveStep ==
  ASSUME Assessed, NEW a \in Analysts, Approve(a) PROVE Assessed'
<1>1. assessing[a] # Idle
  BY DEF Approve, AtStep
<1>2. PICK c \in Proposed : c = assessing[a].of
  BY <1>1, InHandIs
<1>3. PICK q \in CandidateRow : q = candidate[c] /\ q.exists
  BY <1>1, <1>2, InHandIs
<1>4. PICK r : r = [q EXCEPT !.approved = TRUE]
  OBVIOUS
<1>5. r \in CandidateRow /\ r.exists /\ r.approved
  BY <1>3, <1>4 DEF CandidateRow
<1>6. candidate' = [candidate EXCEPT ![c].approved = TRUE] /\ Stands(a) /\ Answer(a)
  BY <1>2 DEF Approve
<1>7. candidate' = [candidate EXCEPT ![c] = r]
  BY <1>3, <1>4, <1>6 DEF Assessed, CandidateTypes
<1> QED
  BY <1>1, <1>2, <1>5, <1>6, <1>7, AnswerEnds, RowWritten

\* The draft begins: the gap check is saved and kept in hand.
LEMMA DraftStep ==
  ASSUME Assessed, NEW a \in Analysts, DraftCase(a) PROVE Assessed'
<1>1. assessing[a] # Idle
  BY DEF DraftCase, AtStep
<1>2. PICK q \in CandidateRow : q = InHand(a)
  BY <1>1, InHandIs
<1>3. assessing \in [Analysts -> Assessing \cup {Idle}] /\ assessing[a] \in Assessing
  BY <1>1 DEF Assessed, CandidateTypes
<1>4. PICK gap \in [checked : BOOLEAN, found : SUBSET Assets] :
         gap = IF q.gap.checked THEN q.gap ELSE GapNow(assessing[a].of)
  BY <1>1, InHandIs, GapIsARow DEF CandidateRow
<1>5. PICK cols : cols = IF q.gap.checked THEN {} ELSE {"gap"}
  OBVIOUS
<1>6. PICK r : r = [q EXCEPT !.gap = gap]
  OBVIOUS
<1>7. r \in CandidateRow
  BY <1>4, <1>6 DEF CandidateRow
<1>8. /\ SaveColumns(a, r, cols) /\ UNCHANGED standing
      /\ assessing' = [assessing EXCEPT ![a].act = "model", ![a].row.gap = gap]
  BY <1>2, <1>4, <1>5, <1>6 DEF DraftCase
<1>9. PICK p : p = [assessing[a] EXCEPT !.act = "model", !.row = r]
  OBVIOUS
<1>10. p \in Assessing /\ p.of = assessing[a].of
  BY <1>3, <1>7, <1>9 DEF Assessing
<1>11. assessing' = [assessing EXCEPT ![a] = p]
  BY <1>2, <1>3, <1>6, <1>8, <1>9 DEF InHand, Assessing
<1>12. assessing' \in [Analysts -> Assessing \cup {Idle}] /\ GoesOn
  BY <1>1, <1>3, <1>10, <1>11 DEF GoesOn
<1>13. cols \in SUBSET AllColumns /\ "approved" \notin cols
  BY <1>5 DEF AllColumns
<1> QED
  BY <1>1, <1>7, <1>8, <1>12, <1>13, ColumnsSaved

LEMMA LeaveStep ==
  ASSUME Assessed, NEW a \in Analysts, LeaveCandidate(a) PROVE Assessed'
<1>1. assessing' \in [Analysts -> Assessing \cup {Idle}] /\ GoesOn
  BY AnswerEnds DEF LeaveCandidate
<1>2. UNCHANGED <<candidate, standing>>
  BY DEF LeaveCandidate
<1> QED
  BY <1>1, <1>2 DEF GoesOn, Assessed, CandidateTypes, InHandExists, StandsAsDecided, Approved

LEMMA AssessmentStep ==
  Assessed /\ [AssessmentNext]_<<profileVars, candidateVars>> => Assessed'
<1> SUFFICES ASSUME Assessed, [AssessmentNext]_<<profileVars, candidateVars>>
             PROVE  Assessed'
  OBVIOUS
<1>1. ASSUME UNCHANGED candidateVars PROVE Assessed'
  BY <1>1 DEF candidateVars, Assessed, CandidateTypes, InHandExists, StandsAsDecided, Approved
<1>2. ASSUME NEW a \in Analysts, Page(a) PROVE Assessed'
  BY <1>2, LoadStep, SaveColumnStep, SightingStep, ApproveStep, DraftStep, LeaveStep DEF Page
<1> QED
  BY <1>1, <1>2, CreateStep DEF AssessmentNext, CandidatesNext

\* For any candidates, requests that overlap or end between two writes, and
\* profiles: a candidate is approved exactly while nothing that takes an
\* approval back was saved since the last approve() (scoring/opportunities.py,
\* _unapprove); in particular what a model drafted, saved over whatever was
\* there, is not approved until a person says so after it.
THEOREM ApprovalIsDecided == AssessmentSpec => []ApprovalStands
<1>1. Assessed => ApprovalStands
  <2> SUFFICES ASSUME Assessed PROVE ApprovalStands
    OBVIOUS
  <2>1. standing \subseteq Proposed /\ \A c \in Proposed : Approved(candidate[c]) <=> c \in standing
    BY DEF Assessed, CandidateTypes, StandsAsDecided
  <2> QED
    BY <2>1 DEF ApprovalStands, Candidates, Approved
<1> QED
  BY <1>1, CandidatesBegin, AssessmentStep, PTL DEF AssessmentSpec

=============================================================================
