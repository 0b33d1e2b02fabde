-------------------------------- MODULE Signals --------------------------------
(***************************************************************************)
(* Signals: developments detected in the claims of several conversations,  *)
(* and what operators decide about them (apps/intelligence).               *)
(*                                                                         *)
(* A detection run reads the open signals, waits on a model, attaches what *)
(* it proposed, and then rescores every open signal one save at a time. An *)
(* operator's request loads a signal and moves or merges it.  Each works   *)
(* on the rows it loaded: nothing is locked.  What is one conversation is  *)
(* a matter of the day: an item may be marked a duplicate, or be let go    *)
(* again, before or after a detection counted it.                          *)
(***************************************************************************)
EXTENDS Naturals, FiniteSets

CONSTANTS
    Claims,          \* unsponsored claims inside the window of five weeks
    ContentItems,    \* the items the claims are of
    ItemOf,          \* the item each claim is of
    WeekOf,          \* the week an item, or an observation, is of
    Observations,    \* entered by hand
    References,      \* those of a catalogue or a study: nobody discussing
    EventOf,         \* their independence key; those of one event are one voice
    Operators,       \* operators' requests
    Detectors,       \* detection runs: the worker's, and "detect now"
    MaxSignals       \* bound: rows

ASSUME SignalsAssumption ==
    /\ ItemOf \in [Claims -> ContentItems] /\ DOMAIN WeekOf = ContentItems \cup Observations
    /\ DOMAIN EventOf = Observations /\ References \subseteq Observations
    /\ IsFiniteSet(Claims) /\ IsFiniteSet(ContentItems) /\ IsFiniteSet(Observations)
    /\ MaxSignals \in Nat \ {0}

VARIABLES
    signal,    \* the table of signals
    evidence,  \* SignalEvidence: the role of each claim, or NoRole
    attached,  \* SignalObservation: the role of each observation, or NoRole
    review,    \* what each request has loaded
    merged,    \* history: where a signal went, and the claims it had
    original   \* the item a confirmed duplicate is marked as, else the item itself

signalVars == <<signal, evidence, attached, review, merged, original>>

-----------------------------------------------------------------------------
Codes == 1 .. MaxSignals
SignalStates == {"candidate", "in review", "watching", "approved", "rejected"}
OpenStates == SignalStates \ {"rejected"}
Maturities == {"watch", "recurring", "measured_trend"}
Roles == {"supports", "contradicts"}
NoRole == "none"

\* ContentItem.canonical: along the marks to an item that has none, or to the
\* first one met again.
Canonical(marks, i) ==
    LET Walk[n \in 0 .. Cardinality(ContentItems)] ==
          IF n = 0 THEN [at |-> i, seen |-> {}]
          ELSE LET last == Walk[n - 1]
               IN  IF marks[last.at] # last.at /\ last.at \notin last.seen
                   THEN [at |-> marks[last.at], seen |-> last.seen \cup {last.at}]
                   ELSE last
    IN  Walk[Cardinality(ContentItems)].at
Unmarked == [i \in ContentItems |-> i]

\* "marks" is history: the marks as the detection of a signal read them.
NoSignal == [state |-> "absent", awaiting |-> FALSE, origin |-> "detected",
             maturity |-> "watch", items |-> 0, marks |-> Unmarked]
SignalRow == [state : SignalStates, awaiting : BOOLEAN,
              origin : {"detected", "analyst"}, maturity : Maturities,
              items : 0 .. Cardinality(Claims) + Cardinality(Observations),
             marks : [ContentItems -> ContentItems]]

\* What a request loaded: "seen", the states of rows; "marks", those of the
\* items of a batch.
Review == [act : {"move", "merge", "model", "applied", "ended", "rescoring"},
           at : Codes, into : Codes,
           seen : [Codes -> SignalStates \cup {"absent"}], left : SUBSET Codes,
           marks : [ContentItems -> ContentItems]]
NoReview == [act |-> "none"]

Exists(s) == signal[s].state # "absent"
OpenSignals == {s \in Codes : signal[s].state \in OpenStates}
ItemsOf(cs) == {ItemOf[c] : c \in cs}
CountedBy(marks, cs) == {Canonical(marks, i) : i \in ItemsOf(cs)}
Conversations(cs) == CountedBy(original, cs)
Weeks(xs) == {WeekOf[x] : x \in xs}
ClaimsOf(s, role) == {c \in Claims : evidence[s][c] = role}
Held(s) == {c \in Claims : evidence[s][c] # NoRole}
Requests == Operators \cup Detectors
NextCode == 1 + Cardinality({s \in Codes : Exists(s)})

Doing(o, act) == review[o] # NoReview /\ review[o].act = act
Loaded(act, s, into, rows) ==
    [act |-> act, at |-> s, into |-> into, left |-> {}, marks |-> Unmarked,
     seen |-> [t \in Codes |-> IF t \in rows THEN signal[t].state ELSE "absent"]]
Close(o) == review' = [review EXCEPT ![o] = NoReview]

-----------------------------------------------------------------------------
(* An operator's decisions: review.py.                                     *)

Transitions ==
    [candidate |-> {"in review", "approved", "watching", "rejected"},
     watching  |-> {"in review", "approved", "rejected"},
     approved  |-> {"in review"},
     rejected  |-> {"candidate"}]
Allowed(state) == IF state = "in review" THEN {"approved", "watching", "rejected"}
                                         ELSE Transitions[state]

\* components.score as it decides what a signal may be called: only measured,
\* rising momentum is a trend, and its measurement depends on the coverage of
\* the whole collection (module Scores).
MaturityOf(cs, rising) ==
    IF rising THEN "measured_trend"
    ELSE IF Cardinality(Weeks(Conversations(cs))) >= 2 THEN "recurring" ELSE "watch"

\* rescore(): computed from the evidence rows of the moment, which are claims
\* only; the flag comes from the state of the object in hand.
Rescored(row, cs, seenState, rising) ==
    [row EXCEPT !.items = Cardinality(Conversations(cs)),
                !.maturity = MaturityOf(cs, rising),
                !.awaiting = seenState = "candidate"]

LoadMove(o, s) ==
    /\ review[o] = NoReview /\ Exists(s)
    /\ review' = [review EXCEPT ![o] = Loaded("move", s, s, {s})]
    /\ UNCHANGED <<signal, evidence, attached, merged, original>>

CommitMove(o, to) ==
    /\ Doing(o, "move")
    /\ LET s == review[o].at IN
         /\ to \in Allowed(review[o].seen[s])
         /\ signal' = [signal EXCEPT ![s].state = to,
                                     ![s].awaiting = to = "candidate"]
    /\ Close(o)
    /\ UNCHANGED <<evidence, attached, merged, original>>

LoadMerge(o, s, into) ==
    /\ review[o] = NoReview /\ Exists(s) /\ Exists(into) /\ s # into
    /\ review' = [review EXCEPT ![o] = Loaded("merge", s, into, {s, into})]
    /\ UNCHANGED <<signal, evidence, attached, merged, original>>

\* Mutant of Folded: only what supports a development moves with it.
FoldedSupport(s, into) ==
    [c \in Claims |-> IF c \in Held(into) THEN evidence[into][c]
                      ELSE IF evidence[s][c] = "supports" THEN "supports" ELSE NoRole]

\* The claims of s that the other does not hold yet; a claim it holds keeps
\* its role there.
Folded(s, into) ==
    [c \in Claims |-> IF c \in Held(into) THEN evidence[into][c] ELSE evidence[s][c]]

CommitMerge(o, rising) ==
    /\ Doing(o, "merge")
    /\ LET s == review[o].at
           into == review[o].into
           support == {c \in Claims : Folded(s, into)[c] = "supports"}
       IN
         /\ review[o].seen[into] # "rejected"
         /\ "rejected" \in Allowed(review[o].seen[s])
         /\ rising => support # {}
         /\ evidence' = [evidence EXCEPT ![into] = Folded(s, into)]
         /\ signal' = [signal EXCEPT
                ![s].state = "rejected", ![s].awaiting = FALSE,
                ![into] = Rescored(@, support, review[o].seen[into], rising)]
         /\ merged' = [merged EXCEPT ![s] = [into |-> into, claims |-> Held(s)]]
    /\ Close(o)
    /\ UNCHANGED <<attached, original>>

\* A refusal, or a form that is never sent.
LeaveReview(o) ==
    /\ Doing(o, "move") \/ Doing(o, "merge")
    /\ Close(o)
    /\ UNCHANGED <<signal, evidence, attached, merged, original>>

-----------------------------------------------------------------------------
(* Evidence entered by hand.                                               *)

Attach(s, os, role) ==
    /\ Exists(s) /\ \E x \in os : attached[s][x] = NoRole
    /\ attached' = [attached EXCEPT ![s] =
           [x \in Observations |-> IF x \in os /\ @[x] = NoRole THEN role ELSE @[x]]]
    /\ UNCHANGED <<signal, evidence, review, merged, original>>

Detach(s, x) ==
    /\ Exists(s) /\ attached[s][x] # NoRole
    /\ attached' = [attached EXCEPT ![s][x] = NoRole]
    /\ UNCHANGED <<signal, evidence, review, merged, original>>

\* "Its status is earned from the observations": independent events, and the
\* weeks they are of.  One observation stands for each event.
Events(os) == {EventOf[x] : x \in os \ References}
Earned(os) ==
    IF Cardinality(Events(os)) >= 2 /\ Cardinality(Weeks(os \ References)) >= 2
    THEN "recurring" ELSE "watch"

StartFromObservations(os) ==
    /\ NextCode \in Codes /\ os # {}
    /\ signal' = [signal EXCEPT ![NextCode] =
           [NoSignal EXCEPT !.state = "candidate", !.origin = "analyst",
                            !.maturity = Earned(os),
                            !.items = Cardinality(Events(os))]]
    /\ attached' = [attached EXCEPT ![NextCode] =
           [x \in Observations |-> IF x \in os THEN "supports" ELSE NoRole]]
    /\ UNCHANGED <<evidence, review, merged, original>>

-----------------------------------------------------------------------------
(* A detection run: detection.detect, one batch of claims after another,   *)
(* with one proposed development per batch.                                *)

\* The claims of the batch, with what their items count under, and the open
\* signals are read before the call.  A batch that holds fewer than two
\* conversations ends the batches and leaves the rescoring.
DetectLoad(o) ==
    /\ review[o] = NoReview \/ Doing(o, "applied")
    /\ review' = [review EXCEPT ![o] =
           [Loaded("model", 1, 1, OpenSignals) EXCEPT !.marks = original]]
    /\ UNCHANGED <<signal, evidence, attached, merged, original>>

DetectThin(o) ==
    /\ review[o] = NoReview \/ Doing(o, "applied")
    /\ review' = [review EXCEPT ![o] = Loaded("ended", 1, 1, {})]
    /\ UNCHANGED <<signal, evidence, attached, merged, original>>

\* The cap is reached, the model is down, or its answer is not one.
DetectSkipped(o) ==
    /\ Doing(o, "model")
    /\ review' = [review EXCEPT ![o] = Loaded("ended", 1, 1, {})]
    /\ UNCHANGED <<signal, evidence, attached, merged, original>>

SeenOpen(o) == {s \in Codes : review[o].seen[s] \in OpenStates}

\* _already_open: the loaded signal that holds at least half of a proposal's
\* claims as support, counted in the rows of the moment.
Shared(s, cs) == Cardinality(cs \cap ClaimsOf(s, "supports"))
AlreadyOpen(o, cs) ==
    {s \in SeenOpen(o) :
        /\ Shared(s, cs) > 0 /\ 2 * Shared(s, cs) >= Cardinality(cs)
        /\ \A t \in SeenOpen(o) \ {s} :
              Shared(s, cs) > Shared(t, cs) \/ (Shared(s, cs) = Shared(t, cs) /\ s < t)}

\* A code that was not open when the run began is no code.
Continues(o, extends, cs) ==
    IF extends \in SeenOpen(o) THEN {extends} ELSE AlreadyOpen(o, cs)

\* Mutant of CrossSource: any proposal with a claim in it is taken.
AnySource(o, cs) == cs # {}
CrossSource(o, cs) == Cardinality(CountedBy(review[o].marks, cs)) >= 2

\* get_or_create for every claim proposed: a claim already held keeps its role.
Supported(s, cs, against) ==
    [c \in Claims |-> IF evidence[s][c] # NoRole THEN evidence[s][c]
                      ELSE IF c \in cs THEN "supports"
                      ELSE IF c \in against THEN "contradicts" ELSE NoRole]

\* _apply.  The statement it may rewrite is left out.
DetectApply(o, extends, cs, against) ==
    /\ Doing(o, "model")
    /\ against \subseteq Claims \ cs
    /\ CrossSource(o, cs)
    /\ LET known == Continues(o, extends, cs)
           s == IF known = {} THEN NextCode ELSE CHOOSE k \in known : TRUE
       IN
         /\ s \in Codes
         /\ evidence' = [evidence EXCEPT ![s] = Supported(s, cs, against)]
         /\ signal' = IF known = {}
                      THEN [signal EXCEPT ![s] = [NoSignal EXCEPT
                               !.state = "candidate", !.marks = review[o].marks]]
                      ELSE signal
    /\ review' = [review EXCEPT ![o] = Loaded("applied", 1, 1, {})]
    /\ UNCHANGED <<attached, merged, original>>

\* Nothing cross-source was proposed.
DetectNothing(o) ==
    /\ Doing(o, "model")
    /\ review' = [review EXCEPT ![o] = Loaded("applied", 1, 1, {})]
    /\ UNCHANGED <<signal, evidence, attached, merged, original>>

\* A signal that was not there when the run began took the next code between
\* its count and its insert: the batch is rolled back and the run ends
\* unrescored.
CodeTaken(o) ==
    /\ Doing(o, "model")
    /\ \E s \in Codes : Exists(s) /\ review[o].seen[s] = "absent"
    /\ Close(o)
    /\ UNCHANGED <<signal, evidence, attached, merged, original>>

\* rescore_open loads all open signals and saves them one by one.
RescoreLoad(o) ==
    /\ Doing(o, "applied") \/ Doing(o, "ended")
    /\ review' = [review EXCEPT ![o] =
           IF OpenSignals = {} THEN NoReview
           ELSE [Loaded("rescoring", 1, 1, OpenSignals) EXCEPT !.left = OpenSignals]]
    /\ UNCHANGED <<signal, evidence, attached, merged, original>>

RescoreOne(o, s, rising) ==
    /\ Doing(o, "rescoring") /\ s \in review[o].left
    /\ rising => ClaimsOf(s, "supports") # {}
    /\ signal' = [signal EXCEPT ![s] =
           Rescored(@, ClaimsOf(s, "supports"), review[o].seen[s], rising)]
    /\ review' = [review EXCEPT ![o] =
           IF review[o].left = {s} THEN NoReview
           ELSE [review[o] EXCEPT !.left = review[o].left \ {s}]]
    /\ UNCHANGED <<evidence, attached, merged, original>>

-----------------------------------------------------------------------------
\* A check for duplicates marks an item and moves to it what counted under
\* that one, or takes back the mark of an item it read before that was made
\* (kept = the item itself).  Which may be marked is the matter of module
\* Duplicates; no signal is rescored.
MarkDuplicates(items, kept) ==
    /\ original' = [i \in ContentItems |-> IF i \in items THEN kept ELSE original[i]]
    /\ UNCHANGED <<signal, evidence, attached, review, merged>>

-----------------------------------------------------------------------------
NowhereElse == [into |-> 0, claims |-> {}]

SignalsInit ==
    /\ signal = [s \in Codes |-> NoSignal]
    /\ evidence = [s \in Codes |-> [c \in Claims |-> NoRole]]
    /\ attached = [s \in Codes |-> [x \in Observations |-> NoRole]]
    /\ review = [o \in Requests |-> NoReview]
    /\ merged = [s \in Codes |-> NowhereElse]
    /\ original = Unmarked

Deciding(o) ==
    \/ \E s \in Codes : LoadMove(o, s)
    \/ \E to \in SignalStates : CommitMove(o, to)
    \/ \E s, into \in Codes : LoadMerge(o, s, into)
    \/ \E rising \in BOOLEAN : CommitMerge(o, rising)
    \/ LeaveReview(o)

Detecting(o) ==
    \/ DetectLoad(o)
    \/ DetectThin(o)
    \/ DetectSkipped(o)
    \/ \E extends \in Codes, cs, against \in SUBSET Claims :
           DetectApply(o, extends, cs, against)
    \/ DetectNothing(o)
    \/ CodeTaken(o)
    \/ RescoreLoad(o)
    \/ \E s \in Codes, rising \in BOOLEAN : RescoreOne(o, s, rising)

Entering ==
    \/ \E s \in Codes, os \in SUBSET Observations, role \in Roles : Attach(s, os, role)
    \/ \E s \in Codes, x \in Observations : Detach(s, x)
    \/ \E os \in SUBSET Observations : StartFromObservations(os)

SignalsNext ==
    \/ Entering
    \/ \E o \in Operators : Deciding(o)
    \/ \E o \in Detectors : Detecting(o)
    \/ \E items \in SUBSET ContentItems, kept \in ContentItems : MarkDuplicates(items, kept)

SignalsSpec == SignalsInit /\ [][SignalsNext]_signalVars

=============================================================================
