------------------------------ MODULE EvidenceMC ------------------------------
(***************************************************************************)
(* Instances of Collection, Ladder, Transcripts, Duplicates and CostGuard. *)
(* They share no state, so each behaviour follows one of them, its focus,  *)
(* and the others rest: the state spaces add up instead of multiplying.    *)
(***************************************************************************)
EXTENDS CollectionProps, TranscriptsProps, DuplicatesProps, CostGuard, Ladder, TLC

CONSTANTS feed, stream, forum, post1, post2, nopost, b1, b2, i1, i2, i3, w1, w2, c1, c2, c3

VARIABLE focus

\* An episode, an upload of it that was cut short, a clip, another upload as
\* long as the cut one with an ending of its own, and something unrelated.
SomeTexts == {1 .. 6, 1 .. 4, {2, 3, 4}, {1, 2, 3, 7}, {6, 7, 8}}
SomePairs == {{i1, i2}}

SomeBasesFor == [s \in {feed, stream} |-> IF s = feed THEN {b1} ELSE {b1, b2}]
TwoStreams == [s \in {forum, stream} |-> {b2}]
Sent(post, wording) == [post |-> post, wording |-> wording]
SomeAnswers == {<<>>, <<Sent(post1, "w1")>>,
                <<Sent(post1, "w2"), Sent(nopost, "w1"), Sent(post2, "w1")>>}

SomeCues == {<<"a">>, <<"a", "b">>, <<"b", " ", "a">>, <<"a", ".">>,
             <<"b", ".", " ", "a", "b">>}

\* Polling begins after two runs that found nothing: of the one source, which
\* cost nothing, or of the other, when two processes saw the whole cap.
Other == CHOOSE s \in Sources : s # stream
Ran(s) ==
    LET calls == IF s = stream THEN PollCalls ELSE 0 IN
    [source |-> s, status |-> "succeeded", blocking |-> FALSE, collected |-> 0, created |-> 0,
     seen |-> 0, cost |-> calls, made |-> calls, basis |-> source[s].basis, covered |-> TRUE,
     blank |-> 0]
Polled(there, s) ==
    /\ source = [x \in Sources |-> IF x \in there
                    THEN [status |-> "active", basis |-> IF x \in OnVirlo THEN b2 ELSE b1]
                    ELSE NoSource]
    /\ wish = source /\ due = (IF there = Sources THEN there ELSE {}) /\ live = Bases /\ waiting = {}
    /\ run = <<Ran(s), Ran(s)>> /\ screened = <<{}, {}>> /\ row = {}
    /\ poll = [w \in Collectors |-> Free] /\ faults = 0
    /\ texts = 0 /\ reading = {} /\ unseen = 0

\* Two collectors and a reader.
Polls == Tick \/ (\E w \in Collectors : Polling(w)) \/ \E x \in Readers : Reading(x)

\* One collector, and an operator who manages one source.
OnePoller == Polling(CHOOSE w \in Collectors : TRUE)
Managed == Tick \/ Managing(stream) \/ Withdraw(b2) \/ OnePoller

\* An operator who saves the policies of a source with a history.
Moved == Tick \/ (\E b \in Bases : SaveSource(stream, b)) \/ Elapse(stream) \/ OnePoller

\* The ladder of another item, while it is not walked.
NoLadder ==
    /\ item = [route |-> "podcast", facts |-> {}]
    /\ health = [v \in Vendors |-> "works"] /\ content = "discovered" /\ transcript = ""
    /\ walk = [w \in Walkers |-> NoWalk] /\ trail = <<>> /\ walks = 0 /\ turns = 0

MCInit ==
    /\ focus \in {"polls", "screen", "moved", "ladder", "transcript", "duplicates", "cost"}
    /\ CASE focus = "polls"  -> Polled(Sources, Other)
         [] focus = "screen" -> Polled({Other}, Other)
         [] focus = "moved"  -> Polled(Sources, stream)
         [] OTHER            -> CollectionInit
    /\ TranscriptsInit /\ Init /\ CostInit
    /\ IF focus = "ladder" THEN LadderInit ELSE NoLadder

MCNext ==
    /\ UNCHANGED focus
    /\ \/ /\ focus = "polls" /\ Polls
          /\ UNCHANGED <<ladderVars, cues, vars, costVars>>
       \/ /\ focus = "screen" /\ Managed
          /\ UNCHANGED <<ladderVars, cues, vars, costVars>>
       \/ /\ focus = "moved" /\ Moved
          /\ UNCHANGED <<ladderVars, cues, vars, costVars>>
       \/ /\ focus = "ladder" /\ LadderNext
          /\ UNCHANGED <<collectionVars, cues, vars, costVars>>
       \/ /\ focus = "transcript" /\ Speaking
          /\ UNCHANGED <<collectionVars, ladderVars, vars, costVars>>
       \/ /\ focus = "duplicates" /\ Next
          /\ UNCHANGED <<collectionVars, ladderVars, cues, costVars>>
       \/ /\ focus = "cost" /\ CostNext
          /\ UNCHANGED <<collectionVars, ladderVars, cues, vars>>

MCSpec == MCInit /\ [][MCNext]_<<focus, collectionVars, ladderVars, cues, vars, costVars>>

SomeSymmetry == Permutations({w1, w2}) \cup Permutations({c1, c2, c3})

=============================================================================
