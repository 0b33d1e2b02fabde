--------------------------- MODULE TranscriptProofs ---------------------------
(***************************************************************************)
(* Proofs about an item's transcript: how it is come by, and which items   *)
(* are one conversation by it.                                             *)
(*                                                                         *)
(* Where an item ends on its ladder has a reason in its last walk, for any *)
(* number of walkers, of walks and of changes at the vendors.              *)
(*                                                                         *)
(* A transcript never changes once it is stored, so what a check found of  *)
(* two items stays true while others mark and re-point.  Along a chain the *)
(* transcripts never get shorter; a chain that returns to an item has one  *)
(* length all the way round, and the two are tied.                         *)
(*                                                                         *)
(* Of what is spoken, in any number of pieces, anchors stay in order and   *)
(* at words; so the search among them finds what it looks for, and every   *)
(* letter is in one segment, one batch and one question.                   *)
(***************************************************************************)
EXTENDS DuplicatesProps, Ladder, TranscriptsProps, Inductions

(* The ladder.                                                             *)

\* An answer that says something of the item says what is true of it.
Honest(rung, answer) ==
    /\ answer = "text" => CanServe(rung)
    /\ answer = "never" => ~ CanServe(rung)

\* The answers of a walk are one for each rung from the first, and honest; a
\* text is the last of them.
WalkOK(answers) ==
    /\ answers \in Seq(Said) /\ Len(answers) <= Len(Chain)
    /\ \A n \in DOMAIN answers : Honest(Chain[n], answers[n])
    /\ \A n \in DOMAIN answers : answers[n] = "text" => n = Len(answers)

WalksInv ==
    /\ item.route \in DOMAIN Chains
    /\ walk \in [Walkers -> [step : {"none", "walking"}, answers : Seq(Said)]]
    /\ \A w \in Walkers : WalkOK(walk[w].answers)
    /\ RouteIsExplained

-----------------------------------------------------------------------------
Rungs == {"publisher_transcript", "taddy", "assemblyai", "manual", "creator_captions",
          "apify_subtitles", "supadata", "virlo_transcript", "caption_comments"}

LEMMA ChainIsSeq == ASSUME item.route \in DOMAIN Chains PROVE Chain \in Seq(Rungs)
<1>1. DOMAIN Chains = {"podcast", "youtube", "social"}
  BY DEF Chains
<1>2. <<"publisher_transcript", "taddy", "assemblyai", "manual">> \in Seq(Rungs)
  BY DEF Rungs
<1>3. <<"creator_captions", "apify_subtitles", "supadata", "manual">> \in Seq(Rungs)
  BY DEF Rungs
<1>4. <<"virlo_transcript", "caption_comments">> \in Seq(Rungs)
  BY DEF Rungs
<1>5. CASE item.route = "podcast"
  <2>1. Chain = <<"publisher_transcript", "taddy", "assemblyai", "manual">>
    BY <1>5 DEF Chain, Chains
  <2> QED
    BY <1>2, <2>1
<1>6. CASE item.route = "youtube"
  <2>1. Chain = <<"creator_captions", "apify_subtitles", "supadata", "manual">>
    BY <1>6 DEF Chain, Chains
  <2> QED
    BY <1>3, <2>1
<1>7. CASE item.route = "social"
  <2>1. Chain = <<"virlo_transcript", "caption_comments">>
    BY <1>7 DEF Chain, Chains
  <2> QED
    BY <1>4, <2>1
<1> QED
  BY <1>1, <1>5, <1>6, <1>7

\* What a vendor is asked is answered honestly, or not at all.
LEMMA HeardHonest == ASSUME NEW rung PROVE Heard(rung) \in Said /\ Honest(rung, Heard(rung))
BY DEF Heard, Honest, Said

LEMMA CalledHonest ==
  ASSUME NEW rung, NEW answer \in Called(rung) PROVE answer \in Said /\ Honest(rung, answer)
<1>1. CASE TooDear(rung)
  <2>1. answer = "never"
    BY <1>1 DEF Called
  <2>2. ~ CanServe(rung)
    BY <1>1 DEF CanServe, Needs, TooDear
  <2> QED
    BY <2>1, <2>2 DEF Honest, Said
<1>2. CASE ~ TooDear(rung)
  <2>1. answer = "broke" \/ answer = Heard(rung)
    BY <1>2 DEF Called
  <2>2. CASE answer = "broke"
    BY <2>2 DEF Honest, Said
  <2>3. CASE answer = Heard(rung)
    BY <2>3, HeardHonest
  <2> QED
    BY <2>1, <2>2, <2>3
<1> QED
  BY <1>1, <1>2

LEMMA GatheredHonest ==
  ASSUME NEW answer \in Gathered PROVE answer \in Said /\ Honest("caption_comments", answer)
<1> DEFINE heard == Heard("caption_comments")
           alone == IF "caption" \in item.facts THEN "text" ELSE "unheard"
<1>1. answer = heard \/ answer = alone
  BY DEF Gathered
<1>2. "caption" \in item.facts => CanServe("caption_comments")
  BY DEF CanServe
<1>3. heard \in Said /\ Honest("caption_comments", heard)
  BY HeardHonest
<1>4. alone \in Said /\ Honest("caption_comments", alone)
  BY <1>2 DEF Honest, Said
<1> QED
  BY <1>1, <1>3, <1>4

\* What is known without a call is true: an address, a platform, a rung built.
LEMMA PointlessHonest == ASSUME NEW rung, Pointless(rung) PROVE ~ CanServe(rung)
<1>1. CASE ~ Built(rung)
  BY <1>1 DEF Built, VendorOf, CanServe, Needs
<1>2. CASE rung = "apify_subtitles" /\ "url" \notin item.facts
  BY <1>2 DEF CanServe, Needs
<1>3. CASE rung = "assemblyai" /\ "url" \notin item.facts
  BY <1>3 DEF CanServe, Needs
<1>4. CASE rung = "virlo_transcript" /\ "tiktok" \notin item.facts
  BY <1>4 DEF CanServe, Needs
<1> QED
  BY <1>1, <1>2, <1>3, <1>4 DEF Pointless

LEMMA SaysHonest ==
  ASSUME NEW rung, NEW answer \in Says(rung) PROVE answer \in Said /\ Honest(rung, answer)
<1>1. CASE Pointless(rung)
  <2>1. answer = "never"
    BY <1>1 DEF Says
  <2> QED
    BY <1>1, <2>1, PointlessHonest DEF Honest, Said
<1>2. CASE ~ Pointless(rung) /\ rung = "caption_comments"
  <2>1. answer \in Gathered
    BY <1>2 DEF Says
  <2> QED
    BY <1>2, <2>1, GatheredHonest
<1>3. CASE ~ Pointless(rung) /\ rung # "caption_comments"
  <2> DEFINE how == health[VendorOf[rung]]
  <2>1. Says(rung) = CASE how = "unset" -> {NotConfigured}
                       [] how = "refusing" -> {"unheard"}
                       [] OTHER -> Called(rung)
    BY <1>3 DEF Says, Refuses, Unset
  <2>2. CASE how = "unset"
    <3>1. answer = "broke"
      BY <2>1, <2>2 DEF NotConfigured
    <3> QED
      BY <3>1 DEF Honest, Said
  <2>3. CASE how = "refusing"
    <3>1. answer = "unheard"
      BY <2>1, <2>3
    <3> QED
      BY <3>1 DEF Honest, Said
  <2>4. CASE how # "unset" /\ how # "refusing"
    <3>1. answer \in Called(rung)
      BY <2>1, <2>4
    <3> QED
      BY <3>1, CalledHonest
  <2> QED
    BY <2>2, <2>3, <2>4
<1> QED
  BY <1>1, <1>2, <1>3

-----------------------------------------------------------------------------
LEMMA WalksBegin == LadderInit => WalksInv
<1> SUFFICES ASSUME LadderInit PROVE WalksInv
  OBVIOUS
<1>1. item.route \in DOMAIN Chains
  BY DEF LadderInit
<1>2. NoWalk \in [step : {"none", "walking"}, answers : Seq(Said)] /\ NoWalk.answers = <<>>
  BY DEF NoWalk
<1>3. WalkOK(<<>>)
  BY <1>1, ChainIsSeq DEF WalkOK
<1> QED
  BY <1>1, <1>2, <1>3 DEF LadderInit, WalksInv, RouteIsExplained

\* A walk that ends, or is lost, leaves the walker as it began.
LEMMA Ended ==
  ASSUME WalksInv, NEW w \in Walkers, walk' = [walk EXCEPT ![w] = NoWalk], UNCHANGED item,
         RouteIsExplained'
  PROVE  WalksInv'
<1>1. NoWalk \in [step : {"none", "walking"}, answers : Seq(Said)] /\ NoWalk.answers = <<>>
  BY DEF NoWalk
<1>2. WalkOK(<<>>)
  BY ChainIsSeq DEF WalkOK, WalksInv
<1>3. \A v \in Walkers : WalkOK(walk'[v].answers)
  BY <1>1, <1>2 DEF WalksInv
<1>4. \A v \in Walkers : WalkOK(walk[v].answers)'
  BY <1>3 DEF WalkOK, Honest, CanServe, Chain
<1> QED
  BY <1>1, <1>4 DEF WalksInv

LEMMA BeginHolds == ASSUME WalksInv, NEW w \in Walkers, Begin(w) PROVE WalksInv'
<1>1. walk' = [walk EXCEPT ![w].step = "walking"] /\ UNCHANGED <<item, content, transcript, trail>>
  BY DEF Begin
<1>2. /\ walk' \in [Walkers -> [step : {"none", "walking"}, answers : Seq(Said)]]
      /\ \A v \in Walkers : walk'[v].answers = walk[v].answers
  BY <1>1 DEF WalksInv
<1>3. \A v \in Walkers : WalkOK(walk[v].answers)'
  BY <1>1, <1>2 DEF WalksInv, WalkOK, Honest, CanServe, Chain
<1>4. RouteIsExplained'
  BY <1>1 DEF WalksInv, RouteIsExplained, CanServe, Chain
<1> QED
  BY <1>1, <1>2, <1>3, <1>4 DEF WalksInv

LEMMA TryHolds == ASSUME WalksInv, NEW w \in Walkers, Try(w) PROVE WalksInv'
<1>1. PICK answer \in Says(Rung(w)) : walk' = [walk EXCEPT ![w].answers = Append(@, answer)]
  BY DEF Try
<1> DEFINE old == walk[w].answers
           new == Append(old, answer)
<1>2. /\ old \in Seq(Said) /\ Len(old) < Len(Chain) /\ WalkOK(old) /\ Chain \in Seq(Rungs)
      /\ \A n \in DOMAIN old : old[n] # "text"
  BY ChainIsSeq DEF WalksInv, Try, HasText
<1>3. answer \in Said /\ Honest(Chain[Len(old) + 1], answer)
  BY SaysHonest DEF Rung
<1>4. WalkOK(new)
  <2>1. new \in Seq(Said) /\ Len(new) = Len(old) + 1
    BY <1>2, <1>3
  <2>2. \A n \in DOMAIN new : IF n = Len(old) + 1 THEN new[n] = answer
                              ELSE n \in DOMAIN old /\ new[n] = old[n]
    BY <1>2, <1>3
  <2> QED
    BY <1>2, <1>3, <2>1, <2>2 DEF WalkOK
<1> HIDE DEF new
<1>5. /\ walk' \in [Walkers -> [step : {"none", "walking"}, answers : Seq(Said)]]
      /\ walk'[w].answers = new
      /\ \A v \in Walkers : v # w => walk'[v] = walk[v]
  BY <1>1, <1>4 DEF WalksInv, WalkOK, new
<1>6. \A v \in Walkers : WalkOK(walk'[v].answers)
  BY <1>4, <1>5 DEF WalksInv
<1>7. UNCHANGED <<item, content, transcript, trail>>
  BY DEF Try
<1>8. \A v \in Walkers : WalkOK(walk[v].answers)'
  BY <1>6, <1>7 DEF WalkOK, Honest, CanServe, Chain
<1>9. RouteIsExplained'
  BY <1>7 DEF WalksInv, RouteIsExplained, CanServe, Chain
<1> QED
  BY <1>5, <1>7, <1>8, <1>9 DEF WalksInv

LEMMA StoreHolds == ASSUME WalksInv, NEW w \in Walkers, StoreText(w) PROVE WalksInv'
<1> DEFINE said == walk[w].answers
<1>1. /\ walk' = [walk EXCEPT ![w] = NoWalk] /\ item' = item
      /\ said \in Seq(Said) /\ Len(said) <= Len(Chain) /\ Chain \in Seq(Rungs)
      /\ WalkOK(said)
  BY ChainIsSeq DEF StoreText, WalksInv, WalkOK
<1>2. CASE transcript = ""
  <2>1. transcript' = Chain[Len(said)] /\ content' = "transcribed" /\ trail' = said
    BY <1>2 DEF StoreText
  <2>2. PICK n \in DOMAIN said : said[n] = "text"
    BY DEF StoreText, HasText
  <2>3. n = Len(said) /\ CanServe(Chain[n])
    BY <1>1, <2>2 DEF WalkOK, Honest
  <2>4. \A k \in 1 .. Len(said) - 1 : CanServe(Chain[k]) => said[k] \in {"broke", "unheard"}
    <3> SUFFICES ASSUME NEW k \in 1 .. Len(said) - 1, CanServe(Chain[k])
                 PROVE  said[k] \in {"broke", "unheard"}
      OBVIOUS
    <3>1. k \in DOMAIN said /\ k # Len(said) /\ said[k] \in Said
      BY <1>1
    <3>2. said[k] # "text" /\ said[k] # "never"
      BY <1>1, <3>1 DEF WalkOK, Honest
    <3> QED
      BY <3>1, <3>2 DEF Said
  <2>5. RouteIsExplained'
    BY <1>1, <2>1, <2>3, <2>4 DEF RouteIsExplained, CanServe, Chain
  <2> QED
    BY <1>1, <2>5, Ended
<1>3. CASE transcript # ""
  <2>1. UNCHANGED <<content, transcript, trail>>
    BY <1>3 DEF StoreText
  <2>2. RouteIsExplained'
    BY <1>1, <2>1 DEF WalksInv, RouteIsExplained, CanServe, Chain
  <2> QED
    BY <1>1, <2>2, Ended
<1> QED
  BY <1>2, <1>3

LEMMA GiveUpHolds == ASSUME WalksInv, NEW w \in Walkers, GiveUp(w) PROVE WalksInv'
<1> DEFINE said == walk[w].answers
<1>1. /\ walk' = [walk EXCEPT ![w] = NoWalk] /\ item' = item /\ transcript' = transcript
      /\ said \in Seq(Said) /\ Len(said) = Len(Chain) /\ Chain \in Seq(Rungs)
      /\ WalkOK(said)
  BY ChainIsSeq DEF GiveUp, WalksInv, WalkOK
<1>2. CASE Retryable(said)
  <2>1. UNCHANGED <<content, trail>>
    BY <1>2 DEF GiveUp
  <2>2. RouteIsExplained'
    BY <1>1, <2>1 DEF WalksInv, RouteIsExplained, CanServe, Chain
  <2> QED
    BY <1>1, <2>2, Ended
<1>3. CASE ~ Retryable(said)
  <2>1. content' = "metadata" /\ trail' = said
    BY <1>3 DEF GiveUp
  <2>2. ASSUME NEW n \in DOMAIN Chain
        PROVE  said[n] # "broke" /\ (CanServe(Chain[n]) => said[n] = "unheard")
    <3>1. n \in DOMAIN said /\ said[n] \in Said
      BY <1>1
    <3>2. said[n] # "broke" /\ said[n] # "text"
      BY <1>3, <3>1 DEF Retryable, GiveUp, HasText
    <3>3. CanServe(Chain[n]) => said[n] # "never"
      BY <1>1, <3>1 DEF WalkOK, Honest
    <3> QED
      BY <3>1, <3>2, <3>3 DEF Said
  <2>3. RouteIsExplained'
    BY <1>1, <2>1, <2>2 DEF RouteIsExplained, CanServe, Chain
  <2> QED
    BY <1>1, <2>3, Ended
<1> QED
  BY <1>2, <1>3

LEMMA WalksKeep == WalksInv /\ [LadderNext]_ladderVars => WalksInv'
<1> SUFFICES ASSUME WalksInv, [LadderNext]_ladderVars PROVE WalksInv'
  OBVIOUS
<1>1. ASSUME NEW w \in Walkers, Begin(w) PROVE WalksInv'
  BY <1>1, BeginHolds
<1>2. ASSUME NEW w \in Walkers, Try(w) PROVE WalksInv'
  BY <1>2, TryHolds
<1>3. ASSUME NEW w \in Walkers, StoreText(w) PROVE WalksInv'
  BY <1>3, StoreHolds
<1>4. ASSUME NEW w \in Walkers, GiveUp(w) PROVE WalksInv'
  BY <1>4, GiveUpHolds
<1>5. ASSUME NEW w \in Walkers, LostWalk(w) PROVE WalksInv'
  <2>1. RouteIsExplained'
    BY <1>5 DEF LostWalk, WalksInv, RouteIsExplained, CanServe, Chain
  <2> QED
    BY <1>5, <2>1, Ended DEF LostWalk
<1>6. ASSUME UNCHANGED <<item, content, transcript, trail, walk>> PROVE WalksInv'
  BY <1>6 DEF WalksInv, RouteIsExplained, WalkOK, Honest, CanServe, Chain
<1>7. ASSUME NEW p \in Vendors, NEW h \in Healths, Turn(p, h) PROVE WalksInv'
  BY <1>6, <1>7 DEF Turn
<1>8. CASE UNCHANGED ladderVars
  BY <1>6, <1>8 DEF ladderVars
<1> QED
  BY <1>1, <1>2, <1>3, <1>4, <1>5, <1>7, <1>8 DEF LadderNext

\* In every behaviour, an item that is written off was so by a walk on which no
\* rung broke and every rung that could have read it went unheard, and an item
\* that has its text has it from the first rung that could read it and was heard.
THEOREM EndsAreExplained == LadderSpec => []RouteIsExplained
<1>1. WalksInv => RouteIsExplained
  BY DEF WalksInv
<1> QED
  BY <1>1, WalksBegin, WalksKeep, PTL DEF LadderSpec

LEMMA RungIsBuilt == ASSUME NEW rung, CanServe(rung) PROVE rung \in DOMAIN VendorOf
BY DEF CanServe, Needs, VendorOf

LEMMA LadderTypeKeeps ==
  WalksInv /\ LadderTypeOK /\ WalksInv' /\ [LadderNext]_ladderVars => LadderTypeOK'
<1> SUFFICES ASSUME WalksInv, LadderTypeOK, WalksInv', [LadderNext]_ladderVars
             PROVE  LadderTypeOK'
  OBVIOUS
<1>1. \A w \in Walkers : \A n \in DOMAIN walk'[w].answers : walk'[w].answers[n] \in Said
  BY DEF WalksInv, WalkOK
<1>2. health' \in [Vendors -> Healths]
  BY DEF LadderTypeOK, LadderNext, ladderVars, Begin, Try, StoreText, GiveUp, LostWalk, Turn
<1>3. content' \in {"discovered", "transcribed", "metadata"}
  BY DEF LadderTypeOK, LadderNext, ladderVars, Begin, Try, StoreText, GiveUp, LostWalk, Turn
<1>4. transcript' \in {""} \cup DOMAIN VendorOf
  <2>1. transcript' = transcript \/ content' = "transcribed"
    BY DEF LadderNext, ladderVars, Begin, Try, StoreText, GiveUp, LostWalk, Turn
  <2>2. CASE transcript' = transcript
    BY <2>2 DEF LadderTypeOK
  <2>3. CASE content' = "transcribed"
    <3>1. CanServe(transcript)'
      BY <2>3 DEF WalksInv, RouteIsExplained
    <3>2. item' = item
      BY DEF LadderNext, ladderVars, Begin, Try, StoreText, GiveUp, LostWalk, Turn
    <3>3. CanServe(transcript')
      BY <3>1, <3>2 DEF CanServe
    <3> QED
      BY <3>3, RungIsBuilt
  <2> QED
    BY <2>1, <2>2, <2>3
<1> QED
  BY <1>1, <1>2, <1>3, <1>4 DEF LadderTypeOK

\* The ladder's rows keep their kinds: a transcript comes from a rung that is
\* built, and a walk holds nothing but answers a rung can give.
THEOREM LadderTypeCorrect == LadderSpec => []LadderTypeOK
<1>0. NoWalk.answers = <<>> /\ DOMAIN NoWalk.answers = {}
  BY DEF NoWalk
<1>1. LadderInit => LadderTypeOK
  <2> SUFFICES ASSUME LadderInit PROVE LadderTypeOK
    OBVIOUS
  <2>1. health \in [Vendors -> Healths]
    BY DEF LadderInit, Healths
  <2>2. \A w \in Walkers : DOMAIN walk[w].answers = {}
    BY <1>0 DEF LadderInit
  <2> QED
    BY <2>1, <2>2 DEF LadderInit, LadderTypeOK
<1> QED
  BY <1>1, WalksBegin, WalksKeep, LadderTypeKeeps, PTL DEF LadderSpec

\* What a written-off item could still be read by: a vendor that refuses, and
\* replies to a post that has no caption, which nobody counts when they fail.
NoneRefuses == \A p \in Vendors : health[p] # "refusing"
RepliesAlone == "replies" \in item.facts /\ "caption" \notin item.facts

UnheardIsUnread ==
    \A w \in Walkers : \A n \in DOMAIN walk[w].answers :
        walk[w].answers[n] = "unheard" => ~ CanServe(Chain[n])

LEMMA SaysUnheard ==
  ASSUME NoneRefuses, ~ RepliesAlone, health \in [Vendors -> Healths],
         NEW rung, "unheard" \in Says(rung)
  PROVE  ~ CanServe(rung)
<1>1. CASE Pointless(rung)
  BY <1>1 DEF Says
<1>2. CASE ~ Pointless(rung) /\ rung = "caption_comments"
  <2>1. "unheard" \in Gathered
    BY <1>2 DEF Says
  <2>2. "caption" \notin item.facts
    BY <2>1 DEF Gathered, Heard
  <2> QED
    BY <1>2, <2>2 DEF RepliesAlone, CanServe, Needs
<1>3. CASE ~ Pointless(rung) /\ rung # "caption_comments"
  <2>1. VendorOf[rung] \in Vendors
    BY <1>3 DEF Pointless, Built, Vendors
  <2>2. ~ Refuses(VendorOf[rung])
    BY <2>1 DEF NoneRefuses, Refuses
  <2>3. Says(rung) \in {{NotConfigured}, Called(rung)}
    BY <1>3, <2>2 DEF Says
  <2>4. "unheard" \notin Says(rung)
    BY <2>3 DEF NotConfigured, Called, Heard
  <2> QED
    BY <2>4
<1> QED
  BY <1>1, <1>2, <1>3

LEMMA UnheardKeeps ==
  ASSUME WalksInv, LadderTypeOK, NoneRefuses, ~ RepliesAlone, UnheardIsUnread,
         [LadderNext]_ladderVars
  PROVE  UnheardIsUnread'
<1>0. item' = item
  BY DEF LadderNext, ladderVars, Begin, Try, StoreText, GiveUp, LostWalk, Turn
<1> SUFFICES ASSUME NEW v \in Walkers, NEW n \in DOMAIN walk'[v].answers,
                    walk'[v].answers[n] = "unheard"
             PROVE  ~ CanServe(Chain[n])
  BY <1>0 DEF UnheardIsUnread, CanServe, Chain
<1>1. ASSUME walk'[v].answers = walk[v].answers PROVE ~ CanServe(Chain[n])
  BY <1>1 DEF UnheardIsUnread
<1>2. ASSUME NEW w \in Walkers, walk' = [walk EXCEPT ![w] = NoWalk]
      PROVE  ~ CanServe(Chain[n])
  BY <1>1, <1>2 DEF WalksInv, NoWalk
<1>3. ASSUME NEW w \in Walkers, Begin(w) PROVE ~ CanServe(Chain[n])
  BY <1>1, <1>3 DEF WalksInv, Begin
<1>4. ASSUME NEW w \in Walkers, Try(w) PROVE ~ CanServe(Chain[n])
  <2>1. PICK answer \in Says(Rung(w)) : walk' = [walk EXCEPT ![w].answers = Append(@, answer)]
    BY <1>4 DEF Try
  <2>2. CASE v = w
    <3> DEFINE old == walk[w].answers
    <3>1. old \in Seq(Said) /\ walk'[v].answers = Append(old, answer)
      BY <2>1, <2>2 DEF WalksInv
    <3>2. CASE n = Len(old) + 1
      <4>1. answer = "unheard" /\ Rung(w) = Chain[n]
        BY <3>1, <3>2 DEF Rung
      <4>2. health \in [Vendors -> Healths] /\ "unheard" \in Says(Rung(w))
        BY <4>1 DEF LadderTypeOK
      <4>3. ~ CanServe(Rung(w))
        BY <4>2, SaysUnheard
      <4> QED
        BY <4>1, <4>3
    <3>3. CASE n # Len(old) + 1
      BY <2>2, <3>1, <3>3 DEF UnheardIsUnread
    <3> QED
      BY <3>2, <3>3
  <2>3. CASE v # w
    BY <1>1, <2>1, <2>3 DEF WalksInv
  <2> QED
    BY <2>2, <2>3
<1>5. CASE UNCHANGED walk
  BY <1>1, <1>5
<1> QED
  BY <1>2, <1>3, <1>4, <1>5 DEF LadderNext, StoreText, GiveUp, LostWalk, Turn, ladderVars

LEMMA WrittenOffKeeps ==
  ASSUME WalksInv, WalksInv', UnheardIsUnread, WrittenOffCannotBeRead, [LadderNext]_ladderVars
  PROVE  WrittenOffCannotBeRead'
<1>0. item' = item
  BY DEF LadderNext, ladderVars, Begin, Try, StoreText, GiveUp, LostWalk, Turn
<1> SUFFICES ASSUME content' = "metadata", NEW n \in DOMAIN Chain PROVE ~ CanServe(Chain[n])
  BY <1>0 DEF WrittenOffCannotBeRead, CanServe, Chain
<1>1. CASE content = "metadata"
  BY <1>1 DEF WrittenOffCannotBeRead
<1>2. CASE content # "metadata"
  <2>1. PICK w \in Walkers : /\ GiveUp(w) /\ trail' = walk[w].answers
                            /\ Len(walk[w].answers) = Len(Chain)
    BY <1>2 DEF LadderNext, ladderVars, Begin, Try, StoreText, GiveUp, LostWalk, Turn
  <2>2. CanServe(Chain[n]) => trail'[n] = "unheard"
    BY <1>0 DEF WalksInv, RouteIsExplained, CanServe, Chain
  <2>3. n \in DOMAIN walk[w].answers
    BY <2>1, ChainIsSeq DEF WalksInv
  <2> QED
    BY <2>1, <2>2, <2>3 DEF UnheardIsUnread
<1> QED
  BY <1>1, <1>2

\* "every item that arrived during a misconfiguration would otherwise be
\* written off for good": while no vendor refuses, and of an item that is more
\* than replies, what is written off no rung could read.  Those two are all
\* that breaks the promise, whichever keys are missing or calls fail.
THEOREM WrittenOffForAReason ==
  LadderSpec /\ []NoneRefuses /\ []~ RepliesAlone => []WrittenOffCannotBeRead
<1>0. NoWalk.answers = <<>> /\ DOMAIN NoWalk.answers = {}
  BY DEF NoWalk
<1>1. LadderInit => UnheardIsUnread /\ WrittenOffCannotBeRead
  BY <1>0 DEF LadderInit, UnheardIsUnread, WrittenOffCannotBeRead
<1>2. LadderSpec => []LadderTypeOK
  BY LadderTypeCorrect
<1> QED
  BY <1>1, <1>2, WalksBegin, WalksKeep, UnheardKeeps, WrittenOffKeeps, PTL DEF LadderSpec

-----------------------------------------------------------------------------
(* Duplicates.                                                             *)

\* The match of a check that confirmed, while texts hold it.
Confirmed(m, i) ==
    /\ m.keep \in {i, m.other} /\ m.other # i
    /\ SameConversation(text[i], text[m.other])
    /\ LET demoted == IF m.keep = m.other THEN i ELSE m.other
       IN  Length(text[m.keep]) >= Length(text[demoted])

JobOK(w) ==
    /\ job[w].step = "loaded" =>
          /\ job[w].item \in held
          /\ job[w].text = {} \/ job[w].text = text[job[w].item]
    /\ job[w].step \in {"found", "marked"} =>
          /\ job[w].match \in Match
          /\ job[w].match.status = "confirmed" => Confirmed(job[w].match, job[w].item)
    /\ job[w].step = "marked" => job[w].match.status = "confirmed"

IInv ==
    /\ TypeOK
    /\ \A i \in Items : text[i] # {} => i \in held
    /\ \A i \in Items : IsDuplicate(i) => text[i] # {}
    /\ \A w \in Workers : JobOK(w)
    /\ LongerIsKept
    /\ OnlyRelatedMerged
    /\ \A i \in Items : IsDuplicate(i) /\ original[i] = i => Tied(i)

-----------------------------------------------------------------------------
(* Transcripts.                                                            *)

LEMMA LengthIsNat ==
    ASSUME TypeOK, NEW i \in Items
    PROVE  /\ IsFiniteSet(text[i]) /\ Length(text[i]) \in Nat
           /\ Length(text[i]) = 0 <=> text[i] = {}
<1>1. text[i] \in Texts \cup {{}}
  BY DEF TypeOK
<1>2. IsFiniteSet(text[i])
  BY <1>1, DuplicatesAssumption, FS_EmptySet
<1> QED
  BY <1>2, FS_CardinalityType, FS_EmptySet DEF Length

LEMMA SameIsSymmetric ==
    ASSUME NEW s, NEW t, SameConversation(s, t), Length(s) \in Nat, Length(t) \in Nat
    PROVE  SameConversation(t, s)
<1>1. Shared(s, t) = Shared(t, s)
  <2>1. s \cap t = t \cap s
    OBVIOUS
  <2> QED
    BY <2>1 DEF Shared
<1>2. Length(Shorter(s, t)) = Length(Shorter(t, s))
  BY DEF Shorter
<1> QED
  BY <1>1, <1>2 DEF SameConversation

LEMMA SameHaveTexts ==
    ASSUME NEW s, NEW t, SameConversation(s, t) PROVE s # {} /\ t # {}
<1>1. Length({}) = 0
  BY FS_EmptySet DEF Length
<1>2. ~ Comparable({})
  BY <1>1, DuplicatesAssumption DEF Comparable
<1> QED
  BY <1>2 DEF SameConversation

\* Texts are stored once.
Stored ==
    /\ text' \in [Items -> Texts \cup {{}}]
    /\ \A i \in Items : text[i] # {} => text'[i] = text[i]

\* A stored text keeps its length, and what is the same conversation stays so.
LEMMA TextsStay ==
    ASSUME TypeOK, TypeOK', Stored
    PROVE  /\ \A i \in Items : Length(text[i]) <= Length(text'[i])
           /\ \A i, j \in Items :
                 SameConversation(text[i], text[j]) =>
                     /\ text[i] # {} /\ text[j] # {}
                     /\ text'[i] = text[i] /\ text'[j] = text[j]
           /\ Pairs \subseteq Pairs'
<1>1. \A t \in Texts \cup {{}} : /\ Length(t) \in Nat /\ (Length(t) = 0 <=> t = {})
  <2> SUFFICES ASSUME NEW t \in Texts \cup {{}}
               PROVE  Length(t) \in Nat /\ (Length(t) = 0 <=> t = {})
    OBVIOUS
  <2>1. IsFiniteSet(t)
    BY DuplicatesAssumption, FS_EmptySet
  <2> QED
    BY <2>1, FS_CardinalityType, FS_EmptySet DEF Length
<1>2. \A i \in Items : text[i] \in Texts \cup {{}} /\ text'[i] \in Texts \cup {{}}
  BY DEF TypeOK
<1>3. \A i \in Items : Length(text[i]) <= Length(text'[i])
  BY <1>1, <1>2 DEF Stored
<1>4. \A s, t \in Texts \cup {{}} : SameConversation(s, t) => s # {} /\ t # {}
  BY <1>1, DuplicatesAssumption DEF SameConversation, Comparable
<1>5. \A i, j \in Items :
        SameConversation(text[i], text[j]) =>
            text[i] # {} /\ text[j] # {} /\ text'[i] = text[i] /\ text'[j] = text[j]
  BY <1>2, <1>4 DEF Stored
<1>6. Pairs \subseteq Pairs'
  BY <1>5 DEF Pairs
<1> QED
  BY <1>3, <1>5, <1>6

LEMMA ConfirmedStays ==
    ASSUME TypeOK, TypeOK', Stored, NEW i \in Items, NEW m \in Match, Confirmed(m, i)
    PROVE  Confirmed(m, i)'
<1>1. m.other \in Items /\ m.keep \in Items
  BY DEF Match
<1>2. text'[i] = text[i] /\ text'[m.other] = text[m.other]
  BY <1>1, TextsStay DEF Confirmed
<1> QED
  BY <1>1, <1>2 DEF Confirmed

-----------------------------------------------------------------------------
(* Chains.                                                                 *)

\* A step along a chain.
Onward(last) ==
    IF IsDuplicate(last.at) /\ last.at \notin last.seen
    THEN [at |-> original[last.at], seen |-> last.seen \union {last.at}]
    ELSE last
Trail(g, i, n) ==
    g = [k \in 0 .. n |-> IF k = 0 THEN [at |-> i, seen |-> {}] ELSE Onward(g[k - 1])]

LEMMA WalkExists == ASSUME NEW i PROVE \A n \in Nat : \E g : Trail(g, i, n)
<1> DEFINE T == {n \in Nat : \E g : Trail(g, i, n)}
<1>1. 0 \in T
  <2> DEFINE g == [k \in 0 .. 0 |-> [at |-> i, seen |-> {}]]
  <2>1. Trail(g, i, 0)
    BY DEF Trail
  <2> QED
    BY <2>1
<1>2. ASSUME NEW n \in Nat, n \in T PROVE n + 1 \in T
  <2>1. PICK g : Trail(g, i, n)
    BY <1>2
  <2> DEFINE h == [k \in 0 .. (n + 1) |-> IF k = 0 THEN [at |-> i, seen |-> {}] ELSE Onward(g[k - 1])]
  <2>2. \A k \in 0 .. n : g[k] = IF k = 0 THEN [at |-> i, seen |-> {}] ELSE Onward(g[k - 1])
    BY <2>1 DEF Trail
  <2>3. \A k \in 0 .. n : k \in 0 .. (n + 1) /\ h[k] = g[k]
    <3>1. \A k \in 0 .. n : k \in 0 .. (n + 1)
      OBVIOUS
    <3>2. \A k \in 0 .. (n + 1) :
              h[k] = IF k = 0 THEN [at |-> i, seen |-> {}] ELSE Onward(g[k - 1])
      OBVIOUS
    <3> HIDE DEF h
    <3> QED
      BY <2>2, <3>1, <3>2
  <2>4. \A k \in 0 .. (n + 1) : k # 0 => k - 1 \in 0 .. n /\ h[k - 1] = g[k - 1]
    <3>1. \A k \in 0 .. (n + 1) : k # 0 => k - 1 \in 0 .. n
      OBVIOUS
    <3> HIDE DEF h
    <3> QED
      BY <2>3, <3>1
  <2>5. h = [k \in 0 .. (n + 1) |-> IF k = 0 THEN [at |-> i, seen |-> {}] ELSE Onward(h[k - 1])]
    <3> DEFINE e == [k \in 0 .. (n + 1) |-> IF k = 0 THEN [at |-> i, seen |-> {}] ELSE Onward(h[k - 1])]
    <3>1. \A k \in 0 .. (n + 1) : h[k] = e[k]
      BY <2>4
    <3> QED
      BY <3>1
  <2>6. Trail(h, i, n + 1)
    BY <2>5 DEF Trail
  <2> QED
    BY <2>6
<1> HIDE DEF T
<1>3. Nat \subseteq T
  BY <1>1, <1>2, AllNumbers
<1> QED
  BY <1>3 DEF T

LEMMA CanonicalIsWalked ==
    ASSUME NEW i
    PROVE  \E g : Trail(g, i, Cardinality(Items)) /\ Canonical(i) = g[Cardinality(Items)].at
<1> DEFINE g == CHOOSE g : Trail(g, i, Cardinality(Items))
<1>1. Cardinality(Items) \in Nat
  BY DuplicatesAssumption, FS_CardinalityType
<1>2. Trail(g, i, Cardinality(Items))
  BY <1>1, WalkExists
<1>3. Canonical(i) = g[Cardinality(Items)].at
  BY DEF Canonical, Trail, Onward
<1> QED
  BY <1>2, <1>3

\* How far a walk from i is after n steps: among the items, at none with a
\* shorter text, in every set that its chains do not leave; what was seen is a
\* duplicate of nothing longer than where it is.
Walked(i, x, n) ==
    /\ x.at \in Items /\ x.seen \subseteq Items
    /\ Length(text[x.at]) >= Length(text[i])
    /\ \A S \in SUBSET Items : Separate(S) /\ i \in S => x.at \in S
    /\ \A s \in x.seen :
          original[s] \in Items /\ Length(text[original[s]]) <= Length(text[x.at])
    /\ IsDuplicate(x.at) => x.at \in x.seen \/ Cardinality(x.seen) = n

LEMMA WalkIsSound ==
    ASSUME IInv, NEW i \in Items, NEW n \in Nat, NEW g, Trail(g, i, n)
    PROVE  Walked(i, g[n], n)
<1> DEFINE T == {k \in Nat : k <= n => Walked(i, g[k], k)}
<1>1. 0 \in T
  <2>1. g[0] = [at |-> i, seen |-> {}]
    BY DEF Trail
  <2>2. Length(text[i]) \in Nat /\ Cardinality({}) = 0
    BY LengthIsNat, FS_EmptySet DEF IInv
  <2>3. Walked(i, [at |-> i, seen |-> {}], 0)
    BY <2>2 DEF Walked
  <2> QED
    BY <2>1, <2>3
<1>2. ASSUME NEW k \in Nat, k \in T PROVE k + 1 \in T
  <2> SUFFICES ASSUME k + 1 <= n PROVE Walked(i, g[k + 1], k + 1)
    OBVIOUS
  <2> PICK x, y : x = g[k] /\ y = g[k + 1]
    OBVIOUS
  <2>1. Walked(i, x, k)
    BY <1>2
  <2>2. y = IF IsDuplicate(x.at) /\ x.at \notin x.seen
            THEN [at |-> original[x.at], seen |-> x.seen \cup {x.at}]
            ELSE x
    <3>1. k + 1 \in 0 .. n /\ k + 1 # 0 /\ (k + 1) - 1 = k
      OBVIOUS
    <3>2. g[k + 1] = Onward(g[k])
      BY <3>1 DEF Trail
    <3> QED
      BY <3>2 DEF Onward
  <2>3. CASE IsDuplicate(x.at) /\ x.at \notin x.seen
    <3> PICK a, b : a = x.at /\ b = original[a]
      OBVIOUS
    <3>1. a \in Items /\ b \in Items /\ y.at = b /\ y.seen = x.seen \cup {a} /\ x.seen \subseteq Items
      <4>1. a \in Items /\ x.seen \subseteq Items /\ IsDuplicate(a)
        BY <2>1, <2>3 DEF Walked
      <4>2. b \in Items
        BY <4>1 DEF IInv, TypeOK, IsDuplicate
      <4>3. y = [at |-> b, seen |-> x.seen \cup {a}]
        BY <2>2, <2>3
      <4> QED
        BY <4>1, <4>2, <4>3
    <3>2. Length(text[b]) >= Length(text[a]) /\ Length(text[a]) >= Length(text[i])
      BY <2>1, <2>3, <3>1 DEF Walked, IInv, LongerIsKept
    <3>3. /\ Length(text[a]) \in Nat /\ Length(text[b]) \in Nat /\ Length(text[i]) \in Nat
      BY <3>1, LengthIsNat DEF IInv
    <3>4. \A S \in SUBSET Items : Separate(S) /\ i \in S => b \in S
      BY <2>1, <2>3, <3>1 DEF Walked, IInv, OnlyRelatedMerged
    <3>5. \A s \in y.seen : original[s] \in Items /\ Length(text[original[s]]) <= Length(text[b])
      <4> SUFFICES ASSUME NEW s \in x.seen
                   PROVE  original[s] \in Items /\ Length(text[original[s]]) <= Length(text[b])
        BY <3>1, <3>3
      <4>1. original[s] \in Items /\ Length(text[original[s]]) <= Length(text[a])
        BY <2>1 DEF Walked
      <4>2. Length(text[original[s]]) \in Nat
        BY <4>1, LengthIsNat DEF IInv
      <4> QED
        BY <3>2, <3>3, <4>1, <4>2
    <3>6. Cardinality(y.seen) = k + 1
      <4>1. IsFiniteSet(x.seen) /\ Cardinality(x.seen) = k
        BY <2>1, <2>3, <3>1, DuplicatesAssumption, FS_Subset DEF Walked
      <4>2. \A R : IsFiniteSet(R) /\ a \notin R => Cardinality(R \cup {a}) = Cardinality(R) + 1
        BY FS_AddElement
      <4> QED
        BY <2>3, <3>1, <4>1, <4>2
    <3> QED
      BY <3>1, <3>2, <3>3, <3>4, <3>5, <3>6 DEF Walked
  <2>4. CASE ~ (IsDuplicate(x.at) /\ x.at \notin x.seen)
    BY <2>1, <2>2, <2>4 DEF Walked
  <2> QED
    BY <2>3, <2>4
<1> HIDE DEF T
<1>3. Nat \subseteq T
  BY <1>1, <1>2, AllNumbers
<1> QED
  BY <1>3 DEF T

\* What an item counts under: an item with a text as long, in the same
\* conversation, and a duplicate only where two are tied.
LEMMA CanonicalIsSound ==
    ASSUME IInv, NEW i \in Items, NEW r, r = Canonical(i)
    PROVE  /\ r \in Items /\ Length(text[r]) >= Length(text[i])
           /\ \A S \in SUBSET Items : Separate(S) /\ i \in S => r \in S
           /\ IsDuplicate(r) => Tied(r)
<1>1. IsFiniteSet(Items) /\ Cardinality(Items) \in Nat
  BY DuplicatesAssumption, FS_CardinalityType
<1>2. PICK g : Trail(g, i, Cardinality(Items)) /\ r = g[Cardinality(Items)].at
  BY CanonicalIsWalked
<1> PICK x : x = g[Cardinality(Items)]
  OBVIOUS
<1>3. Walked(i, x, Cardinality(Items)) /\ x.at = r
  BY <1>1, <1>2, WalkIsSound
<1>4. ASSUME IsDuplicate(r) PROVE Tied(r)
  <2>1. r \in x.seen
    <3>1. CASE Cardinality(x.seen) = Cardinality(Items)
      BY <1>1, <1>3, <3>1, FS_Subset DEF Walked
    <3> QED
      BY <1>3, <1>4, <3>1 DEF Walked
  <2>2. r \in Items /\ original[r] \in Items
    BY <1>3, <1>4, DuplicatesAssumption DEF Walked, IInv, TypeOK, IsDuplicate
  <2>3. Length(text[original[r]]) <= Length(text[r]) /\ Length(text[original[r]]) >= Length(text[r])
    BY <1>3, <1>4, <2>1, <2>2 DEF Walked, IInv, LongerIsKept
  <2>4. Length(text[original[r]]) = Length(text[r])
    BY <2>2, <2>3, LengthIsNat DEF IInv
  <2>5. CASE original[r] = r
    BY <1>4, <2>2, <2>5 DEF IInv
  <2>6. CASE original[r] # r
    BY <2>2, <2>4, <2>6 DEF Tied
  <2> QED
    BY <2>5, <2>6
<1> QED
  BY <1>3, <1>4 DEF Walked

-----------------------------------------------------------------------------
(* The steps of a check.                                                   *)

LEMMA TiedStays ==
    ASSUME TypeOK, TypeOK', Stored, NEW i \in Items, text[i] # {}, Tied(i) PROVE Tied(i)'
<1>1. PICK j \in Items \ {i} : Length(text[j]) = Length(text[i])
  BY DEF Tied
<1>2. Length(text[j]) \in Nat /\ Length(text[i]) # 0 /\ text[j] # {}
  BY <1>1, LengthIsNat
<1>3. text'[j] = text[j] /\ text'[i] = text[i]
  BY <1>1, <1>2 DEF Stored
<1> QED
  BY <1>1, <1>3 DEF Tied

\* A text is stored, and nothing is marked.
LEMMA RowsKeep ==
    ASSUME IInv, TypeOK', Stored, status' = status, original' = original
    PROVE  /\ (\A i \in Items : IsDuplicate(i) => text[i] # {})'
           /\ LongerIsKept' /\ OnlyRelatedMerged'
           /\ (\A i \in Items : IsDuplicate(i) /\ original[i] = i => Tied(i))'
<1>1. \A i \in Items : IsDuplicate(i)' <=> IsDuplicate(i)
  BY DEF IsDuplicate
<1>2. \A i \in Items : IsDuplicate(i) => text[i] # {} /\ text'[i] = text[i] /\ original[i] \in Items
  BY DEF IInv, TypeOK, Stored, IsDuplicate
<1>3. LongerIsKept'
  <2> SUFFICES ASSUME NEW i \in Items, IsDuplicate(i)
               PROVE  Length(text'[original[i]]) >= Length(text'[i])
    BY <1>1 DEF LongerIsKept
  <2>1. Length(text[original[i]]) >= Length(text[i]) /\ original[i] \in Items
    BY <1>2 DEF IInv, LongerIsKept
  <2>2. Length(text[i]) \in Nat /\ Length(text[original[i]]) \in Nat /\ Length(text[i]) # 0
    BY <1>2, <2>1, LengthIsNat DEF IInv
  <2>3. text[original[i]] # {}
    BY <2>1, <2>2, LengthIsNat DEF IInv
  <2>4. text'[original[i]] = text[original[i]]
    BY <2>1, <2>3 DEF Stored
  <2> QED
    BY <1>2, <2>1, <2>4
<1>4. OnlyRelatedMerged'
  <2> SUFFICES ASSUME NEW S \in SUBSET Items, Separate(S)', NEW i \in S, IsDuplicate(i)
               PROVE  original[i] \in S
    BY <1>1 DEF OnlyRelatedMerged
  <2>1. Pairs \subseteq Pairs'
    BY TextsStay DEF IInv
  <2>2. Separate(S)
    BY <2>1 DEF Separate
  <2> QED
    BY <2>2 DEF IInv, OnlyRelatedMerged
<1>5. (\A i \in Items : IsDuplicate(i) => text[i] # {})'
  BY <1>1, <1>2
<1>6. ASSUME NEW i \in Items, IsDuplicate(i)', original'[i] = i PROVE Tied(i)'
  <2>1. text[i] # {} /\ Tied(i)
    BY <1>1, <1>2, <1>6 DEF IInv
  <2> QED
    BY <2>1, TiedStays DEF IInv
<1> QED
  BY <1>3, <1>4, <1>5, <1>6

\* The other checks go on.
LEMMA JobsKeep ==
    ASSUME IInv, TypeOK', Stored, held \subseteq held', NEW v \in Workers, job'[v] = job[v]
    PROVE  JobOK(v)'
<1> PICK j : j = job[v]
  OBVIOUS
<1>1. j \in Job \cup {Idle} /\ JobOK(v)
  BY DEF IInv, TypeOK
<1>2. j.step = "loaded" => j.item \in held' /\ (j.text = {} \/ j.text = text'[j.item])
  BY <1>1 DEF JobOK, Stored, Job, Idle
<1>3. j.step \in {"found", "marked"} => j.match \in Match /\ j.item \in Items
  BY <1>1 DEF JobOK, Job, Idle
<1>4. j.step \in {"found", "marked"} /\ j.match.status = "confirmed" => Confirmed(j.match, j.item)'
  <2> SUFFICES ASSUME j.step \in {"found", "marked"}, j.match.status = "confirmed"
               PROVE  Confirmed(j.match, j.item)'
    OBVIOUS
  <2> PICK m, i : m = j.match /\ i = j.item
    OBVIOUS
  <2>1. m \in Match /\ i \in Items /\ Confirmed(m, i)
    BY <1>1, <1>3 DEF JobOK
  <2>2. Confirmed(m, i)'
    BY <2>1, ConfirmedStays DEF IInv
  <2> QED
    BY <2>2 DEF Confirmed
<1>5. j.step = "marked" => j.match.status = "confirmed"
  BY <1>1 DEF JobOK
<1> QED
  BY <1>2, <1>3, <1>4, <1>5 DEF JobOK

LEMMA IngestKeeps ==
    ASSUME IInv, NEW i \in Items, NEW t \in Texts \cup {{}}, Ingest(i, t) PROVE IInv'
<1>1. text[i] = {} /\ text' = [text EXCEPT ![i] = t] /\ held' = held \cup {i}
      /\ status' = status /\ original' = original /\ job' = job
  BY DEF Ingest, IInv
<1>2. TypeOK' /\ Stored
  BY <1>1 DEF IInv, TypeOK, Stored
<1>3. \A w \in Workers : JobOK(w)'
  BY <1>1, <1>2, JobsKeep
<1>4. \A k \in Items : text'[k] # {} => k \in held'
  BY <1>1 DEF IInv, TypeOK
<1> QED
  BY <1>1, <1>2, <1>3, <1>4, RowsKeep DEF IInv

\* A step that only takes a check further.
LEMMA CheckKeeps ==
    ASSUME IInv, NEW w \in Workers, NEW j \in Job \cup {Idle}, job' = [job EXCEPT ![w] = j],
           UNCHANGED <<held, text, status, original>>,
           j.step = "loaded" => j.item \in held /\ (j.text = {} \/ j.text = text[j.item]),
           j.step \in {"found", "marked"} => j.match \in Match,
           j.step \in {"found", "marked"} /\ j.match.status = "confirmed" => Confirmed(j.match, j.item),
           j.step = "marked" => j.match.status = "confirmed"
    PROVE  IInv'
<1>1. job'[w] = j /\ \A v \in Workers : v # w => job'[v] = job[v]
  BY DEF IInv, TypeOK
<1>2. TypeOK' /\ Stored
  BY DEF IInv, TypeOK, Stored
<1>3. \A v \in Workers : v # w => JobOK(v)'
  BY <1>1, <1>2, JobsKeep
<1>4. JobOK(w)'
  BY <1>1 DEF JobOK, Confirmed
<1>5. \A k \in Items : text'[k] # {} => k \in held'
  BY DEF IInv
<1> QED
  BY <1>2, <1>3, <1>4, <1>5, RowsKeep DEF IInv

LEMMA IdleKeeps ==
    ASSUME IInv, NEW w \in Workers, job' = [job EXCEPT ![w] = Idle],
           UNCHANGED <<held, text, status, original>>
    PROVE  IInv'
<1>1. Idle.step = "idle"
  BY DEF Idle
<1> QED
  BY <1>1, CheckKeeps

LEMMA JobIs ==
    ASSUME IInv, NEW w \in Workers, job[w].step # "idle"
    PROVE  /\ job[w] \in Job /\ job[w].item \in Items /\ JobOK(w)
           /\ job[w].match \in Match => job[w].match.other \in Items /\ job[w].match.keep \in Items
<1>1. job[w] \in Job \cup {Idle} /\ JobOK(w)
  BY DEF IInv, TypeOK
<1>2. job[w] \in Job
  BY <1>1 DEF Idle
<1>3. job[w].item \in Items
  BY <1>2 DEF Job
<1> QED
  BY <1>1, <1>2, <1>3 DEF Match

LEMMA LoadKeeps == ASSUME IInv, NEW w \in Workers, NEW i \in Items, Load(w, i) PROVE IInv'
<1> PICK j : j = [step |-> "loaded", item |-> i, text |-> text[i], match |-> NoMatch]
  OBVIOUS
<1>1. j \in Job
  BY DEF Job, IInv, TypeOK
<1>2. j.step = "loaded" /\ j.item = i /\ j.text = text[i]
  OBVIOUS
<1>3. /\ i \in held /\ job' = [job EXCEPT ![w] = j]
      /\ UNCHANGED <<held, text, status, original>>
  BY DEF Load
<1> QED
  BY <1>1, <1>2, <1>3, CheckKeeps

LEMMA AcquireKeeps == ASSUME IInv, NEW w \in Workers, NEW t \in Texts, Acquire(w, t) PROVE IInv'
<1> PICK i : i = job[w].item
  OBVIOUS
<1>1. job[w] \in Job /\ job[w].step = "loaded" /\ i \in Items /\ i \in held
  <2>1. job[w].step = "loaded"
    BY DEF Acquire
  <2> QED
    BY <2>1, JobIs DEF JobOK
<1>2. CASE text[i] = {}
  <2> PICK j : j = [job[w] EXCEPT !.text = t]
    OBVIOUS
  <2>1. /\ text' = [text EXCEPT ![i] = t] /\ job' = [job EXCEPT ![w] = j]
        /\ held' = held /\ status' = status /\ original' = original
    BY <1>2 DEF Acquire, IInv, TypeOK
  <2>2. j \in Job /\ j.step = "loaded" /\ j.item = i /\ j.text = t
    BY <1>1 DEF Job
  <2>3. TypeOK' /\ Stored
    BY <1>2, <2>1, <2>2 DEF IInv, TypeOK, Stored
  <2>4. job'[w] = j /\ text'[i] = t /\ \A v \in Workers : v # w => job'[v] = job[v]
    BY <1>1, <2>1 DEF IInv, TypeOK
  <2>5. \A v \in Workers : v # w => JobOK(v)'
    BY <2>1, <2>3, <2>4, JobsKeep
  <2>6. JobOK(w)'
    <3>1. j.step = "loaded" /\ j.item \in held' /\ j.text = text'[j.item]
      BY <1>1, <2>1, <2>2, <2>4
    <3> QED
      BY <2>4, <3>1 DEF JobOK
  <2>7. \A k \in Items : text'[k] # {} => k \in held'
    BY <1>1, <2>1 DEF IInv, TypeOK
  <2> QED
    BY <2>1, <2>3, <2>5, <2>6, <2>7, RowsKeep DEF IInv
<1>3. CASE text[i] # {}
  BY <1>3, IdleKeeps DEF Acquire
<1> QED
  BY <1>2, <1>3

\* What is found is true of the texts.
LEMMA FoundIsTrue ==
    ASSUME IInv, NEW i \in Items, NEW t, t = {} \/ t = text[i], NEW m \in Found(i, t)
    PROVE  m \in Match /\ (m.status = "confirmed" => Confirmed(m, i))
<1>1. CASE \E j \in Strongest(i, t) : m = [other |-> j, keep |-> Keep(i, t, j), status |-> "confirmed"]
  <2>1. PICK j \in Strongest(i, t) :
           m = [other |-> j, keep |-> Keep(i, t, j), status |-> "confirmed"]
    BY <1>1
  <2>2. j \in Items \ {i} /\ SameConversation(t, text[j])
    BY DEF Strongest, ConfirmedMatches
  <2>3. t # {}
    BY <2>2, SameHaveTexts
  <2>4. t = text[i]
    BY <2>3
  <2>5. Length(text[i]) \in Nat /\ Length(text[j]) \in Nat
    BY <2>2, LengthIsNat DEF IInv
  <2>6. m.other = j /\ m.keep = Keep(i, t, j) /\ m.status = "confirmed" /\ m \in Match
    BY <2>1, <2>2 DEF Match, Statuses, Keep
  <2> QED
    BY <2>2, <2>4, <2>5, <2>6 DEF Confirmed, Keep
<1>2. CASE \E j \in held \ {i} : m = [other |-> j, keep |-> j, status |-> "suspected"]
  <2>1. PICK j \in held \ {i} : m = [other |-> j, keep |-> j, status |-> "suspected"]
    BY <1>2
  <2>2. j \in Items
    BY DEF IInv, TypeOK
  <2>3. "suspected" \in Statuses \ {""} /\ m.status = "suspected"
    BY <2>1 DEF Statuses
  <2> QED
    BY <2>1, <2>2, <2>3 DEF Match
<1> QED
  BY <1>1, <1>2 DEF Found

LEMMA FindKeeps == ASSUME IInv, NEW w \in Workers, Find(w) PROVE IInv'
<1> PICK i, t : i = job[w].item /\ t = job[w].text
  OBVIOUS
<1>1. job[w] \in Job /\ job[w].step = "loaded" /\ i \in Items /\ (t = {} \/ t = text[i])
  <2>1. job[w].step = "loaded"
    BY DEF Find
  <2> QED
    BY <2>1, JobIs DEF JobOK
<1>2. CASE Found(i, t) = {}
  BY <1>2, IdleKeeps DEF Find
<1>3. ASSUME NEW m \in Found(i, t),
             job' = [job EXCEPT ![w].step = "found", ![w].match = m]
      PROVE  IInv'
  <2> PICK j : j = [job[w] EXCEPT !.step = "found", !.match = m]
    OBVIOUS
  <2>1. m \in Match /\ (m.status = "confirmed" => Confirmed(m, i))
    BY <1>1, FoundIsTrue
  <2>2. j \in Job /\ j.step = "found" /\ j.item = i /\ j.match = m
    BY <1>1, <2>1 DEF Job
  <2>3. job' = [job EXCEPT ![w] = j] /\ UNCHANGED <<held, text, status, original>>
    BY <1>3 DEF Find, IInv, TypeOK
  <2> QED
    BY <2>1, <2>2, <2>3, CheckKeeps
<1> QED
  BY <1>2, <1>3 DEF Find

\* What a check is about to mark.
LEMMA MarkedIsTrue ==
    ASSUME IInv, NEW w \in Workers, job[w].step \in {"found", "marked"},
           NEW d, d = Demoted(w), NEW k, k = job[w].match.keep
    PROVE  /\ job[w] \in Job /\ job[w].match \in Match /\ d \in Items /\ k \in Items
           /\ job[w].match.status = "confirmed" =>
                 /\ d # k /\ text[d] # {} /\ text[k] # {}
                 /\ Length(text[k]) >= Length(text[d])
                 /\ \A S \in SUBSET Items : Separate(S) /\ d \in S => k \in S
<1> PICK i, m : i = job[w].item /\ m = job[w].match
  OBVIOUS
<1>1. job[w] \in Job /\ m \in Match /\ i \in Items /\ m.other \in Items /\ k \in Items
  BY JobIs DEF JobOK
<1>2. d = IF k = m.other THEN i ELSE m.other
  BY DEF Demoted
<1>3. ASSUME m.status = "confirmed"
      PROVE  /\ d # k /\ text[d] # {} /\ text[k] # {}
             /\ Length(text[k]) >= Length(text[d])
             /\ \A S \in SUBSET Items : Separate(S) /\ d \in S => k \in S
  <2>1. Confirmed(m, i)
    BY <1>3 DEF IInv, JobOK
  <2>2. d # k /\ Length(text[k]) >= Length(text[d])
    BY <1>2, <2>1 DEF Confirmed
  <2>3. SameConversation(text[d], text[k])
    BY <1>1, <1>2, <2>1, LengthIsNat, SameIsSymmetric DEF IInv, Confirmed
  <2>4. text[d] # {} /\ text[k] # {}
    BY <2>3, SameHaveTexts
  <2>5. <<d, k>> \in Pairs
    BY <1>1, <1>2, <2>2, <2>3 DEF Pairs
  <2> QED
    BY <2>2, <2>4, <2>5 DEF Separate
<1> QED
  BY <1>1, <1>2, <1>3

LEMMA MarkKeeps == ASSUME IInv, NEW w \in Workers, Mark(w) PROVE IInv'
<1> PICK d, k, m, r : d = Demoted(w) /\ m = job[w].match /\ k = m.keep /\ r = Root(w)
  OBVIOUS
<1>1. /\ job[w] \in Job /\ m \in Match /\ d \in Items /\ k \in Items
      /\ m.status = "confirmed" =>
            /\ d # k /\ text[d] # {} /\ text[k] # {}
            /\ Length(text[k]) >= Length(text[d])
            /\ \A S \in SUBSET Items : Separate(S) /\ d \in S => k \in S
  BY MarkedIsTrue DEF Mark
<1>2. /\ Length(text[d]) \in Nat /\ Length(text[k]) \in Nat
  BY <1>1, LengthIsNat DEF IInv
<1>3. /\ r \in Items
      /\ m.status = "confirmed" =>
            /\ Length(text[r]) >= Length(text[d])
            /\ \A S \in SUBSET Items : Separate(S) /\ d \in S => r \in S
            /\ r = d => Tied(d)
  <2>1. CASE r = k
    BY <1>1, <2>1
  <2>2. CASE m.status = "confirmed" /\ r = Canonical(k)
    <3>1. /\ r \in Items /\ Length(text[r]) >= Length(text[k])
          /\ \A S \in SUBSET Items : Separate(S) /\ k \in S => r \in S
      BY <1>1, <2>2, CanonicalIsSound
    <3>2. Length(text[r]) \in Nat
      BY <3>1, LengthIsNat DEF IInv
    <3>3. Length(text[r]) >= Length(text[d])
      BY <1>1, <1>2, <2>2, <3>1, <3>2
    <3>4. r = d => Length(text[k]) = Length(text[d])
      BY <1>1, <1>2, <2>2, <3>1, <3>2
    <3>5. r = d => Tied(d)
      BY <1>1, <2>2, <3>4 DEF Tied
    <3> QED
      BY <1>1, <2>2, <3>1, <3>3, <3>5
  <2> QED
    BY <2>1, <2>2 DEF Root
<1>4. /\ status' = [status EXCEPT ![d] = m.status] /\ original' = [original EXCEPT ![d] = r]
      /\ held' = held /\ text' = text
  BY DEF Mark
<1>5. m.status \in Statuses /\ m.status # "" /\ r # None
  BY <1>1, <1>3, DuplicatesAssumption DEF Match
<1>6. PICK j : j = IF m.status = "confirmed" THEN [job[w] EXCEPT !.step = "marked"] ELSE Idle
  OBVIOUS
<1>7. job' = [job EXCEPT ![w] = j]
  BY <1>6 DEF Mark, IInv, TypeOK
<1>8. j \in Job \cup {Idle} /\ j.step \in {"marked", "idle"}
      /\ (j.step = "marked" => j.item = job[w].item /\ j.match = m /\ m.status = "confirmed")
  BY <1>1, <1>6 DEF Job, Idle
<1>9. TypeOK'
  <2>1. job' \in [Workers -> Job \cup {Idle}]
    BY <1>7, <1>8 DEF IInv, TypeOK
  <2> QED
    BY <1>1, <1>3, <1>4, <1>5, <2>1 DEF IInv, TypeOK
<1>10. Stored
  BY <1>4 DEF Stored, IInv, TypeOK
<1>11. \A v \in Workers : JobOK(v)'
  <2>1. job'[w] = j /\ \A v \in Workers : v # w => job'[v] = job[v]
    BY <1>7 DEF IInv, TypeOK
  <2>2. \A v \in Workers : v # w => JobOK(v)'
    BY <1>4, <1>9, <1>10, <2>1, JobsKeep
  <2>3. JobOK(w) /\ job[w].step = "found"
    BY DEF Mark, IInv
  <2>4. m.status = "confirmed" => Confirmed(m, job[w].item)
    BY <2>3 DEF JobOK
  <2>5. JobOK(w)'
    BY <1>1, <1>4, <1>8, <2>1, <2>4 DEF JobOK, Confirmed
  <2> QED
    BY <2>2, <2>5
<1>12. /\ \A i \in Items : i # d => (IsDuplicate(i)' <=> IsDuplicate(i)) /\ original'[i] = original[i]
       /\ IsDuplicate(d)' => m.status = "confirmed"
       /\ original'[d] = r
  BY <1>1, <1>4 DEF IsDuplicate, IInv, TypeOK
<1>13. /\ \A S : Separate(S)' <=> Separate(S)
       /\ \A i : Tied(i)' <=> Tied(i)
  BY <1>4 DEF Separate, Pairs, Tied
<1>14. \A i \in Items : IsDuplicate(i)' => text'[i] # {}
  BY <1>1, <1>4, <1>12 DEF IInv
<1>15. LongerIsKept'
  BY <1>3, <1>4, <1>12 DEF IInv, LongerIsKept
<1>16. OnlyRelatedMerged'
  BY <1>3, <1>12, <1>13 DEF IInv, OnlyRelatedMerged
<1>17. \A i \in Items : IsDuplicate(i)' /\ original'[i] = i => Tied(i)'
  BY <1>3, <1>12, <1>13 DEF IInv
<1> QED
  BY <1>4, <1>9, <1>11, <1>14, <1>15, <1>16, <1>17 DEF IInv

LEMMA RepointKeeps == ASSUME IInv, NEW w \in Workers, Repoint(w) PROVE IInv'
<1> PICK d, k : d = Demoted(w) /\ k = job[w].match.keep
  OBVIOUS
<1>1. /\ job[w] \in Job /\ d \in Items /\ k \in Items
      /\ d # k /\ Length(text[k]) >= Length(text[d])
      /\ \A S \in SUBSET Items : Separate(S) /\ d \in S => k \in S
  BY MarkedIsTrue DEF Repoint, IInv, JobOK
<1>2. /\ original' = [i \in Items |-> IF status[i] = "confirmed" /\ original[i] = d
                                      THEN k ELSE original[i]]
      /\ job' = [job EXCEPT ![w] = Idle] /\ UNCHANGED <<held, text, status>>
  BY DEF Repoint
<1>3. d # None /\ k # None
  BY <1>1, DuplicatesAssumption
<1>4. TypeOK' /\ Stored
  BY <1>1, <1>2, <1>3 DEF IInv, TypeOK, Stored
<1>5. \A i \in Items : /\ IsDuplicate(i)' <=> IsDuplicate(i)
                       /\ \/ original'[i] = original[i]
                          \/ IsDuplicate(i) /\ original[i] = d /\ original'[i] = k
  BY <1>2, <1>3 DEF IsDuplicate
<1>6. /\ \A S : Separate(S)' <=> Separate(S)
      /\ \A i : Tied(i)' <=> Tied(i)
  BY <1>2 DEF Separate, Pairs, Tied
<1>7. \A v \in Workers : JobOK(v)'
  <2>1. job'[w] = Idle /\ \A v \in Workers : v # w => job'[v] = job[v]
    BY <1>2 DEF IInv, TypeOK
  <2>2. JobOK(w)'
    BY <2>1 DEF JobOK, Idle
  <2> QED
    BY <1>2, <1>4, <2>1, <2>2, JobsKeep
<1>8. \A i \in Items : Length(text[i]) \in Nat
  BY LengthIsNat DEF IInv
<1>9. LongerIsKept'
  <2> SUFFICES ASSUME NEW i \in Items, IsDuplicate(i)
               PROVE  Length(text[original'[i]]) >= Length(text[i])
    BY <1>2, <1>5 DEF LongerIsKept
  <2>1. Length(text[original[i]]) >= Length(text[i])
    BY DEF IInv, LongerIsKept
  <2> QED
    BY <1>1, <1>5, <1>8, <2>1
<1>10. OnlyRelatedMerged'
  BY <1>1, <1>5, <1>6 DEF IInv, OnlyRelatedMerged
<1>11. ASSUME NEW i \in Items, IsDuplicate(i)', original'[i] = i PROVE Tied(i)'
  <2>1. CASE original[i] = i
    BY <1>5, <1>6, <1>11, <2>1 DEF IInv
  <2>2. CASE original[i] = d /\ k = i
    <3>1. Length(text[d]) >= Length(text[i]) /\ Length(text[i]) >= Length(text[d])
      BY <1>1, <1>5, <1>11, <2>2 DEF IInv, LongerIsKept
    <3> QED
      BY <1>1, <1>6, <1>8, <2>2, <3>1 DEF Tied
  <2> QED
    BY <1>5, <1>11, <2>1, <2>2
<1>12. (\A i \in Items : IsDuplicate(i) => text[i] # {})' /\ (\A i \in Items : text[i] # {} => i \in held)'
  BY <1>2, <1>5 DEF IInv
<1> QED
  BY <1>4, <1>7, <1>9, <1>10, <1>11, <1>12 DEF IInv

-----------------------------------------------------------------------------
LEMMA InvariantBegins == Init => IInv
<1> SUFFICES ASSUME Init PROVE IInv
  OBVIOUS
<1>1. \A i \in Items : text[i] = {} /\ status[i] = "" /\ original[i] = None
  BY DEF Init
<1>2. \A w \in Workers : job[w] = Idle
  BY DEF Init
<1>3. TypeOK
  BY DEF Init, TypeOK, Statuses
<1>4. \A w \in Workers : JobOK(w)
  BY <1>2 DEF JobOK, Idle
<1>5. \A i \in Items : ~ IsDuplicate(i)
  BY <1>1 DEF IsDuplicate
<1> QED
  BY <1>1, <1>3, <1>4, <1>5 DEF IInv, LongerIsKept, OnlyRelatedMerged

LEMMA InvariantKeeps == IInv /\ [Next]_vars => IInv'
<1> SUFFICES ASSUME IInv, [Next]_vars PROVE IInv'
  OBVIOUS
<1>1. CASE UNCHANGED vars
  <2>1. UNCHANGED <<held, text, status, original, job>>
    BY <1>1 DEF vars
  <2>2. TypeOK' /\ Stored
    BY <2>1 DEF IInv, TypeOK, Stored
  <2>3. \A w \in Workers : JobOK(w)'
    BY <2>1, <2>2, JobsKeep
  <2> QED
    BY <2>1, <2>2, <2>3, RowsKeep DEF IInv
<1> QED
  BY <1>1, IngestKeeps, LoadKeeps, AcquireKeeps, FindKeeps, MarkKeeps, RepointKeeps DEF Next

LEMMA InvariantHolds == Spec => []IInv
BY InvariantBegins, InvariantKeeps, PTL DEF Spec

\* The longer transcript is what the shorter is a duplicate of, along every
\* chain, whichever checks overlapped (services/duplicates.py).
THEOREM LongerStays == Spec => []LongerIsKept
<1>1. IInv => LongerIsKept
  BY DEF IInv
<1> QED
  BY <1>1, InvariantHolds, PTL

\* Two unrelated conversations are never merged.
THEOREM NothingElseIsMerged == Spec => []OnlyRelatedMerged
<1>1. IInv => OnlyRelatedMerged
  BY DEF IInv
<1> QED
  BY <1>1, InvariantHolds, PTL

\* What a duplicate counts under is extracted itself, or tied with another of
\* its length: a chain may go round, and then all of it has one length.
THEOREM SomethingIsKept == Spec => []KeptUnlessTied
<1>1. IInv => KeptUnlessTied
  <2> SUFFICES ASSUME IInv, NEW i \in Items
               PROVE  ~ IsDuplicate(Canonical(i)) \/ Tied(Canonical(i))
    BY DEF KeptUnlessTied
  <2> PICK r : r = Canonical(i)
    OBVIOUS
  <2>1. IsDuplicate(r) => Tied(r)
    BY CanonicalIsSound
  <2> QED
    BY <2>1
<1> QED
  BY <1>1, InvariantHolds, PTL

\* The rows keep their kinds, and a status is set together with the item it
\* refers to.
THEOREM DuplicatesTypeCorrect == Spec => []TypeOK
<1>1. IInv => TypeOK
  BY DEF IInv
<1> QED
  BY <1>1, InvariantHolds, PTL

-----------------------------------------------------------------------------
(* The refinement: what each step of a check is to the evidence.           *)

Under(i) == IF IsDuplicate(i) THEN original[i] ELSE i

LEMMA SeparateIs ==
    ASSUME NEW S
    PROVE  Separate(S) <=> \A k, l \in Items :
                               k \in S /\ k # l /\ SameConversation(text[k], text[l]) => l \in S
<1>1. ASSUME Separate(S), NEW k \in Items, NEW l \in Items,
             k \in S, k # l, SameConversation(text[k], text[l])
      PROVE  l \in S
  <2>1. <<k, l>> \in Pairs
    BY <1>1 DEF Pairs
  <2> QED
    BY <1>1, <2>1 DEF Separate
<1>2. ASSUME \A k, l \in Items :
                k \in S /\ k # l /\ SameConversation(text[k], text[l]) => l \in S
      PROVE  Separate(S)
  BY <1>2 DEF Separate, Pairs
<1> QED
  BY <1>1, <1>2

LEMMA RestsOnRows ==
    ASSUME UNCHANGED <<text, status, original>> PROVE UNCHANGED Counted!counted
BY DEF Counted!counted, IsDuplicate

\* Items that all come to be duplicates of j.
LEMMA CountStep ==
    ASSUME IInv, IInv', text' = text, NEW S \in SUBSET Items, NEW j \in Items,
           \A i \in S : IsDuplicate(i)' /\ original'[i] = j,
           \A i \in Items \ S : Under(i)' = Under(i)
    PROVE  Counted!Next
<1>1. ASSUME NEW i \in S PROVE Length(text[i]) <= Length(text[j])
  <2>1. i \in Items /\ Length(text'[original'[i]]) >= Length(text'[i])
    BY <1>1 DEF IInv, LongerIsKept
  <2>2. Length(text[i]) \in Nat /\ Length(text[j]) \in Nat
    BY <2>1, LengthIsNat DEF IInv
  <2> QED
    BY <1>1, <2>1, <2>2
<1>2. ASSUME NEW i \in S, NEW R \in SUBSET Items, i \in R,
             \A k, l \in Items :
                k \in R /\ k # l /\ SameConversation(text[k], text[l]) => l \in R
      PROVE  j \in R
  <2>1. Separate(R)
    BY <1>2, SeparateIs
  <2>2. Separate(R)'
    BY <2>1 DEF Separate, Pairs
  <2> QED
    BY <1>2, <2>2 DEF IInv, OnlyRelatedMerged
<1>3. ASSUME NEW i \in S PROVE Counted!Joined(i, j)
  BY <1>2, <1>3 DEF Counted!Joined
<1>4. [i \in Items |-> IF IsDuplicate(i)' THEN original'[i] ELSE i]
        = [i \in Items |-> IF i \in S THEN j ELSE [k \in Items |-> Under(k)][i]]
  BY DEF Under
<1>5. Counted!Count(S, j)
  BY <1>1, <1>3, <1>4 DEF Counted!Count, Under
<1> QED
  BY <1>5 DEF Counted!Next

\* An item without a transcript is no duplicate, and nothing is one of it.
LEMMA AloneUnheard ==
    ASSUME IInv, NEW i \in Items, text[i] = {} PROVE Counted!Alone(i)
<1>1. ASSUME NEW k \in Items, IsDuplicate(k) PROVE original[k] # i /\ k # i
  <2>1. text[k] # {} /\ Length(text[original[k]]) >= Length(text[k])
    BY <1>1 DEF IInv, LongerIsKept
  <2>2. Length(text[i]) = 0 /\ Length(text[k]) \in Nat /\ Length(text[k]) # 0
    BY <2>1, LengthIsNat DEF IInv
  <2> QED
    BY <2>1, <2>2
<1> QED
  BY <1>1 DEF Counted!Alone

LEMMA HearStep ==
    ASSUME IInv, NEW i \in Items, text[i] = {}, NEW t \in Texts,
           text' = [text EXCEPT ![i] = t], UNCHANGED <<status, original>>
    PROVE  Counted!Next
<1>1. Counted!Hear(i, t)
  BY AloneUnheard DEF Counted!Hear, IsDuplicate
<1> QED
  BY <1>1 DEF Counted!Next

LEMMA IngestCounts ==
    ASSUME IInv, NEW i \in Items, NEW t \in Texts \cup {{}}, Ingest(i, t)
    PROVE  [Counted!Next]_(Counted!counted)
<1>1. text[i] = {} /\ text' = [text EXCEPT ![i] = t] /\ UNCHANGED <<status, original>>
  BY DEF Ingest, IInv
<1>2. CASE t \in Texts
  BY <1>1, <1>2, HearStep
<1>3. CASE t = {}
  BY <1>1, <1>3, RestsOnRows DEF IInv, TypeOK
<1> QED
  BY <1>2, <1>3

LEMMA AcquireCounts ==
    ASSUME IInv, NEW w \in Workers, NEW t \in Texts, Acquire(w, t)
    PROVE  [Counted!Next]_(Counted!counted)
<1>1. job[w].item \in Items /\ UNCHANGED <<status, original>>
  BY JobIs DEF Acquire, JobOK
<1>2. CASE text[job[w].item] = {}
  BY <1>1, <1>2, HearStep DEF Acquire
<1>3. CASE text[job[w].item] # {}
  BY <1>1, <1>3, RestsOnRows DEF Acquire
<1> QED
  BY <1>2, <1>3

LEMMA MarkCounts ==
    ASSUME IInv, IInv', NEW w \in Workers, Mark(w) PROVE Counted!Next
<1> PICK d : d = Demoted(w)
  OBVIOUS
<1>1. d \in Items /\ job[w].match \in Match
  BY MarkedIsTrue DEF Mark
<1>2. /\ text' = text /\ status'[d] = job[w].match.status
      /\ \A i \in Items \ {d} : status'[i] = status[i] /\ original'[i] = original[i]
  BY <1>1 DEF Mark, IInv, TypeOK
<1>3. \A i \in Items \ {d} : Under(i)' = Under(i)
  BY <1>2 DEF Under, IsDuplicate
<1>4. CASE job[w].match.status = "confirmed"
  <2>1. TypeOK'
    BY DEF IInv
  <2>2. original'[d] \in Items \cup {None} /\ original'[d] # None
    BY <1>1, <1>2, <1>4, <2>1 DEF TypeOK
  <2>3. original'[d] \in Items /\ IsDuplicate(d)'
    BY <1>2, <1>4, <2>2 DEF IsDuplicate
  <2>4. \A i \in {d} : IsDuplicate(i)' /\ original'[i] = original'[d]
    BY <2>3
  <2>5. {d} \in SUBSET Items
    BY <1>1
  <2>6. text' = text
    BY <1>2
  <2> QED
    BY <1>3, <2>3, <2>4, <2>5, <2>6, CountStep
<1>5. CASE job[w].match.status # "confirmed"
  <2>1. Under(d)' = d
    BY <1>2, <1>5 DEF Under, IsDuplicate
  <2>2. [i \in Items |-> IF IsDuplicate(i)' THEN original'[i] ELSE i]
          = [[i \in Items |-> Under(i)] EXCEPT ![d] = d]
    BY <1>3, <2>1 DEF Under
  <2>3. Counted!Release(d)
    BY <1>2, <2>2 DEF Counted!Release, Under
  <2> QED
    BY <1>1, <2>3 DEF Counted!Next
<1> QED
  BY <1>4, <1>5

LEMMA RepointCounts ==
    ASSUME IInv, IInv', NEW w \in Workers, Repoint(w) PROVE Counted!Next
<1> PICK d, k : d = Demoted(w) /\ k = job[w].match.keep
  OBVIOUS
<1> DEFINE S == {i \in Items : status[i] = "confirmed" /\ original[i] = d}
<1>1. d \in Items /\ k \in Items /\ k # None
  BY MarkedIsTrue, DuplicatesAssumption DEF Repoint
<1>2. /\ original' = [i \in Items |-> IF i \in S THEN k ELSE original[i]]
      /\ status' = status /\ text' = text
  BY DEF Repoint
<1>3. \A i \in S : IsDuplicate(i)' /\ original'[i] = k
  BY <1>1, <1>2 DEF IsDuplicate
<1>4. \A i \in Items \ S : Under(i)' = Under(i)
  BY <1>2 DEF Under, IsDuplicate
<1> HIDE DEF S
<1>5. S \in SUBSET Items
  BY DEF S
<1> QED
  BY <1>1, <1>2, <1>3, <1>4, <1>5, CountStep

(***************************************************************************)
(* Marking implements Conversations: in every behaviour of the overlapping *)
(* checks each step is, to what the evidence is counted under, one of its  *)
(* steps or none.  It rests on the invariants above: the step's own rows   *)
(* do not show that the item they point at is as long, or of the same      *)
(* conversation.                                                           *)
(***************************************************************************)
THEOREM ChecksMeetConversations == Spec => MeetsConversations
<1>1. Init => Counted!Init
  BY DEF Init, Counted!Init, IsDuplicate
<1>2. IInv /\ IInv' /\ [Next]_vars => [Counted!Next]_(Counted!counted)
  <2> SUFFICES ASSUME IInv, IInv', [Next]_vars PROVE [Counted!Next]_(Counted!counted)
    OBVIOUS
  <2>1. ASSUME NEW w \in Workers, NEW i \in Items, Load(w, i)
        PROVE  UNCHANGED Counted!counted
    BY <2>1, RestsOnRows DEF Load
  <2>2. ASSUME NEW w \in Workers, Find(w) PROVE UNCHANGED Counted!counted
    BY <2>2, RestsOnRows DEF Find
  <2>3. CASE UNCHANGED vars
    BY <2>3, RestsOnRows DEF vars
  <2> QED
    BY <2>1, <2>2, <2>3, IngestCounts, AcquireCounts, MarkCounts, RepointCounts DEF Next
<1> QED
  BY <1>1, <1>2, InvariantHolds, PTL DEF Spec, MeetsConversations, Counted!Spec

-----------------------------------------------------------------------------
(* What is spoken.                                                         *)

Cue == [start : Nat, text : CueTexts, formatted : CueTexts]

\* What is spoken is spoken in its order.
Spoken(seq) ==
    /\ seq \in Seq(Cue)
    /\ \A m, n \in DOMAIN seq : m < n => seq[m].start <= seq[n].start

LEMMA SpokenKeeps == Spoken(cues) /\ [Speaking]_cues => Spoken(cues)'
<1> SUFFICES ASSUME Spoken(cues), [Speaking]_cues PROVE Spoken(cues')
  BY DEF Spoken
<1>1. CASE UNCHANGED cues
  BY <1>1
<1>2. CASE Speaking
  <2>1. PICK pause \in {0, 2}, speech \in CueTexts, formatted \in CueTexts : Speak(pause, speech, formatted)
    BY <1>2 DEF Speaking
  <2>2. PICK n \in Nat : n = Len(cues) /\ cues \in Seq(Cue) /\ DOMAIN cues = 1 .. n
    BY DEF Spoken
  <2>3. PICK before : before = IF cues = <<>> THEN 0 ELSE Last(cues).start
    OBVIOUS
  <2>4. before \in Nat /\ \A m \in 1 .. n : cues[m].start <= before /\ cues[m].start \in Nat
    <3>1. CASE cues = <<>>
      BY <2>2, <2>3, <3>1
    <3>2. CASE cues # <<>>
      <4>1. n \in 1 .. n
        BY <2>2, <3>2, EmptySeq
      <4>2. before = cues[n].start
        BY <2>2, <2>3, <3>2 DEF Last
      <4>3. \A m \in 1 .. n : cues[m] \in Cue
        BY <2>2, ElementOfSeq
      <4>4. \A m \in 1 .. n : cues[m].start \in Nat
        BY <4>3 DEF Cue
      <4>5. \A m \in 1 .. n : m < n => cues[m].start <= cues[n].start
        BY <2>2, <4>1 DEF Spoken
      <4>6. \A m \in 1 .. n : m = n \/ m < n
        OBVIOUS
      <4> QED
        BY <4>1, <4>2, <4>4, <4>5, <4>6
    <3> QED
      BY <3>1, <3>2
  <2>5. PICK cue \in Cue : cue.start = before + pause /\ cues' = Append(cues, cue)
    <3>1. before + pause \in Nat
      BY <2>4
    <3>2. [start |-> before + pause, text |-> speech, formatted |-> formatted] \in Cue
      BY <3>1 DEF Cue
    <3> QED
      BY <2>1, <2>3, <3>2 DEF Speak
  <2>6. PICK t : t = cues'
    OBVIOUS
  <2>7. /\ t \in Seq(Cue) /\ DOMAIN t = 1 .. (n + 1)
        /\ t[n + 1] = cue /\ \A m \in 1 .. n : t[m] = cues[m]
    BY <2>2, <2>5, <2>6
  <2>8. ASSUME NEW m \in 1 .. (n + 1), NEW k \in 1 .. (n + 1), m < k PROVE t[m].start <= t[k].start
    <3>1. m \in 1 .. n
      BY <2>8
    <3>2. CASE k = n + 1
      <4>1. cues[m].start <= before /\ cues[m].start \in Nat /\ pause \in Nat
        BY <2>4, <3>1
      <4> QED
        BY <2>4, <2>5, <2>7, <3>1, <3>2, <4>1
    <3>3. CASE k # n + 1
      <4>1. k \in 1 .. n
        BY <3>3
      <4> QED
        BY <2>2, <2>7, <2>8, <3>1, <4>1 DEF Spoken
    <3> QED
      BY <3>2, <3>3
  <2> QED
    BY <2>6, <2>7, <2>8 DEF Spoken
<1> QED
  BY <1>1, <1>2

LEMMA SpokenAlways == TranscriptsSpec => []Spoken(cues)
<1>1. TranscriptsInit => Spoken(cues)
  BY DEF TranscriptsInit, Spoken
<1> QED
  BY <1>1, SpokenKeeps, PTL DEF TranscriptsSpec

-----------------------------------------------------------------------------
(* Texts of known length.                                                  *)

Long(s, n) == s \in Seq(Letters) /\ Len(s) = n /\ DOMAIN s = 1 .. n

\* There is a letter at i.
Solid(s, i) == s[i] # " "

LEMMA HasLength == ASSUME NEW s \in Seq(Letters) PROVE \E n \in Nat : Long(s, n)
<1>1. PICK n \in Nat : n = Len(s)
  OBVIOUS
<1>2. DOMAIN s = 1 .. n
  BY <1>1
<1> QED
  BY <1>1, <1>2 DEF Long

LEMMA SpeechIs ==
  ASSUME NEW w, Speech(w)
  PROVE  \E n \in Nat \ {0} : Long(w, n) /\ Solid(w, 1) /\ Solid(w, n)
<1>1. w \in Seq(Letters) /\ w # <<>>
  BY DEF Speech
<1>2. PICK n \in Nat : Long(w, n)
  BY <1>1, HasLength
<1>3. n # 0
  BY <1>1, <1>2, EmptySeq DEF Long
<1> QED
  BY <1>2, <1>3 DEF Speech, Long, Solid

LEMMA IsSpeech ==
  ASSUME NEW w, NEW n \in Nat \ {0}, Long(w, n), Solid(w, 1), Solid(w, n)
  PROVE  Speech(w)
<1>1. w # <<>>
  <2>1. Len(<<>>) = 0
    OBVIOUS
  <2> QED
    BY <2>1 DEF Long
<1> QED
  BY <1>1 DEF Speech, Long, Solid

\* The part of s from a to b.
Piece(t, s, a, b, n) ==
    /\ a \in 1 .. n /\ b \in a .. n /\ Long(t, b - a + 1)
    /\ \A i \in 1 .. b - a + 1 : t[i] = s[a + i - 1]

LEMMA SubSeqIsPart ==
  ASSUME NEW s, NEW n \in Nat, Long(s, n), NEW a \in 1 .. n, NEW b \in a .. n
  PROVE  Piece(SubSeq(s, a, b), s, a, b, n)
<1>1. \A i \in a .. b : s[i] \in Letters
  <2>1. \A i \in 1 .. n : s[i] \in Letters
    BY ElementOfSeq DEF Long
  <2> QED
    BY <2>1
<1>2. PICK t : t = SubSeq(s, a, b)
  OBVIOUS
<1>3. a \in Int /\ b \in Int /\ a <= b
  OBVIOUS
<1>4. t \in Seq(Letters) /\ Len(t) = b - a + 1 /\ \A i \in 1 .. b - a + 1 : t[i] = s[a + i - 1]
  BY <1>1, <1>2, <1>3, SubSeqProperties
<1>5. PICK m \in Nat : m = b - a + 1
  OBVIOUS
<1>6. DOMAIN t = 1 .. m
  BY <1>4, <1>5
<1> QED
  BY <1>2, <1>4, <1>5, <1>6 DEF Piece, Long

\* What is left of a text without the spaces at its ends.
LEMMA StrippedIs ==
  ASSUME NEW s, NEW n \in Nat, Long(s, n)
  PROVE  \/ Stripped(s) = <<>> /\ \A i \in 1 .. n : ~ Solid(s, i)
         \/ \E a \in 1 .. n : \E b \in a .. n :
               Piece(Stripped(s), s, a, b, n) /\ Solid(s, a) /\ Solid(s, b)
<1> DEFINE solid == {i \in DOMAIN s : Solid(s, i)}
<1>1. DOMAIN s = 1 .. n
  BY DEF Long
<1>2. CASE solid = {}
  BY <1>1, <1>2 DEF Stripped, Solid
<1>3. CASE solid # {}
  <2>1. solid \in SUBSET (1 .. n)
    BY <1>1
  <2>9. Min(solid) \in solid /\ Max(solid) \in solid /\ Min(solid) <= Max(solid)
    <3> HIDE DEF solid
    <3> QED
      BY <1>3, <2>1, EndsOf
  <2>2. PICK a \in 1 .. n, b \in 1 .. n : a = Min(solid) /\ b = Max(solid)
    BY <2>1, <2>9
  <2>3. a \in solid /\ b \in solid /\ a <= b
    BY <2>2, <2>9
  <2>4. Stripped(s) = SubSeq(s, a, b)
    BY <1>3, <2>2 DEF Stripped, Solid
  <2>5. a \in 1 .. n /\ b \in 1 .. n /\ Solid(s, a) /\ Solid(s, b)
    BY <1>1, <2>3
  <2>8. a <= b
    BY <2>3
  <2> HIDE DEF solid
  <2>6. b \in a .. n
    BY <2>5, <2>8
  <2>7. Piece(Stripped(s), s, a, b, n)
    BY <2>4, <2>5, <2>6, SubSeqIsPart
  <2> QED
    BY <2>5, <2>6, <2>7
<1> QED
  BY <1>2, <1>3

LEMMA StrippedIsSpeech ==
  ASSUME NEW s, NEW n \in Nat, Long(s, n)
  PROVE  Stripped(s) = <<>> \/ Speech(Stripped(s))
<1>1. PICK t : t = Stripped(s)
  OBVIOUS
<1> SUFFICES ASSUME NEW a \in 1 .. n, NEW b \in a .. n, Piece(t, s, a, b, n),
                    Solid(s, a), Solid(s, b)
             PROVE  Speech(t)
  BY <1>1, StrippedIs
<1>2. a \in Int /\ b \in Int /\ a <= b
  OBVIOUS
<1>9. b - a + 1 \in Nat \ {0}
  BY <1>2
<1>3. PICK m \in Nat \ {0} : m = b - a + 1
  BY <1>9
<1>4. Long(t, m) /\ \A i \in 1 .. m : t[i] = s[a + i - 1]
  BY <1>3 DEF Piece
<1>5. 1 \in 1 .. m /\ m \in 1 .. m /\ a + 1 - 1 = a /\ a + m - 1 = b
  BY <1>2, <1>3
<1>6. t[1] = s[a]
  BY <1>4, <1>5
<1>7. t[m] = s[b]
  BY <1>4, <1>5
<1>8. Solid(t, 1) /\ Solid(t, m)
  BY <1>6, <1>7 DEF Solid
<1> QED
  BY <1>4, <1>8, IsSpeech

LEMMA SuffixIsSpeech ==
  ASSUME NEW existing, NEW incoming \in CueTexts
  PROVE  NewSuffix(existing, incoming) = <<>> \/ Speech(NewSuffix(existing, incoming))
<1> DEFINE repeated == {n \in DOMAIN incoming : IsSuffix(SubSeq(incoming, 1, n), Tail300(existing))}
<1>1. Speech(incoming)
  BY TranscriptsAssumption
<1>2. CASE existing = <<>> \/ repeated = {}
  BY <1>1, <1>2 DEF NewSuffix
<1>3. CASE existing # <<>> /\ repeated # {}
  <2>1. PICK n \in Nat \ {0} : Long(incoming, n)
    BY <1>1, SpeechIs
  <2>2. DOMAIN incoming = 1 .. n /\ Len(incoming) = n
    BY <2>1 DEF Long
  <2>3. repeated \in SUBSET (1 .. n)
    BY <2>2
  <2>4. PICK m : m = Max(repeated)
    OBVIOUS
  <2>5. m \in 1 .. n
    <3> HIDE DEF repeated
    <3> QED
      BY <1>3, <2>3, <2>4, EndsOf
  <2>6. PICK r : r = SubSeq(incoming, m + 1, n)
    OBVIOUS
  <2>7. NewSuffix(existing, incoming) = Stripped(r)
    BY <1>3, <2>2, <2>4, <2>6 DEF NewSuffix
  <2>8. CASE m = n
    <3>1. n \in Int /\ n + 1 \in Int /\ n < n + 1
      OBVIOUS
    <3>2. r = <<>>
      BY <2>6, <2>8, <3>1, SubSeqEmpty
    <3>3. Stripped(r) = <<>>
      BY <3>2 DEF Stripped
    <3> QED
      BY <2>7, <3>3
  <2>9. CASE m # n
    <3>6. m + 1 \in 1 .. n /\ n \in m + 1 .. n
      BY <2>5, <2>9
    <3>1. PICK a \in 1 .. n : a = m + 1 /\ n \in a .. n
      BY <3>6
    <3>2. Piece(r, incoming, a, n, n)
      BY <2>1, <2>6, <3>1, SubSeqIsPart
    <3>5. a \in Nat /\ a <= n
      OBVIOUS
    <3>3. PICK k \in Nat : k = n - a + 1
      BY <3>5
    <3>4. Long(r, k)
      BY <3>2, <3>3 DEF Piece
    <3> QED
      BY <2>7, <3>4, StrippedIsSpeech
  <2> QED
    BY <2>8, <2>9
<1> QED
  BY <1>2, <1>3

\* One piece after another, with a space between them.
Spaced(x, t, m, w, n) ==
    /\ x = t \o Gap(t) \o w /\ Long(x, m + 1 + n) /\ Begins(t) = m + 1
    /\ \A i \in 1 .. m : x[i] = t[i]
    /\ ~ Solid(x, m + 1)
    /\ \A i \in 1 .. n : x[m + 1 + i] = w[i]

LEMMA JoinedIs ==
  ASSUME NEW t, NEW m \in Nat \ {0}, Long(t, m), NEW w, NEW n \in Nat, Long(w, n)
  PROVE  \E x : Spaced(x, t, m, w, n)
<1>1. t # <<>>
  <2>1. Len(<<>>) = 0
    OBVIOUS
  <2> QED
    BY <2>1 DEF Long
<1>2. PICK j \in Nat : j = 1
  OBVIOUS
<1>3. PICK g : g = Gap(t)
  OBVIOUS
<1>4. g \in Seq(Letters) /\ Len(g) = j /\ ~ Solid(g, 1)
  <2>1. PICK c \in Letters : c = " "
    BY DEF Letters
  <2>2. g = <<c>>
    BY <1>1, <1>3, <2>1 DEF Gap
  <2>3. g \in Seq(Letters) /\ Len(g) = 1 /\ g[1] = c
    BY <2>2
  <2> QED
    BY <1>2, <2>1, <2>3 DEF Solid
<1>5. t \in Seq(Letters) /\ Len(t) = m /\ w \in Seq(Letters) /\ Len(w) = n
  BY DEF Long
<1>6. PICK y \in Seq(Letters) : Concat(y, t, m, g, j)
  BY <1>4, <1>5, ConcatHas
<1>7. PICK k \in Nat : k = m + j /\ k = m + 1
  BY <1>2
<1>15. Len(y) = k
  BY <1>6, <1>7 DEF Concat
<1>8. PICK x \in Seq(Letters) : Concat(x, y, k, w, n)
  BY <1>5, <1>15, ConcatHas
<1>9. Long(x, m + 1 + n)
  BY <1>7, <1>8 DEF Long, Concat
<1>10. \A i \in 1 .. m : x[i] = t[i]
  <2>1. \A i \in 1 .. m : i \in 1 .. k
    BY <1>7
  <2> QED
    BY <1>6, <1>8, <2>1 DEF Concat
<1>11. ~ Solid(x, m + 1)
  <2>1. m + 1 \in 1 .. k /\ 1 \in 1 .. j
    BY <1>2, <1>7
  <2>2. x[m + 1] = y[m + 1] /\ y[m + 1] = g[1]
    BY <1>6, <1>8, <2>1 DEF Concat
  <2> QED
    BY <1>4, <2>2 DEF Solid
<1>12. \A i \in 1 .. n : x[m + 1 + i] = w[i]
  BY <1>7, <1>8 DEF Concat
<1>13. x = t \o Gap(t) \o w
  BY <1>3, <1>6, <1>8 DEF Concat
<1>14. Begins(t) = m + 1
  BY <1>3, <1>6, <1>7, <1>15 DEF Begins, Concat
<1> QED
  BY <1>9, <1>10, <1>11, <1>12, <1>13, <1>14 DEF Spaced

-----------------------------------------------------------------------------
(* Text with anchors.                                                      *)

AnchorRow == [at : Nat, position : Nat]

Anchors == Seq(AnchorRow)

Flats == [text : Seq(Letters), anchors : Anchors]

\* Offsets rise, times do not fall.
Rising(anchors) ==
    \A m, n \in DOMAIN anchors : m < n => /\ anchors[m].position < anchors[n].position
                                         /\ anchors[m].at <= anchors[n].at

\* A word begins after p.
WordAt(speech, n, p) == p \in 0 .. n - 1 /\ Solid(speech, p + 1) /\ (p = 0 \/ ~ Solid(speech, p))

Anchored(flat) ==
    \E n \in Nat : /\ Long(flat.text, n)
                   /\ \A k \in DOMAIN flat.anchors : WordAt(flat.text, n, flat.anchors[k].position)

\* Nothing said so far, or something.
Marked(flat) ==
    /\ flat \in Flats /\ Rising(flat.anchors) /\ Anchored(flat)
    /\ flat.text = <<>> \/ Speech(flat.text)

UpToNow(flat, now) == \A n \in DOMAIN flat.anchors : flat.anchors[n].at <= now

\* What is appended begins where the text ended, or after a space.
LEMMA AppendedText ==
  ASSUME NEW t, t = <<>> \/ Speech(t), NEW w, Speech(w), NEW m \in Nat, Long(t, m)
  PROVE  \E x : \E n \in Nat :
            /\ x = t \o Gap(t) \o w /\ Speech(x) /\ Long(x, n)
            /\ m <= Begins(t) /\ WordAt(x, n, Begins(t))
            /\ \A i \in 1 .. m : x[i] = t[i] /\ (Solid(x, i) <=> Solid(t, i))
<1>1. PICK l \in Nat \ {0} : Long(w, l) /\ Solid(w, 1) /\ Solid(w, l)
  BY SpeechIs
<1>2. CASE t = <<>>
  <2>1. Gap(t) = <<>> /\ Len(<<>>) = 0 /\ m = 0
    BY <1>2 DEF Gap, Long
  <2>2. PICK x : x = t \o Gap(t) \o w
    OBVIOUS
  <2>3. w \in Seq(Letters)
    BY <1>1 DEF Long
  <2>4. x = w
    BY <1>2, <2>1, <2>2, <2>3
  <2>5. Begins(t) = 0
    BY <1>2, <2>1 DEF Begins
  <2>6. 0 \in 0 .. l - 1 /\ 0 + 1 = 1 /\ 1 .. 0 = {}
    OBVIOUS
  <2>7. WordAt(x, l, Begins(t))
    BY <1>1, <2>4, <2>5, <2>6 DEF WordAt
  <2>8. Speech(x) /\ Long(x, l) /\ m <= Begins(t)
    BY <1>1, <2>1, <2>4, <2>5
  <2>9. \A i \in 1 .. m : x[i] = t[i] /\ (Solid(x, i) <=> Solid(t, i))
    BY <2>1, <2>6
  <2> QED
    BY <2>2, <2>7, <2>8, <2>9
<1>3. CASE t # <<>>
  <2>1. PICK k \in Nat \ {0} : Long(t, k) /\ Solid(t, 1) /\ Solid(t, k)
    BY <1>3, SpeechIs
  <2>2. k = m
    BY <2>1 DEF Long
  <2>13. PICK x : Spaced(x, t, m, w, l)
    BY <1>1, <2>1, <2>2, JoinedIs
  <2>3. /\ x = t \o Gap(t) \o w /\ Long(x, m + 1 + l) /\ Begins(t) = m + 1
        /\ \A i \in 1 .. m : x[i] = t[i]
        /\ ~ Solid(x, m + 1)
        /\ \A i \in 1 .. l : x[m + 1 + i] = w[i]
    BY <2>13 DEF Spaced
  <2>4. PICK n \in Nat \ {0} : n = m + 1 + l
    OBVIOUS
  <2>5. 1 \in 1 .. l /\ l \in 1 .. l /\ 1 \in 1 .. m
    BY <2>2
  <2>6. x[m + 1 + 1] = w[1] /\ x[m + 1 + l] = w[l] /\ x[1] = t[1]
    BY <2>3, <2>5
  <2>7. Solid(x, m + 1 + 1) /\ Solid(x, n) /\ Solid(x, 1)
    BY <1>1, <2>1, <2>4, <2>6 DEF Solid
  <2>8. Long(x, n)
    BY <2>3, <2>4
  <2>9. Speech(x)
    BY <2>7, <2>8, IsSpeech
  <2>10. m + 1 \in 0 .. n - 1 /\ m <= m + 1
    BY <2>4
  <2>11. WordAt(x, n, Begins(t))
    BY <2>3, <2>7, <2>10 DEF WordAt
  <2>12. \A i \in 1 .. m : Solid(x, i) <=> Solid(t, i)
    BY <2>3 DEF Solid
  <2> QED
    BY <2>3, <2>8, <2>9, <2>10, <2>11, <2>12
<1> QED
  BY <1>2, <1>3

LEMMA AppendedKeeps ==
  ASSUME NEW flat, Marked(flat), NEW w, Speech(w), NEW at \in Nat, UpToNow(flat, at)
  PROVE  Marked(Appended(flat, at, w)) /\ UpToNow(Appended(flat, at, w), at)
<1>1. PICK t, old : t = flat.text /\ old = flat.anchors
  OBVIOUS
<1>2. old \in Anchors /\ Rising(old) /\ (t = <<>> \/ Speech(t))
  BY <1>1 DEF Marked, Flats
<1>3. PICK m \in Nat : Long(t, m) /\ \A k \in DOMAIN old : WordAt(t, m, old[k].position)
  BY <1>1 DEF Marked, Anchored
<1>4. PICK b : b = Begins(t)
  OBVIOUS
<1>5. PICK x : \E n \in Nat :
            /\ x = t \o Gap(t) \o w /\ Speech(x) /\ Long(x, n)
            /\ m <= Begins(t) /\ WordAt(x, n, Begins(t))
            /\ \A i \in 1 .. m : x[i] = t[i] /\ (Solid(x, i) <=> Solid(t, i))
  BY <1>2, <1>3, AppendedText
<1>6. PICK n \in Nat :
            /\ x = t \o Gap(t) \o w /\ Speech(x) /\ Long(x, n)
            /\ m <= b /\ WordAt(x, n, b)
            /\ \A i \in 1 .. m : x[i] = t[i] /\ (Solid(x, i) <=> Solid(t, i))
  BY <1>4, <1>5
<1>7. b \in Nat /\ b \in 0 .. n - 1 /\ m <= n
  BY <1>6 DEF WordAt
<1>8. PICK anchor : anchor = Anchor(at, b)
  OBVIOUS
<1>20. anchor \in AnchorRow /\ anchor.at = at /\ anchor.position = b
  <2>1. anchor = [at |-> at, position |-> b]
    BY <1>8 DEF Anchor
  <2>2. b \in Nat
    BY <1>7
  <2> QED
    BY <2>1, <2>2 DEF AnchorRow
<1>9. PICK l \in Nat : l = Len(old) /\ DOMAIN old = 1 .. l
  BY <1>2 DEF Anchors
<1>10. PICK new : new = Append(old, anchor)
  OBVIOUS
<1>11. /\ new \in Anchors /\ DOMAIN new = 1 .. (l + 1)
       /\ new[l + 1] = anchor /\ \A i \in 1 .. l : new[i] = old[i]
  BY <1>2, <1>9, <1>10, <1>20 DEF Anchors
<1>12. \A i \in 1 .. l : /\ old[i].position \in Nat /\ old[i].at \in Nat
                          /\ old[i].position < m /\ old[i].at <= at
  <2>1. \A i \in 1 .. l : old[i].position \in Nat /\ old[i].at \in Nat
    <3>1. \A i \in 1 .. l : old[i] \in AnchorRow
      BY <1>2, <1>9, ElementOfSeq DEF Anchors
    <3> QED
      BY <3>1 DEF AnchorRow
  <2>2. \A i \in 1 .. l : old[i].at <= at
    BY <1>1, <1>9 DEF UpToNow
  <2>3. \A i \in 1 .. l : old[i].position < m
    BY <1>3, <1>9 DEF WordAt
  <2> QED
    BY <2>1, <2>2, <2>3
<1>13. PICK r : r = Appended(flat, at, w)
  OBVIOUS
<1>14. r = [text |-> x, anchors |-> new]
  BY <1>1, <1>4, <1>6, <1>8, <1>10, <1>13 DEF Appended
<1>15. \A i \in 1 .. (l + 1) : i = l + 1 \/ i \in 1 .. l
  OBVIOUS
<1>16. Rising(new)
  <2> SUFFICES ASSUME NEW i \in 1 .. (l + 1), NEW j \in 1 .. (l + 1), i < j
               PROVE  new[i].position < new[j].position /\ new[i].at <= new[j].at
    BY <1>11 DEF Rising
  <2>1. i \in 1 .. l
    OBVIOUS
  <2>2. CASE j = l + 1
    <3>1. new[i] = old[i] /\ new[j] = anchor
      BY <1>11, <2>1, <2>2
    <3>2. /\ old[i].position \in Nat /\ old[i].position < m
          /\ old[i].at <= at
      BY <1>12, <2>1
    <3> QED
      BY <1>6, <1>7, <1>20, <3>1, <3>2
  <2>3. CASE j # l + 1
    <3>1. j \in 1 .. l
      BY <2>3
    <3>2. old[i].position < old[j].position /\ old[i].at <= old[j].at
      BY <1>2, <1>9, <2>1, <3>1 DEF Rising
    <3> QED
      BY <1>11, <2>1, <3>1, <3>2
  <2> QED
    BY <2>2, <2>3
<1>17. ASSUME NEW i \in 1 .. (l + 1) PROVE WordAt(x, n, new[i].position) /\ new[i].at <= at
  <2>1. CASE i = l + 1
    BY <1>6, <1>20, <1>11, <2>1
  <2>2. CASE i \in 1 .. l
    <3>1. PICK p \in Nat : p = old[i].position /\ p < m
      BY <1>12, <2>2
    <3>2. WordAt(t, m, p)
      BY <1>3, <1>9, <2>2, <3>1
    <3>3. p \in 0 .. n - 1 /\ p + 1 \in 1 .. m /\ (p = 0 \/ p \in 1 .. m)
      BY <1>7, <3>1
    <3>4. WordAt(x, n, p)
      BY <1>6, <3>2, <3>3 DEF WordAt
    <3> QED
      BY <1>11, <1>12, <2>2, <3>1, <3>4
  <2> QED
    BY <1>15, <2>1, <2>2
<1>18. Anchored(r) /\ UpToNow(r, at)
  BY <1>6, <1>11, <1>14, <1>17 DEF Anchored, UpToNow
<1>19. r \in Flats
  BY <1>6, <1>11, <1>14 DEF Flats, Long
<1> QED
  BY <1>6, <1>13, <1>14, <1>16, <1>18, <1>19 DEF Marked

-----------------------------------------------------------------------------
(* Loops, turn by turn: one lemma for each, as a turn cannot be a parameter.*)

\* Text and anchors of the first pieces, for every number of them.
LEMMA FlatRuns ==
  ASSUME NEW seq, NEW rolling, NEW n \in Nat, DOMAIN seq = 1 .. n, NEW A, Empty \in A,
         \A a \in A : \A k \in 1 .. n : Added(a, seq[k], rolling) \in A
  PROVE  \E g : /\ g[0] = Empty /\ \A k \in 1 .. n : g[k] = Added(g[k - 1], seq[k], rolling)
               /\ Flat(seq, rolling) = g[n]
<1> DEFINE step == [p \in (1 .. n) \X A |-> Added(p[2], seq[p[1]], rolling)]
           Iter(f) == f = [s \in SUBSET (1 .. n) |->
                              IF s = {} THEN Empty ELSE Added(f[s \ {Max(s)}], seq[Max(s)], rolling)]
           f1 == CHOOSE f : Iter(f)
<1>1. PICK h \in [SUBSET (1 .. n) -> A] : Folding(h, Empty, step, SUBSET (1 .. n))
  <2>1. step \in [(1 .. n) \X A -> A]
    <3> SUFFICES ASSUME NEW p \in (1 .. n) \X A PROVE Added(p[2], seq[p[1]], rolling) \in A
      OBVIOUS
    <3>1. p[1] \in 1 .. n /\ p[2] \in A
      OBVIOUS
    <3> QED
      BY <3>1
  <2> HIDE DEF step
  <2> QED
    BY <2>1, FoldExists
<1>2. Iter(h)
  <2> SUFFICES ASSUME NEW s \in SUBSET (1 .. n)
               PROVE  h[s] = IF s = {} THEN Empty ELSE Added(h[s \ {Max(s)}], seq[Max(s)], rolling)
    BY <1>1 DEF Folding
  <2>1. h[s] = IF s = {} THEN Empty ELSE step[<<Max(s), h[s \ {Max(s)}]>>]
    BY <1>1 DEF Folding
  <2>2. CASE s # {}
    <3>1. Max(s) \in 1 .. n /\ h[s \ {Max(s)}] \in A
      BY <1>1, <2>2, MaxIsIn
    <3>2. <<Max(s), h[s \ {Max(s)}]>> \in (1 .. n) \X A
      BY <3>1
    <3> QED
      BY <2>1, <2>2, <3>2
  <2> QED
    BY <2>1, <2>2
<1>3. Iter(f1)
  <2> HIDE DEF Iter
  <2> QED
    BY <1>2
<1>4. Flat(seq, rolling) = f1[1 .. n]
  BY DEF Flat, FoldLeft, MapThenFoldSet
<1> HIDE DEF f1
<1> DEFINE g == [k \in 0 .. n |-> f1[1 .. k]]
<1>5. g[0] = Empty
  <2>1. 1 .. 0 = {} /\ {} \in SUBSET (1 .. n)
    OBVIOUS
  <2> QED
    BY <1>3, <2>1
<1>6. ASSUME NEW k \in 1 .. n PROVE g[k] = Added(g[k - 1], seq[k], rolling)
  <2>1. /\ 1 .. k # {} /\ 1 .. k \in SUBSET (1 .. n) /\ k \in 0 .. n /\ k - 1 \in 0 .. n
        /\ Max(1 .. k) = k /\ (1 .. k) \ {k} = 1 .. (k - 1)
    BY PrefixIs
  <2> DEFINE s == 1 .. k
  <2>2. f1[s] = Added(f1[s \ {Max(s)}], seq[Max(s)], rolling)
    BY <1>3, <2>1
  <2> QED
    BY <2>1, <2>2
<1>7. Flat(seq, rolling) = g[n]
  BY <1>4
<1> HIDE DEF g
<1> QED
  BY <1>5, <1>6, <1>7

\* What is located of the first words.
LEMMA LocatedRuns ==
  ASSUME NEW speech, NEW seq, NEW n \in Nat, DOMAIN seq = 1 .. n, NEW A, NotLocated \in A,
         \A a \in A : \A k \in 1 .. n : Locate(speech, a, seq[k]) \in A
  PROVE  \E g : /\ g[0] = NotLocated /\ \A k \in 1 .. n : g[k] = Locate(speech, g[k - 1], seq[k])
               /\ Located(speech, seq) = g[n]
<1> DEFINE step == [p \in (1 .. n) \X A |-> Locate(speech, p[2], seq[p[1]])]
           Iter(f) == f = [s \in SUBSET (1 .. n) |->
                              IF s = {} THEN NotLocated ELSE Locate(speech, f[s \ {Max(s)}], seq[Max(s)])]
           f1 == CHOOSE f : Iter(f)
<1>1. PICK h \in [SUBSET (1 .. n) -> A] : Folding(h, NotLocated, step, SUBSET (1 .. n))
  <2>1. step \in [(1 .. n) \X A -> A]
    <3> SUFFICES ASSUME NEW p \in (1 .. n) \X A PROVE Locate(speech, p[2], seq[p[1]]) \in A
      OBVIOUS
    <3>1. p[1] \in 1 .. n /\ p[2] \in A
      OBVIOUS
    <3> QED
      BY <3>1
  <2> HIDE DEF step
  <2> QED
    BY <2>1, FoldExists
<1>2. Iter(h)
  <2> SUFFICES ASSUME NEW s \in SUBSET (1 .. n)
               PROVE  h[s] = IF s = {} THEN NotLocated ELSE Locate(speech, h[s \ {Max(s)}], seq[Max(s)])
    BY <1>1 DEF Folding
  <2>1. h[s] = IF s = {} THEN NotLocated ELSE step[<<Max(s), h[s \ {Max(s)}]>>]
    BY <1>1 DEF Folding
  <2>2. CASE s # {}
    <3>1. Max(s) \in 1 .. n /\ h[s \ {Max(s)}] \in A
      BY <1>1, <2>2, MaxIsIn
    <3>2. <<Max(s), h[s \ {Max(s)}]>> \in (1 .. n) \X A
      BY <3>1
    <3> QED
      BY <2>1, <2>2, <3>2
  <2> QED
    BY <2>1, <2>2
<1>3. Iter(f1)
  <2> HIDE DEF Iter
  <2> QED
    BY <1>2
<1>4. Located(speech, seq) = f1[1 .. n]
  BY DEF Located, FoldLeft, MapThenFoldSet
<1> HIDE DEF f1
<1> DEFINE g == [k \in 0 .. n |-> f1[1 .. k]]
<1>5. g[0] = NotLocated
  <2>1. 1 .. 0 = {} /\ {} \in SUBSET (1 .. n)
    OBVIOUS
  <2> QED
    BY <1>3, <2>1
<1>6. ASSUME NEW k \in 1 .. n PROVE g[k] = Locate(speech, g[k - 1], seq[k])
  <2>1. /\ 1 .. k # {} /\ 1 .. k \in SUBSET (1 .. n) /\ k \in 0 .. n /\ k - 1 \in 0 .. n
        /\ Max(1 .. k) = k /\ (1 .. k) \ {k} = 1 .. (k - 1)
    BY PrefixIs
  <2> DEFINE s == 1 .. k
  <2>2. f1[s] = Locate(speech, f1[s \ {Max(s)}], seq[Max(s)])
    BY <1>3, <2>1
  <2> QED
    BY <2>1, <2>2
<1>7. Located(speech, seq) = g[n]
  BY <1>4
<1> HIDE DEF g
<1> QED
  BY <1>5, <1>6, <1>7

\* What is cut off in so many turns.
CutTurns(g, speech, n) ==
    /\ g[0] = Uncut /\ \A k \in 1 .. n : g[k] = Taken(speech, g[k - 1])
    /\ Segments(speech) = g[n].chunks

LEMMA SegmentsRun ==
  ASSUME NEW speech, NEW n \in Nat, DOMAIN speech = 1 .. n, NEW A, Uncut \in A,
         \A a \in A : Taken(speech, a) \in A
  PROVE  \E g : CutTurns(g, speech, n)
<1> DEFINE step == [p \in (1 .. n) \X A |-> Taken(speech, p[2])]
           Iter(f) == f = [s \in SUBSET (1 .. n) |->
                              IF s = {} THEN Uncut ELSE Taken(speech, f[s \ {Max(s)}])]
           f1 == CHOOSE f : Iter(f)
<1>1. PICK h \in [SUBSET (1 .. n) -> A] : Folding(h, Uncut, step, SUBSET (1 .. n))
  <2>1. step \in [(1 .. n) \X A -> A]
    <3> SUFFICES ASSUME NEW p \in (1 .. n) \X A PROVE Taken(speech, p[2]) \in A
      OBVIOUS
    <3>1. p[1] \in 1 .. n /\ p[2] \in A
      OBVIOUS
    <3> QED
      BY <3>1
  <2> HIDE DEF step
  <2> QED
    BY <2>1, FoldExists
<1>2. Iter(h)
  <2> SUFFICES ASSUME NEW s \in SUBSET (1 .. n)
               PROVE  h[s] = IF s = {} THEN Uncut ELSE Taken(speech, h[s \ {Max(s)}])
    BY <1>1 DEF Folding
  <2>1. h[s] = IF s = {} THEN Uncut ELSE step[<<Max(s), h[s \ {Max(s)}]>>]
    BY <1>1 DEF Folding
  <2>2. CASE s # {}
    <3>1. Max(s) \in 1 .. n /\ h[s \ {Max(s)}] \in A
      BY <1>1, <2>2, MaxIsIn
    <3>2. <<Max(s), h[s \ {Max(s)}]>> \in (1 .. n) \X A
      BY <3>1
    <3> QED
      BY <2>1, <2>2, <3>2
  <2> QED
    BY <2>1, <2>2
<1>3. Iter(f1)
  <2> HIDE DEF Iter
  <2> QED
    BY <1>2
<1>4. Segments(speech) = f1[1 .. n].chunks
  BY DEF Segments, Uncut, FoldLeft, MapThenFoldSet
<1> HIDE DEF f1
<1> DEFINE g == [k \in 0 .. n |-> f1[1 .. k]]
<1>5. g[0] = Uncut
  <2>1. 1 .. 0 = {} /\ {} \in SUBSET (1 .. n)
    OBVIOUS
  <2> QED
    BY <1>3, <2>1
<1>6. ASSUME NEW k \in 1 .. n PROVE g[k] = Taken(speech, g[k - 1])
  <2>1. /\ 1 .. k # {} /\ 1 .. k \in SUBSET (1 .. n) /\ k \in 0 .. n /\ k - 1 \in 0 .. n
        /\ Max(1 .. k) = k /\ (1 .. k) \ {k} = 1 .. (k - 1)
    BY PrefixIs
  <2> DEFINE s == 1 .. k
  <2>2. f1[s] = Taken(speech, f1[s \ {Max(s)}])
    BY <1>3, <2>1
  <2> QED
    BY <2>1, <2>2
<1>7. Segments(speech) = g[n].chunks
  BY <1>4
<1> HIDE DEF g
<1> QED
  BY <1>5, <1>6, <1>7 DEF CutTurns

\* What is left to search after so many turns.
SearchTurns(g, anchors, offset, n) ==
    /\ g[0] = Whole(anchors) /\ \A k \in 1 .. n : g[k] = Narrowed(anchors, offset, g[k - 1])
    /\ SecondsAt(anchors, offset) = g[n].best

LEMMA SearchRuns ==
  ASSUME NEW anchors, NEW offset, NEW n \in Nat, DOMAIN anchors = 1 .. n, NEW A, Whole(anchors) \in A,
         \A a \in A : Narrowed(anchors, offset, a) \in A
  PROVE  \E g : SearchTurns(g, anchors, offset, n)
<1> DEFINE step == [p \in (1 .. n) \X A |-> Narrowed(anchors, offset, p[2])]
           Iter(f) == f = [s \in SUBSET (1 .. n) |->
                              IF s = {} THEN Whole(anchors) ELSE Narrowed(anchors, offset, f[s \ {Max(s)}])]
           f1 == CHOOSE f : Iter(f)
<1>1. PICK h \in [SUBSET (1 .. n) -> A] : Folding(h, Whole(anchors), step, SUBSET (1 .. n))
  <2>1. step \in [(1 .. n) \X A -> A]
    <3> SUFFICES ASSUME NEW p \in (1 .. n) \X A PROVE Narrowed(anchors, offset, p[2]) \in A
      OBVIOUS
    <3>1. p[1] \in 1 .. n /\ p[2] \in A
      OBVIOUS
    <3> QED
      BY <3>1
  <2> HIDE DEF step
  <2> QED
    BY <2>1, FoldExists
<1>2. Iter(h)
  <2> SUFFICES ASSUME NEW s \in SUBSET (1 .. n)
               PROVE  h[s] = IF s = {} THEN Whole(anchors) ELSE Narrowed(anchors, offset, h[s \ {Max(s)}])
    BY <1>1 DEF Folding
  <2>1. h[s] = IF s = {} THEN Whole(anchors) ELSE step[<<Max(s), h[s \ {Max(s)}]>>]
    BY <1>1 DEF Folding
  <2>2. CASE s # {}
    <3>1. Max(s) \in 1 .. n /\ h[s \ {Max(s)}] \in A
      BY <1>1, <2>2, MaxIsIn
    <3>2. <<Max(s), h[s \ {Max(s)}]>> \in (1 .. n) \X A
      BY <3>1
    <3> QED
      BY <2>1, <2>2, <3>2
  <2> QED
    BY <2>1, <2>2
<1>3. Iter(f1)
  <2> HIDE DEF Iter
  <2> QED
    BY <1>2
<1>4. SecondsAt(anchors, offset) = f1[1 .. n].best
  BY DEF SecondsAt, FoldLeft, MapThenFoldSet
<1> HIDE DEF f1
<1> DEFINE g == [k \in 0 .. n |-> f1[1 .. k]]
<1>5. g[0] = Whole(anchors)
  <2>1. 1 .. 0 = {} /\ {} \in SUBSET (1 .. n)
    OBVIOUS
  <2> QED
    BY <1>3, <2>1
<1>6. ASSUME NEW k \in 1 .. n PROVE g[k] = Narrowed(anchors, offset, g[k - 1])
  <2>1. /\ 1 .. k # {} /\ 1 .. k \in SUBSET (1 .. n) /\ k \in 0 .. n /\ k - 1 \in 0 .. n
        /\ Max(1 .. k) = k /\ (1 .. k) \ {k} = 1 .. (k - 1)
    BY PrefixIs
  <2> DEFINE s == 1 .. k
  <2>2. f1[s] = Narrowed(anchors, offset, f1[s \ {Max(s)}])
    BY <1>3, <2>1
  <2> QED
    BY <2>1, <2>2
<1>7. SecondsAt(anchors, offset) = g[n].best
  BY <1>4
<1> HIDE DEF g
<1> QED
  BY <1>5, <1>6, <1>7 DEF SearchTurns

\* The batches of the first segments.
LEMMA BatchesRun ==
  ASSUME NEW segments, NEW n \in Nat, DOMAIN segments = 1 .. n, NEW A, NoBatches \in A,
         \A a \in A : \A k \in 1 .. n : Batched(a, segments[k]) \in A
  PROVE  \E g : /\ g[0] = NoBatches /\ \A k \in 1 .. n : g[k] = Batched(g[k - 1], segments[k])
               /\ FoldLeft(Batched, NoBatches, segments) = g[n]
<1> DEFINE step == [p \in (1 .. n) \X A |-> Batched(p[2], segments[p[1]])]
           Iter(f) == f = [s \in SUBSET (1 .. n) |->
                              IF s = {} THEN NoBatches ELSE Batched(f[s \ {Max(s)}], segments[Max(s)])]
           f1 == CHOOSE f : Iter(f)
<1>1. PICK h \in [SUBSET (1 .. n) -> A] : Folding(h, NoBatches, step, SUBSET (1 .. n))
  <2>1. step \in [(1 .. n) \X A -> A]
    <3> SUFFICES ASSUME NEW p \in (1 .. n) \X A PROVE Batched(p[2], segments[p[1]]) \in A
      OBVIOUS
    <3>1. p[1] \in 1 .. n /\ p[2] \in A
      OBVIOUS
    <3> QED
      BY <3>1
  <2> HIDE DEF step
  <2> QED
    BY <2>1, FoldExists
<1>2. Iter(h)
  <2> SUFFICES ASSUME NEW s \in SUBSET (1 .. n)
               PROVE  h[s] = IF s = {} THEN NoBatches ELSE Batched(h[s \ {Max(s)}], segments[Max(s)])
    BY <1>1 DEF Folding
  <2>1. h[s] = IF s = {} THEN NoBatches ELSE step[<<Max(s), h[s \ {Max(s)}]>>]
    BY <1>1 DEF Folding
  <2>2. CASE s # {}
    <3>1. Max(s) \in 1 .. n /\ h[s \ {Max(s)}] \in A
      BY <1>1, <2>2, MaxIsIn
    <3>2. <<Max(s), h[s \ {Max(s)}]>> \in (1 .. n) \X A
      BY <3>1
    <3> QED
      BY <2>1, <2>2, <3>2
  <2> QED
    BY <2>1, <2>2
<1>3. Iter(f1)
  <2> HIDE DEF Iter
  <2> QED
    BY <1>2
<1>4. FoldLeft(Batched, NoBatches, segments) = f1[1 .. n]
  BY DEF FoldLeft, MapThenFoldSet
<1> HIDE DEF f1
<1> DEFINE g == [k \in 0 .. n |-> f1[1 .. k]]
<1>5. g[0] = NoBatches
  <2>1. 1 .. 0 = {} /\ {} \in SUBSET (1 .. n)
    OBVIOUS
  <2> QED
    BY <1>3, <2>1
<1>6. ASSUME NEW k \in 1 .. n PROVE g[k] = Batched(g[k - 1], segments[k])
  <2>1. /\ 1 .. k # {} /\ 1 .. k \in SUBSET (1 .. n) /\ k \in 0 .. n /\ k - 1 \in 0 .. n
        /\ Max(1 .. k) = k /\ (1 .. k) \ {k} = 1 .. (k - 1)
    BY PrefixIs
  <2> DEFINE s == 1 .. k
  <2>2. f1[s] = Batched(f1[s \ {Max(s)}], segments[Max(s)])
    BY <1>3, <2>1
  <2> QED
    BY <2>1, <2>2
<1>7. FoldLeft(Batched, NoBatches, segments) = g[n]
  BY <1>4
<1> HIDE DEF g
<1> QED
  BY <1>5, <1>6, <1>7

-----------------------------------------------------------------------------
(* Anchors.                                                                *)

\* What a piece adds.
Addition(flat, cue, rolling) == IF rolling THEN NewSuffix(flat.text, cue.text) ELSE cue.text

LEMMA AdditionIs ==
  ASSUME NEW flat, NEW cue \in Cue, NEW rolling
  PROVE  Addition(flat, cue, rolling) = <<>> \/ Speech(Addition(flat, cue, rolling))
<1>1. cue.text \in CueTexts
  BY DEF Cue
<1>2. Speech(cue.text)
  BY <1>1, TranscriptsAssumption
<1>3. NewSuffix(flat.text, cue.text) = <<>> \/ Speech(NewSuffix(flat.text, cue.text))
  BY <1>1, SuffixIsSpeech
<1> QED
  BY <1>2, <1>3 DEF Addition

LEMMA AddedIs ==
  ASSUME NEW flat, NEW cue \in Cue, NEW rolling
  PROVE  \/ Added(flat, cue, rolling) = flat
         \/ \E w : Speech(w) /\ Added(flat, cue, rolling) = Appended(flat, cue.start, w)
<1>1. PICK w : w = Addition(flat, cue, rolling)
  OBVIOUS
<1>2. w = <<>> \/ Speech(w)
  BY <1>1, AdditionIs
<1>3. Added(flat, cue, rolling) = IF w = <<>> THEN flat ELSE Appended(flat, cue.start, w)
  BY <1>1 DEF Added, Addition
<1> QED
  BY <1>2, <1>3

LEMMA AppendedIsFlat ==
  ASSUME NEW flat \in Flats, NEW at \in Nat, NEW w, Speech(w)
  PROVE  Appended(flat, at, w) \in Flats
<1>1. PICK t \in Seq(Letters), old \in Anchors : t = flat.text /\ old = flat.anchors
  BY DEF Flats
<1>2. Gap(t) \in Seq(Letters)
  <2>1. PICK c \in Letters : c = " "
    BY DEF Letters
  <2>2. Gap(t) = <<>> \/ Gap(t) = <<c>>
    BY <2>1 DEF Gap
  <2>3. <<c>> \in Seq(Letters) /\ <<>> \in Seq(Letters)
    OBVIOUS
  <2> QED
    BY <2>2, <2>3
<1>3. PICK g \in Seq(Letters) : g = Gap(t)
  BY <1>2
<1>4. w \in Seq(Letters)
  BY DEF Speech
<1>5. t \o g \in Seq(Letters) /\ t \o g \o w \in Seq(Letters)
  BY <1>4
<1>6. PICK b \in Nat : b = Begins(t)
  BY <1>3, <1>5 DEF Begins
<1>7. PICK anchor \in AnchorRow : anchor = Anchor(at, b)
  BY DEF Anchor, AnchorRow
<1>8. Append(old, anchor) \in Anchors
  BY DEF Anchors
<1>9. Appended(flat, at, w) = [text |-> t \o g \o w, anchors |-> Append(old, anchor)]
  BY <1>1, <1>3, <1>6, <1>7 DEF Appended
<1> QED
  BY <1>5, <1>8, <1>9 DEF Flats

LEMMA NothingIsMarked ==
  Empty \in Flats /\ Marked(Empty) /\ \A now : UpToNow(Empty, now)
<1>1. PICK e : e = Empty
  OBVIOUS
<1>2. e.text = <<>> /\ e.anchors = <<>> /\ e = [text |-> <<>>, anchors |-> <<>>]
  BY <1>1 DEF Empty
<1>3. e \in Flats
  BY <1>2 DEF Flats, Anchors
<1>4. Long(e.text, 0)
  BY <1>2 DEF Long
<1>5. DOMAIN e.anchors = {}
  BY <1>2
<1>6. Anchored(e)
  BY <1>4, <1>5 DEF Anchored
<1> QED
  BY <1>1, <1>2, <1>3, <1>5, <1>6 DEF Marked, Rising, UpToNow

\* Text and anchors agree after every piece.
LEMMA FlatIsMarked ==
  ASSUME NEW seq, Spoken(seq), NEW rolling PROVE Marked(Flat(seq, rolling))
<1>1. PICK n \in Nat : n = Len(seq) /\ DOMAIN seq = 1 .. n
  BY DEF Spoken
<1>2. \A k \in 1 .. n : seq[k] \in Cue
  BY <1>1, ElementOfSeq DEF Spoken
<1>3. \A k \in 1 .. n : seq[k].start \in Nat
  BY <1>2 DEF Cue
<1>4. \A a \in Flats : \A k \in 1 .. n : Added(a, seq[k], rolling) \in Flats
  <2> SUFFICES ASSUME NEW a \in Flats, NEW k \in 1 .. n PROVE Added(a, seq[k], rolling) \in Flats
    OBVIOUS
  <2>1. PICK cue \in Cue : cue = seq[k] /\ cue.start \in Nat
    BY <1>2, <1>3
  <2> QED
    BY <2>1, AddedIs, AppendedIsFlat
<1>5. PICK g : /\ g[0] = Empty /\ \A k \in 1 .. n : g[k] = Added(g[k - 1], seq[k], rolling)
               /\ Flat(seq, rolling) = g[n]
  <2>1. Empty \in Flats
    BY NothingIsMarked
  <2>2. DOMAIN seq = 1 .. n
    BY <1>1
  <2> QED
    BY <1>4, <2>1, <2>2, FlatRuns
<1>6. g[0] = Empty /\ (\A k \in 1 .. n : g[k] = Added(g[k - 1], seq[k], rolling))
      /\ Flat(seq, rolling) = g[n]
  BY <1>5
<1> DEFINE Good(k) == Marked(g[k]) /\ \A j \in 1 .. n : k <= j => UpToNow(g[k], seq[j].start)
           S == {k \in Nat : k <= n => Good(k)}
<1>7. 0 \in S
  BY <1>6, NothingIsMarked
<1>8. ASSUME NEW k \in Nat, k \in S PROVE k + 1 \in S
  <2> SUFFICES ASSUME k + 1 <= n PROVE Good(k + 1)
    OBVIOUS
  <2>1. PICK l \in 1 .. n : l = k + 1 /\ l - 1 = k /\ k <= n /\ k <= l
    OBVIOUS
  <2>2. Good(k)
    BY <1>8, <2>1
  <2>3. PICK a : a = g[k]
    OBVIOUS
  <2>4. Marked(a) /\ UpToNow(a, seq[l].start)
    BY <2>1, <2>2, <2>3
  <2>5. g[l] = Added(a, seq[l], rolling)
    BY <1>6, <2>1, <2>3
  <2>6. PICK cue \in Cue : cue = seq[l] /\ cue.start \in Nat
    BY <1>2, <1>3
  <2>7. CASE g[l] = a
    <3>1. \A j \in 1 .. n : l <= j => k <= j
      BY <2>1
    <3> QED
      BY <2>1, <2>2, <2>3, <2>7, <3>1
  <2>8. CASE g[l] # a
    <3>1. PICK w : Speech(w) /\ g[l] = Appended(a, cue.start, w)
      BY <2>5, <2>6, <2>8, AddedIs
    <3>2. PICK b : b = g[l]
      OBVIOUS
    <3>3. Marked(b) /\ UpToNow(b, cue.start)
      BY <2>4, <2>6, <3>1, <3>2, AppendedKeeps
    <3>4. ASSUME NEW j \in 1 .. n, l <= j PROVE UpToNow(b, seq[j].start)
      <4>1. seq[l].start <= seq[j].start
        <5>1. CASE l = j
          BY <1>3, <5>1
        <5>2. CASE l < j
          BY <1>1, <5>2 DEF Spoken
        <5> QED
          BY <3>4, <5>1, <5>2
      <4>2. \A i \in DOMAIN b.anchors : b.anchors[i].at \in Nat
        <5>1. b.anchors \in Seq(AnchorRow)
          BY <3>3 DEF Marked, Flats, Anchors
        <5>2. \A i \in DOMAIN b.anchors : b.anchors[i] \in AnchorRow
          BY <5>1
        <5> QED
          BY <5>2 DEF AnchorRow
      <4>3. \A i \in DOMAIN b.anchors : b.anchors[i].at <= seq[l].start
        BY <2>6, <3>3 DEF UpToNow
      <4>4. seq[l].start \in Nat /\ seq[j].start \in Nat
        BY <1>3
      <4> QED
        BY <4>1, <4>2, <4>3, <4>4 DEF UpToNow
    <3> QED
      BY <2>1, <3>2, <3>3, <3>4
  <2> QED
    BY <2>7, <2>8
<1>9. n \in S
  <2> HIDE DEF S
  <2> QED
    BY <1>7, <1>8, AllNumbers
<1> QED
  BY <1>6, <1>9

LEMMA MarkedIs ==
  ASSUME NEW flat, Marked(flat)
  PROVE  InOrder(flat.anchors) /\ AtAWord(flat)
<1>8. PICK a \in Anchors : a = flat.anchors
  BY DEF Marked, Flats
<1>9. PICK t : t = flat.text
  OBVIOUS
<1>1. a = flat.anchors /\ t = flat.text
  BY <1>8, <1>9
<1>2. PICK l \in Nat : l = Len(a) /\ DOMAIN a = 1 .. l
  BY DEF Anchors
<1>3. \A i \in 1 .. l - 1 : i \in 1 .. l /\ i + 1 \in 1 .. l /\ i < i + 1
  BY <1>2
<1>4. InOrder(a)
  BY <1>1, <1>2, <1>3 DEF Marked, Rising, InOrder
<1>5. PICK n \in Nat : Long(t, n) /\ \A k \in DOMAIN a : WordAt(t, n, a[k].position)
  BY <1>1 DEF Marked, Anchored
<1>6. Len(t) = n
  BY <1>5 DEF Long
<1>7. ASSUME NEW k \in DOMAIN a
      PROVE  /\ a[k].position < n /\ t[a[k].position + 1] # " "
             /\ a[k].position = 0 \/ t[a[k].position] = " "
  <2>1. WordAt(t, n, a[k].position)
    BY <1>5
  <2>2. PICK p \in 0 .. n - 1 : p = a[k].position
    BY <2>1 DEF WordAt
  <2>3. p < n
    OBVIOUS
  <2>4. Solid(t, p + 1) /\ (p = 0 \/ ~ Solid(t, p))
    BY <2>1, <2>2 DEF WordAt
  <2> HIDE DEF WordAt
  <2> QED
    BY <2>2, <2>3, <2>4 DEF Solid
<1> QED
  BY <1>1, <1>4, <1>6, <1>7 DEF AtAWord

-----------------------------------------------------------------------------
(* Words that are looked for.                                              *)

\* A word stands in the text after p.
StandsAt(speech, word, p) == SubSeq(speech, p + 1, p + Len(word)) = word

\* Words found one after the other, each where it stands.
Finding(speech, anchors, words, cursor, last) ==
    /\ anchors \in Anchors /\ cursor \in Nat /\ last \in Int
    /\ Rising(anchors)
    /\ \E n \in Nat : DOMAIN anchors = 1 .. n /\ words \in Seq(Seq(Letters)) /\ Len(words) = n
    /\ \A i \in DOMAIN anchors :
          /\ anchors[i].position < cursor /\ anchors[i].at <= last
          /\ StandsAt(speech, words[i], anchors[i].position)

FoundSoFar(speech) ==
    {f \in [anchors : Anchors, words : Seq(Seq(Letters)), cursor : Nat, last : Int] :
        Finding(speech, f.anchors, f.words, f.cursor, f.last)}

LEMMA FindingKeeps ==
  ASSUME NEW speech, NEW anchors, NEW words, NEW cursor, NEW last,
         Finding(speech, anchors, words, cursor, last),
         NEW word \in Seq(Letters), NEW m \in Nat \ {0}, m = Len(word), NEW at \in Nat,
         anchors = <<>> \/ ~ (at - last < 1),
         NEW p \in Nat, cursor <= p, StandsAt(speech, word, p)
  PROVE  Finding(speech, Append(anchors, Anchor(at, p)), Append(words, word), p + m, at)
<1>1. anchors \in Seq(AnchorRow) /\ cursor \in Nat /\ last \in Int /\ Rising(anchors)
  BY DEF Finding, Anchors
<1>2. PICK n \in Nat : DOMAIN anchors = 1 .. n /\ words \in Seq(Seq(Letters)) /\ Len(words) = n
  BY DEF Finding
<1>3. \A i \in 1 .. n : /\ anchors[i].position < cursor /\ anchors[i].at <= last
                        /\ StandsAt(speech, words[i], anchors[i].position)
  BY <1>2 DEF Finding
<1>4. PICK row \in AnchorRow : row = Anchor(at, p) /\ row.at = at /\ row.position = p
  <2>1. Anchor(at, p) = [at |-> at, position |-> p]
    BY DEF Anchor
  <2> QED
    BY <2>1 DEF AnchorRow
<1>5. PICK new, said : new = Append(anchors, row) /\ said = Append(words, word)
  OBVIOUS
<1>6. /\ new \in Anchors /\ DOMAIN new = 1 .. (n + 1)
      /\ new[n + 1] = row /\ \A i \in 1 .. n : new[i] = anchors[i]
  BY <1>1, <1>2, <1>5 DEF Anchors
<1>7. /\ said \in Seq(Seq(Letters)) /\ Len(said) = n + 1
      /\ said[n + 1] = word /\ \A i \in 1 .. n : said[i] = words[i]
  BY <1>2, <1>5
<1>8. \A i \in 1 .. n : anchors[i].position \in Nat /\ anchors[i].at \in Nat
  <2>1. \A i \in 1 .. n : anchors[i] \in AnchorRow
    BY <1>1, <1>2
  <2> QED
    BY <2>1 DEF AnchorRow
<1>9. \A i \in 1 .. n : anchors[i].position < p /\ anchors[i].at <= at
  <2> SUFFICES ASSUME NEW i \in 1 .. n PROVE anchors[i].position < p /\ anchors[i].at <= at
    OBVIOUS
  <2>1. anchors # <<>>
    BY <1>2
  <2>2. ~ (at - last < 1)
    BY <2>1
  <2>3. PICK q \in Nat, t \in Nat : q = anchors[i].position /\ t = anchors[i].at
    BY <1>8
  <2>4. q < cursor /\ t <= last
    BY <1>3, <2>3
  <2>5. q < p /\ t <= at
    BY <1>1, <2>2, <2>4
  <2> QED
    BY <2>3, <2>5
<1>10. \A i \in 1 .. (n + 1) : i = n + 1 \/ i \in 1 .. n
  OBVIOUS
<1>11. Rising(new)
  <2> SUFFICES ASSUME NEW i \in 1 .. (n + 1), NEW j \in 1 .. (n + 1), i < j
               PROVE  new[i].position < new[j].position /\ new[i].at <= new[j].at
    BY <1>6 DEF Rising
  <2>1. i \in 1 .. n
    OBVIOUS
  <2>2. CASE j = n + 1
    BY <1>4, <1>6, <1>9, <2>1, <2>2
  <2>3. CASE j # n + 1
    <3>1. j \in 1 .. n
      BY <2>3
    <3>2. anchors[i].position < anchors[j].position /\ anchors[i].at <= anchors[j].at
      BY <1>1, <1>2, <2>1, <3>1 DEF Rising
    <3> QED
      BY <1>6, <2>1, <3>1, <3>2
  <2> QED
    BY <2>2, <2>3
<1>12. ASSUME NEW i \in 1 .. (n + 1)
       PROVE  /\ new[i].position < p + m /\ new[i].at <= at
              /\ StandsAt(speech, said[i], new[i].position)
  <2>1. CASE i = n + 1
    BY <1>4, <1>6, <1>7, <2>1
  <2>2. CASE i \in 1 .. n
    <3>1. new[i] = anchors[i] /\ said[i] = words[i]
      BY <1>6, <1>7, <2>2
    <3>2. PICK q \in Nat : q = anchors[i].position /\ q < p
      BY <1>8, <1>9, <2>2
    <3>3. q < p + m
      BY <3>2
    <3> QED
      BY <1>3, <1>9, <2>2, <3>1, <3>2, <3>3
  <2> QED
    BY <1>10, <2>1, <2>2
<1>13. p + m \in Nat /\ at \in Int
  OBVIOUS
<1> QED
  BY <1>4, <1>5, <1>6, <1>7, <1>11, <1>12, <1>13 DEF Finding

LEMMA LocateKeeps ==
  ASSUME NEW speech \in Seq(Letters), NEW f \in FoundSoFar(speech), NEW word \in Cue
  PROVE  Locate(speech, f, word) \in FoundSoFar(speech)
<1>1. PICK places : places = Occurrences(speech, word.text, f.cursor)
  OBVIOUS
<1>2. CASE (f.anchors # <<>> /\ word.start - f.last < 1) \/ places = {}
  BY <1>1, <1>2 DEF Locate
<1>3. CASE ~ (f.anchors # <<>> /\ word.start - f.last < 1) /\ places # {}
  <2>1. Speech(word.text) /\ word.start \in Nat
    BY TranscriptsAssumption DEF Cue
  <2>2. PICK m \in Nat \ {0} : Long(word.text, m)
    BY <2>1, SpeechIs
  <2>3. PICK n \in Nat : Long(speech, n)
    BY HasLength
  <2>4. PICK c \in Nat : c = f.cursor
    BY DEF FoundSoFar
  <2>5. places = {k \in c .. n - m : StandsAt(speech, word.text, k)}
    BY <1>1, <2>2, <2>3, <2>4 DEF Occurrences, StandsAt, Long
  <2>6. \E k \in places : \A x \in places : k <= x
    <3>1. places \subseteq Nat
      BY <2>5
    <3> QED
      BY <1>3, <3>1, LeastNumber
  <2>7. Min(places) \in places
    BY <2>6 DEF Min
  <2>8. PICK p \in Nat : p = Min(places) /\ c <= p /\ StandsAt(speech, word.text, p)
    <3>1. PICK q : q = Min(places)
      OBVIOUS
    <3>2. PICK e \in Int : e = n - m
      OBVIOUS
    <3>3. q \in {k \in c .. e : StandsAt(speech, word.text, k)}
      BY <2>5, <2>7, <3>1, <3>2
    <3>4. q \in c .. e /\ StandsAt(speech, word.text, q)
      BY <3>3
    <3>5. q \in Nat /\ c <= q
      BY <3>4
    <3> QED
      BY <3>1, <3>4, <3>5
  <2>9. PICK w \in Seq(Letters) : w = word.text /\ m = Len(w)
    BY <2>2 DEF Long
  <2>10. PICK at \in Nat : at = word.start
    BY <2>1
  <2>11. PICK old, words, last : old = f.anchors /\ words = f.words /\ last = f.last
    OBVIOUS
  <2>12. Finding(speech, old, words, c, last)
    BY <2>4, <2>11 DEF FoundSoFar
  <2>13. old = <<>> \/ ~ (at - last < 1)
    BY <1>3, <2>10, <2>11
  <2>14. Finding(speech, Append(old, Anchor(at, p)), Append(words, w), p + m, at)
    BY <2>8, <2>9, <2>12, <2>13, FindingKeeps
  <2>15. PICK new, said, after : new = Append(old, Anchor(at, p)) /\ said = Append(words, w) /\ after = p + m
    OBVIOUS
  <2>16. Locate(speech, f, word) = [anchors |-> new, words |-> said, cursor |-> after, last |-> at]
    BY <1>1, <1>3, <2>8, <2>9, <2>10, <2>11, <2>15 DEF Locate
  <2>17. Finding(speech, new, said, after, at)
    BY <2>14, <2>15
  <2>18. new \in Anchors /\ said \in Seq(Seq(Letters)) /\ after \in Nat /\ at \in Int
    BY <2>17 DEF Finding
  <2> QED
    BY <2>16, <2>17, <2>18 DEF FoundSoFar
<1> QED
  BY <1>2, <1>3

LEMMA LocatedIs ==
  ASSUME NEW speech \in Seq(Letters), NEW seq \in Seq(Cue)
  PROVE  Located(speech, seq) \in FoundSoFar(speech)
<1>1. PICK n \in Nat : n = Len(seq) /\ DOMAIN seq = 1 .. n
  OBVIOUS
<1>2. \A k \in 1 .. n : seq[k] \in Cue
  BY <1>1, ElementOfSeq
<1>3. PICK A : A = FoundSoFar(speech)
  OBVIOUS
<1>4. NotLocated \in A
  <2>1. PICK e : e = NotLocated
    OBVIOUS
  <2>2. e = [anchors |-> <<>>, words |-> <<>>, cursor |-> 0, last |-> -1]
    BY <2>1 DEF NotLocated
  <2>3. /\ <<>> \in Anchors /\ <<>> \in Seq(Seq(Letters)) /\ -1 \in Int
        /\ DOMAIN <<>> = 1 .. 0 /\ Len(<<>>) = 0 /\ 1 .. 0 = {}
    BY DEF Anchors
  <2>4. Finding(speech, <<>>, <<>>, 0, -1)
    BY <2>3 DEF Finding, Rising
  <2> QED
    BY <1>3, <2>1, <2>2, <2>3, <2>4 DEF FoundSoFar
<1>5. \A a \in A : \A k \in 1 .. n : Locate(speech, a, seq[k]) \in A
  BY <1>2, <1>3, LocateKeeps
<1>6. PICK g : /\ g[0] = NotLocated /\ \A k \in 1 .. n : g[k] = Locate(speech, g[k - 1], seq[k])
               /\ Located(speech, seq) = g[n]
  BY <1>1, <1>4, <1>5, LocatedRuns
<1>7. g[0] \in A /\ \A k \in 1 .. n : g[k - 1] \in A => g[k] \in A
  BY <1>4, <1>5, <1>6
<1>8. g[n] \in A
  <2>1. \A k \in 0 .. n : g[k] \in A
    BY <1>7, RunStays
  <2> QED
    BY <2>1
<1> QED
  BY <1>3, <1>6, <1>8

LEMMA LocatedInOrder ==
  ASSUME NEW speech \in Seq(Letters), NEW seq \in Seq(Cue)
  PROVE  LET found == Located(speech, seq) IN
         /\ InOrder(found.anchors)
         /\ \A n \in DOMAIN found.anchors :
               LET p == found.anchors[n].position IN
               SubSeq(speech, p + 1, p + Len(found.words[n])) = found.words[n]
<1>1. PICK found : found = Located(speech, seq)
  OBVIOUS
<1>2. Finding(speech, found.anchors, found.words, found.cursor, found.last)
  BY <1>1, LocatedIs DEF FoundSoFar
<1>3. PICK a \in Anchors : a = found.anchors /\ Rising(a)
  BY <1>2 DEF Finding
<1>4. PICK l \in Nat : l = Len(a) /\ DOMAIN a = 1 .. l
  BY DEF Anchors
<1>5. \A i \in 1 .. l - 1 : i \in 1 .. l /\ i + 1 \in 1 .. l /\ i < i + 1
  BY <1>4
<1>6. InOrder(a)
  BY <1>3, <1>4, <1>5 DEF Rising, InOrder
<1>7. \A n \in DOMAIN found.anchors : StandsAt(speech, found.words[n], found.anchors[n].position)
  BY <1>2 DEF Finding
<1> QED
  BY <1>1, <1>3, <1>6, <1>7 DEF StandsAt

LEMMA FormattedIs ==
  ASSUME NEW seq, Spoken(seq) PROVE Formatted(seq) \in Seq(Letters)
<1>1. PICK n \in Nat : n = Len(seq) /\ DOMAIN seq = 1 .. n
  BY DEF Spoken
<1>2. PICK r : r = [k \in DOMAIN seq |-> [seq[k] EXCEPT !.text = seq[k].formatted]]
  OBVIOUS
<1>3. ASSUME NEW k \in 1 .. n PROVE r[k] \in Cue /\ r[k].start = seq[k].start
  <2>1. PICK cue \in Cue : cue = seq[k]
    BY <1>1, ElementOfSeq DEF Spoken
  <2>2. r[k] = [cue EXCEPT !.text = cue.formatted]
    BY <1>1, <1>2, <2>1
  <2> QED
    BY <2>1, <2>2 DEF Cue
<1>4. r = [k \in 1 .. n |-> r[k]]
  BY <1>1, <1>2
<1>5. r \in Seq(Cue) /\ DOMAIN r = 1 .. n
  <2>1. r \in [1 .. n -> Cue]
    BY <1>3, <1>4
  <2> QED
    BY <2>1
<1>6. Spoken(r)
  <2> SUFFICES ASSUME NEW i \in 1 .. n, NEW j \in 1 .. n, i < j PROVE r[i].start <= r[j].start
    BY <1>5 DEF Spoken
  <2>1. seq[i].start <= seq[j].start
    BY <1>1 DEF Spoken
  <2> QED
    BY <1>3, <2>1
<1>7. Marked(Flat(r, FALSE))
  BY <1>6, FlatIsMarked
<1> QED
  BY <1>2, <1>7 DEF Formatted, Lines, Marked, Flats

\* Anchors follow the text they belong to, and each is where a word begins.
THEOREM AnchorsAreRight == TranscriptsSpec => []AnchorsFollowText
<1>1. Spoken(cues) => AnchorsFollowText
  <2> SUFFICES ASSUME Spoken(cues) PROVE AnchorsFollowText
    OBVIOUS
  <2>1. InOrder(Captions(cues).anchors) /\ AtAWord(Captions(cues))
    BY FlatIsMarked, MarkedIs DEF Captions
  <2>2. InOrder(Lines(cues).anchors) /\ AtAWord(Lines(cues))
    BY FlatIsMarked, MarkedIs DEF Lines
  <2>3. PICK speech \in Seq(Letters) : speech = Formatted(cues)
    BY FormattedIs
  <2>4. cues \in Seq(Cue)
    BY DEF Spoken
  <2>5. LET found == Located(speech, cues) IN
         /\ InOrder(found.anchors)
         /\ \A n \in DOMAIN found.anchors :
               LET p == found.anchors[n].position IN
               SubSeq(speech, p + 1, p + Len(found.words[n])) = found.words[n]
    BY <2>4, LocatedInOrder
  <2> QED
    BY <2>1, <2>2, <2>3, <2>5 DEF AnchorsFollowText
<1> QED
  BY <1>1, SpokenAlways, PTL

-----------------------------------------------------------------------------
(* The search.                                                             *)

\* A search of n anchors: those before low are at or before the offset, those
\* after high are not, and best is of the last before low.
Searching(anchors, n, offset, low, high, best) ==
    /\ low \in 1 .. n + 1 /\ high \in 0 .. n /\ low <= high + 1
    /\ \A i \in 1 .. low - 1 : anchors[i].position <= offset
    /\ \A i \in high + 1 .. n : ~ (anchors[i].position <= offset)
    /\ best = IF low = 1 THEN NoTime ELSE anchors[low - 1].at

Searches(anchors, n, offset) ==
    {s \in [low : Nat, high : Nat, best : Int] : Searching(anchors, n, offset, s.low, s.high, s.best)}

LEMMA AnchorIs ==
  ASSUME NEW anchors \in Anchors, NEW n \in Nat, DOMAIN anchors = 1 .. n, NEW i \in 1 .. n
  PROVE  anchors[i].position \in Nat /\ anchors[i].at \in Nat
<1>1. anchors \in Seq(AnchorRow)
  BY DEF Anchors
<1>2. anchors[i] \in AnchorRow
  BY <1>1
<1> QED
  BY <1>2 DEF AnchorRow

\* Every turn keeps that, and leaves fewer to look at while there are any.
LEMMA NarrowedKeeps ==
  ASSUME NEW anchors \in Anchors, Rising(anchors), NEW n \in Nat, DOMAIN anchors = 1 .. n,
         NEW offset \in Nat, NEW s \in Searches(anchors, n, offset)
  PROVE  /\ Narrowed(anchors, offset, s) \in Searches(anchors, n, offset)
         /\ s.low <= s.high =>
               LET t == Narrowed(anchors, offset, s) IN t.high - t.low < s.high - s.low
         /\ s.low > s.high => Narrowed(anchors, offset, s) = s
<1>1. PICK low \in Nat, high \in Nat, best \in Int :
         low = s.low /\ high = s.high /\ best = s.best /\ s = [low |-> low, high |-> high, best |-> best]
  BY DEF Searches
<1>2. Searching(anchors, n, offset, low, high, best)
  BY <1>1 DEF Searches
<1>3. CASE low > high
  BY <1>1, <1>3 DEF Narrowed
<1>4. CASE low <= high
  <2>1. PICK mid \in Nat : mid = (low + high) \div 2 /\ low <= mid /\ mid <= high
    BY <1>4
  <2>2. mid \in 1 .. n /\ 1 <= low /\ high <= n
    BY <1>2, <2>1 DEF Searching
  <2>3. PICK at \in Nat, p \in Nat : at = anchors[mid].at /\ p = anchors[mid].position
    BY <2>2, AnchorIs
  <2>4. /\ \A i \in 1 .. n : i < mid => anchors[i].position < p
        /\ \A i \in 1 .. n : mid < i => p < anchors[i].position
    BY <2>2, <2>3 DEF Rising
  <2>5. CASE p <= offset
    <3>1. PICK next \in Nat : next = mid + 1
      OBVIOUS
    <3>9. PICK t : t = [low |-> next, high |-> high, best |-> at]
      OBVIOUS
    <3>10. Narrowed(anchors, offset, s) = [s EXCEPT !.low = next, !.best = at]
      BY <1>1, <1>4, <2>1, <2>3, <2>5, <3>1 DEF Narrowed, AtOrBefore
    <3>2. Narrowed(anchors, offset, s) = t
      BY <1>1, <3>9, <3>10
    <3>3. t.low = mid + 1 /\ t.high = high /\ t.best = at /\ t \in [low : Nat, high : Nat, best : Int]
      BY <3>1, <3>9
    <3>4. ASSUME NEW i \in 1 .. mid + 1 - 1 PROVE anchors[i].position <= offset
      <4>1. i \in 1 .. n /\ (i < mid \/ i = mid)
        BY <2>2
      <4>2. anchors[i].position \in Nat
        BY <4>1, AnchorIs
      <4>3. CASE i < mid
        <5>1. anchors[i].position < p
          BY <2>4, <4>1, <4>3
        <5> QED
          BY <2>5, <4>2, <5>1
      <4>4. CASE i = mid
        BY <2>3, <2>5, <4>4
      <4> QED
        BY <4>1, <4>3, <4>4
    <3>5. /\ mid + 1 \in 1 .. n + 1 /\ high \in 0 .. n /\ mid + 1 <= high + 1
          /\ mid + 1 # 1 /\ mid + 1 - 1 = mid
      BY <2>1, <2>2
    <3>6. \A i \in high + 1 .. n : ~ (anchors[i].position <= offset)
      BY <1>2 DEF Searching
    <3>7. Searching(anchors, n, offset, mid + 1, high, at)
      BY <2>3, <3>4, <3>5, <3>6 DEF Searching
    <3>8. high - (mid + 1) < high - low
      BY <2>1
    <3> QED
      BY <1>1, <1>4, <3>2, <3>3, <3>7, <3>8 DEF Searches
  <2>6. CASE ~ (p <= offset)
    <3>1. PICK next \in Nat : next = mid - 1
      BY <2>1, <2>2
    <3>9. PICK t : t = [low |-> low, high |-> next, best |-> best]
      OBVIOUS
    <3>10. Narrowed(anchors, offset, s) = [s EXCEPT !.high = next]
      BY <1>1, <1>4, <2>1, <2>3, <2>6, <3>1 DEF Narrowed, AtOrBefore
    <3>5. /\ mid - 1 \in Nat /\ mid - 1 \in 0 .. n /\ low <= mid - 1 + 1
      BY <2>1, <2>2
    <3>2. Narrowed(anchors, offset, s) = t
      BY <1>1, <3>9, <3>10
    <3>3. t.low = low /\ t.high = mid - 1 /\ t.best = best /\ t \in [low : Nat, high : Nat, best : Int]
      BY <3>1, <3>9
    <3>4. ASSUME NEW i \in mid - 1 + 1 .. n PROVE ~ (anchors[i].position <= offset)
      <4>1. i \in 1 .. n /\ (mid < i \/ i = mid)
        BY <2>2
      <4>2. anchors[i].position \in Nat
        BY <4>1, AnchorIs
      <4>3. CASE mid < i
        <5>1. p < anchors[i].position
          BY <2>4, <4>1, <4>3
        <5> QED
          BY <2>6, <4>2, <5>1
      <4>4. CASE i = mid
        BY <2>3, <2>6, <4>4
      <4> QED
        BY <4>1, <4>3, <4>4
    <3>6. /\ low \in 1 .. n + 1 /\ best = IF low = 1 THEN NoTime ELSE anchors[low - 1].at
          /\ \A i \in 1 .. low - 1 : anchors[i].position <= offset
      BY <1>2 DEF Searching
    <3>7. Searching(anchors, n, offset, low, mid - 1, best)
      BY <3>4, <3>5, <3>6 DEF Searching
    <3>8. mid - 1 - low < high - low
      BY <2>1
    <3> QED
      BY <1>1, <1>4, <3>2, <3>3, <3>7, <3>8 DEF Searches
  <2> QED
    BY <2>5, <2>6
<1> QED
  BY <1>1, <1>3, <1>4

\* The search finds what looking at all of them would.
LEMMA SecondsAre ==
  ASSUME NEW anchors \in Anchors, Rising(anchors), NEW offset \in Nat
  PROVE  SecondsAt(anchors, offset) = TimedBy(anchors, offset)
<1>1. PICK n \in Nat : n = Len(anchors) /\ DOMAIN anchors = 1 .. n
  BY DEF Anchors
<1>2. PICK base : base = Whole(anchors)
  OBVIOUS
<1>3. PICK A : A = Searches(anchors, n, offset)
  OBVIOUS
<1>4. base \in A /\ base.low = 1 /\ base.high = n
  <2>1. base.low = 1 /\ base.high = n /\ base.best = NoTime
        /\ base \in [low : Nat, high : Nat, best : Int]
    BY <1>1, <1>2 DEF NoTime, Whole
  <2>2. 1 \in 1 .. n + 1 /\ n \in 0 .. n /\ 1 <= n + 1 /\ 1 .. 1 - 1 = {} /\ n + 1 .. n = {}
    OBVIOUS
  <2>3. Searching(anchors, n, offset, 1, n, NoTime)
    BY <2>2 DEF Searching
  <2> QED
    BY <1>3, <2>1, <2>3 DEF Searches
<1>5. \A a \in A : Narrowed(anchors, offset, a) \in A
  BY <1>1, <1>3, NarrowedKeeps
<1>21. PICK g : SearchTurns(g, anchors, offset, n)
  <2>1. DOMAIN anchors = 1 .. n
    BY <1>1
  <2>2. Whole(anchors) \in A
    BY <1>2, <1>4
  <2> QED
    BY <1>5, <2>1, <2>2, SearchRuns
<1>6. /\ g[0] = Whole(anchors) /\ \A k \in 1 .. n : g[k] = Narrowed(anchors, offset, g[k - 1])
      /\ SecondsAt(anchors, offset) = g[n].best
  BY <1>21 DEF SearchTurns
<1>7. \A k \in 0 .. n : g[k] \in A
  <2>1. g[0] \in A /\ \A k \in 1 .. n : g[k - 1] \in A => g[k] \in A
    BY <1>2, <1>4, <1>5, <1>6
  <2> QED
    BY <2>1, RunStays
<1> DEFINE S == {k \in Nat : k <= n => g[k].low > g[k].high \/ g[k].high - g[k].low < n - k}
<1>8. 0 \in S
  BY <1>2, <1>4, <1>6
<1>9. ASSUME NEW k \in Nat, k \in S PROVE k + 1 \in S
  <2> SUFFICES ASSUME k + 1 <= n
               PROVE  g[k + 1].low > g[k + 1].high \/ g[k + 1].high - g[k + 1].low < n - (k + 1)
    OBVIOUS
  <2>1. PICK l \in 1 .. n : l = k + 1 /\ l - 1 = k /\ k \in 0 .. n /\ k <= n
    OBVIOUS
  <2>2. PICK s, t : s = g[k] /\ t = g[l]
    OBVIOUS
  <2>3. s \in A /\ t \in A /\ t = Narrowed(anchors, offset, s)
    BY <1>6, <1>7, <2>1, <2>2
  <2>4. /\ s.low \in Nat /\ s.high \in Nat /\ t.low \in Nat /\ t.high \in Nat
    BY <1>3, <2>3 DEF Searches
  <2>5. /\ s.low <= s.high => t.high - t.low < s.high - s.low
        /\ s.low > s.high => t = s
    BY <1>1, <1>3, <2>3, NarrowedKeeps
  <2>6. s.low > s.high \/ s.high - s.low < n - k
    BY <1>9, <2>1, <2>2
  <2>7. PICK sl \in Nat, sh \in Nat, tl \in Nat, th \in Nat :
           sl = s.low /\ sh = s.high /\ tl = t.low /\ th = t.high
    BY <2>4
  <2>8. tl > th \/ th - tl < n - (k + 1)
    BY <2>5, <2>6, <2>7
  <2> QED
    BY <2>1, <2>2, <2>7, <2>8
<1>10. n \in S
  <2> HIDE DEF S
  <2> QED
    BY <1>8, <1>9, AllNumbers
<1>11. PICK low \in Nat, high \in Nat, best \in Int : low = g[n].low /\ high = g[n].high /\ best = g[n].best
  BY <1>3, <1>7 DEF Searches
<1>12. Searching(anchors, n, offset, low, high, best)
  BY <1>3, <1>7, <1>11 DEF Searches
<1>13. low > high
  <2>1. low > high \/ high - low < n - n
    BY <1>10, <1>11
  <2> QED
    BY <2>1
<1>14. low = high + 1 /\ low \in 1 .. n + 1
  BY <1>12, <1>13 DEF Searching
<1>15. PICK past : past = {i \in DOMAIN anchors : anchors[i].position <= offset}
  OBVIOUS
<1>16. past = 1 .. low - 1
  <2>1. \A i \in 1 .. n : i \in 1 .. low - 1 \/ i \in high + 1 .. n
    BY <1>14
  <2>2. \A i \in 1 .. low - 1 : i \in 1 .. n
    BY <1>14
  <2>3. /\ \A i \in 1 .. low - 1 : anchors[i].position <= offset
        /\ \A i \in high + 1 .. n : ~ (anchors[i].position <= offset)
    BY <1>12 DEF Searching
  <2> QED
    BY <1>1, <1>15, <2>1, <2>2, <2>3
<1>17. best = IF low = 1 THEN NoTime ELSE anchors[low - 1].at
  BY <1>12 DEF Searching
<1>18. TimedBy(anchors, offset) = IF past = {} THEN NoTime ELSE anchors[Max(past)].at
  BY <1>15 DEF TimedBy
<1>19. CASE low = 1
  <2>1. past = {}
    BY <1>16, <1>19
  <2> QED
    BY <1>6, <1>11, <1>17, <1>18, <1>19, <2>1
<1>20. CASE low # 1
  <2>1. PICK m \in Nat \ {0} : m = low - 1
    BY <1>14, <1>20
  <2>2. Max(past) = m
    BY <1>16, <2>1, MaxOfPrefix
  <2>3. past # {}
    BY <1>16, <2>1
  <2> QED
    BY <1>6, <1>11, <1>17, <1>18, <1>20, <2>1, <2>2, <2>3
<1> QED
  BY <1>19, <1>20

-----------------------------------------------------------------------------
(* Segments.                                                               *)

Chunk == [start : Nat, end : Nat, body : Seq(Letters)]

Chunks == Seq(Chunk)

\* The first p characters are cut: in their order, none too long, no letter lost.
CutUpTo(speech, p, chunks, m) ==
    /\ chunks \in Chunks /\ Len(chunks) = m /\ DOMAIN chunks = 1 .. m
    /\ \A i \in 1 .. m : /\ chunks[i].start < chunks[i].end /\ chunks[i].end <= p
                         /\ chunks[i].end - chunks[i].start <= SegmentLength
    /\ \A i \in 1 .. m : i > 1 => chunks[i - 1].end <= chunks[i].start
    /\ \A i \in 1 .. p : Solid(speech, i) =>
          \E k \in 1 .. m : chunks[k].start < i /\ i <= chunks[k].end

Cuts(speech, n) ==
    {c \in [position : 0 .. n, chunks : Chunks] : \E m \in Nat : CutUpTo(speech, c.position, c.chunks, m)}

\* The next end lies beyond the position, no further than a segment.
LEMMA CutAtIs ==
  ASSUME NEW speech, NEW n \in Nat, Long(speech, n), NEW p \in 0 .. n, p < n
  PROVE  \E e \in 1 .. n : e = CutAt(speech, p) /\ p < e /\ e - p <= SegmentLength
<1>1. PICK l \in Nat \ {0} : l = SegmentLength
  BY TranscriptsAssumption
<1>2. PICK pair : pair = {p + l, n}
  OBVIOUS
<1>3. \E x \in pair : \A y \in pair : x <= y
  <2>1. CASE p + l <= n
    BY <1>2, <2>1
  <2>2. CASE n <= p + l
    BY <1>2, <2>2
  <2> QED
    BY <2>1, <2>2
<1>4. Min(pair) \in pair /\ \A y \in pair : Min(pair) <= y
  BY <1>3 DEF Min
<1>5. PICK end \in 1 .. n : end = Min(pair) /\ p < end /\ end - p <= l
  <2>1. PICK x : x = Min(pair)
    OBVIOUS
  <2>2. x = p + l \/ x = n
    BY <1>2, <1>4, <2>1
  <2>3. x <= p + l /\ x <= n
    BY <1>2, <1>4, <2>1
  <2>4. x \in 1 .. n /\ p < x /\ x - p <= l
    BY <2>2, <2>3
  <2> QED
    BY <2>1, <2>4
<1>6. PICK stops : stops = {k \in p + 2 .. end : speech[k - 1] = "." /\ speech[k] = " "}
  OBVIOUS
<1>7. stops \in SUBSET (1 .. n) /\ \A k \in stops : k \in p + 2 .. end
  <2>1. \A k \in stops : k \in p + 2 .. end
    BY <1>6
  <2>2. \A k \in p + 2 .. end : k \in 1 .. n
    OBVIOUS
  <2> QED
    BY <2>1, <2>2
<1>8. Len(speech) = n
  BY DEF Long
<1>9. CutAt(speech, p) = IF end < n /\ stops # {} /\ 4 * (Max(stops) - p) > 3 * l THEN Max(stops) ELSE end
  BY <1>1, <1>2, <1>5, <1>6, <1>8 DEF CutAt
<1>10. CASE CutAt(speech, p) = end
  BY <1>1, <1>5, <1>10
<1>11. CASE CutAt(speech, p) # end
  <2>1. stops # {} /\ CutAt(speech, p) = Max(stops)
    BY <1>9, <1>11
  <2>2. Max(stops) \in stops
    BY <1>7, <2>1, EndsOf
  <2>3. PICK e \in p + 2 .. end : e = CutAt(speech, p)
    BY <1>7, <2>1, <2>2
  <2>4. e \in 1 .. n /\ p < e /\ e - p <= l
    BY <1>5, <2>3
  <2> QED
    BY <1>1, <2>3, <2>4
<1> QED
  BY <1>10, <1>11

\* The part of a text from p to e, and what is left of it without spaces.
LEMMA BodyIs ==
  ASSUME NEW speech, NEW n \in Nat, Long(speech, n), NEW p \in 0 .. n, NEW e \in 1 .. n, p < e,
         NEW body, body = Stripped(SubSeq(speech, p + 1, e))
  PROVE  /\ body \in Seq(Letters)
         /\ body = <<>> => \A i \in p + 1 .. e : ~ Solid(speech, i)
<1>1. PICK a \in 1 .. n : a = p + 1 /\ e \in a .. n
  OBVIOUS
<1>2. PICK part : part = SubSeq(speech, a, e)
  OBVIOUS
<1>3. Piece(part, speech, a, e, n)
  BY <1>1, <1>2, SubSeqIsPart
<1>4. PICK m \in Nat : m = e - a + 1
  BY <1>1
<1>5. Long(part, m) /\ \A i \in 1 .. m : part[i] = speech[a + i - 1]
  BY <1>3, <1>4 DEF Piece
<1>6. body = Stripped(part)
  BY <1>1, <1>2
<1>7. body = <<>> \/ Speech(body)
  BY <1>5, <1>6, StrippedIsSpeech
<1>8. body \in Seq(Letters)
  <2>1. <<>> \in Seq(Letters)
    OBVIOUS
  <2> QED
    BY <1>7, <2>1 DEF Speech
<1>9. ASSUME body = <<>>, NEW i \in p + 1 .. e PROVE ~ Solid(speech, i)
  <2>1. PICK j \in 1 .. m : j = i - a + 1 /\ a + j - 1 = i
    BY <1>1, <1>4
  <2>2. \A k \in 1 .. m : ~ Solid(part, k)
    <3>1. \/ \A k \in 1 .. m : ~ Solid(part, k)
          \/ \E b \in 1 .. m : \E c \in b .. m : Piece(body, part, b, c, m)
      BY <1>5, <1>6, StrippedIs
    <3>2. ASSUME NEW b \in 1 .. m, NEW c \in b .. m, Piece(body, part, b, c, m) PROVE FALSE
      <4>1. Len(body) = c - b + 1
        BY <3>2 DEF Piece, Long
      <4>2. Len(body) = 0
        BY <1>9
      <4>3. c - b + 1 > 0
        OBVIOUS
      <4> QED
        BY <4>1, <4>2, <4>3
    <3> QED
      BY <3>1, <3>2
  <2> QED
    BY <1>5, <2>1, <2>2 DEF Solid
<1> QED
  BY <1>8, <1>9

\* One segment more.
LEMMA CutFurther ==
  ASSUME NEW speech, NEW p \in Nat, NEW e \in Nat, p < e, e - p <= SegmentLength,
         NEW chunks, NEW m \in Nat, CutUpTo(speech, p, chunks, m),
         NEW chunk \in Chunk, chunk.start = p, chunk.end = e
  PROVE  CutUpTo(speech, e, Append(chunks, chunk), m + 1)
<1>1. PICK new : new = Append(chunks, chunk)
  OBVIOUS
<1>2. /\ new \in Chunks /\ Len(new) = m + 1 /\ DOMAIN new = 1 .. m + 1
      /\ new[m + 1] = chunk /\ \A i \in 1 .. m : new[i] = chunks[i]
  BY <1>1 DEF CutUpTo, Chunks
<1>3. \A i \in 1 .. m : chunks[i].start \in Nat /\ chunks[i].end \in Nat
  <2>1. \A i \in 1 .. m : chunks[i] \in Chunk
    BY DEF CutUpTo, Chunks
  <2> QED
    BY <2>1 DEF Chunk
<1>4. \A i \in 1 .. m + 1 : i = m + 1 \/ i \in 1 .. m
  OBVIOUS
<1>5. ASSUME NEW i \in 1 .. m + 1
      PROVE  /\ new[i].start < new[i].end /\ new[i].end <= e
             /\ new[i].end - new[i].start <= SegmentLength
  <2>1. CASE i = m + 1
    BY <1>2, <2>1
  <2>2. CASE i \in 1 .. m
    <3>1. PICK a \in Nat, b \in Nat : a = chunks[i].start /\ b = chunks[i].end
      BY <1>3, <2>2
    <3>2. a < b /\ b <= p /\ b - a <= SegmentLength
      BY <2>2, <3>1 DEF CutUpTo
    <3>3. b <= e
      BY <3>2
    <3> QED
      BY <1>2, <2>2, <3>1, <3>2, <3>3
  <2> QED
    BY <1>4, <2>1, <2>2
<1>6. ASSUME NEW i \in 1 .. m + 1, i > 1 PROVE new[i - 1].end <= new[i].start
  <2>1. i - 1 \in 1 .. m
    BY <1>6
  <2>2. new[i - 1] = chunks[i - 1]
    BY <1>2, <2>1
  <2>3. CASE i = m + 1
    <3>1. chunks[i - 1].end <= p
      BY <2>1 DEF CutUpTo
    <3> QED
      BY <1>2, <2>2, <2>3, <3>1
  <2>4. CASE i \in 1 .. m
    <3>1. chunks[i - 1].end <= chunks[i].start
      BY <1>6, <2>4 DEF CutUpTo
    <3> QED
      BY <1>2, <2>2, <2>4, <3>1
  <2> QED
    BY <1>4, <2>3, <2>4
<1>7. ASSUME NEW i \in 1 .. e, Solid(speech, i)
      PROVE  \E k \in 1 .. m + 1 : new[k].start < i /\ i <= new[k].end
  <2>1. CASE i <= p
    <3>1. i \in 1 .. p
      BY <2>1
    <3>2. PICK k \in 1 .. m : chunks[k].start < i /\ i <= chunks[k].end
      BY <1>7, <3>1 DEF CutUpTo
    <3>3. k \in 1 .. m + 1 /\ new[k] = chunks[k]
      BY <1>2
    <3> QED
      BY <3>2, <3>3
  <2>2. CASE ~ (i <= p)
    <3>1. m + 1 \in 1 .. m + 1 /\ p < i /\ i <= e
      BY <2>2
    <3> QED
      BY <1>2, <3>1
  <2> QED
    BY <2>1, <2>2
<1> QED
  BY <1>1, <1>2, <1>5, <1>6, <1>7 DEF CutUpTo

\* Spaces only.
LEMMA CutNothing ==
  ASSUME NEW speech, NEW p \in Nat, NEW e \in Nat, p < e,
         NEW chunks, NEW m \in Nat, CutUpTo(speech, p, chunks, m),
         \A i \in p + 1 .. e : ~ Solid(speech, i)
  PROVE  CutUpTo(speech, e, chunks, m)
<1>1. \A i \in 1 .. m : chunks[i].end \in Nat
  <2>1. \A i \in 1 .. m : chunks[i] \in Chunk
    BY DEF CutUpTo, Chunks
  <2> QED
    BY <2>1 DEF Chunk
<1>2. ASSUME NEW i \in 1 .. m PROVE chunks[i].end <= e
  <2>1. PICK b \in Nat : b = chunks[i].end
    BY <1>1
  <2>2. b <= p
    BY <2>1 DEF CutUpTo
  <2>3. b <= e
    BY <2>2
  <2> QED
    BY <2>1, <2>3
<1>3. ASSUME NEW i \in 1 .. e, Solid(speech, i) PROVE i \in 1 .. p
  <2>1. i \in 1 .. p \/ i \in p + 1 .. e
    OBVIOUS
  <2> QED
    BY <1>3, <2>1
<1> QED
  BY <1>2, <1>3 DEF CutUpTo

LEMMA TakenKeeps ==
  ASSUME NEW speech, NEW n \in Nat, Long(speech, n), NEW c \in Cuts(speech, n)
  PROVE  /\ Taken(speech, c) \in Cuts(speech, n)
         /\ c.position = n \/ c.position < Taken(speech, c).position
         /\ c.position <= Taken(speech, c).position
<1>1. PICK p \in 0 .. n, chunks \in Chunks :
         p = c.position /\ chunks = c.chunks /\ c = [position |-> p, chunks |-> chunks]
  BY DEF Cuts
<1>2. PICK m \in Nat : CutUpTo(speech, p, chunks, m)
  BY <1>1 DEF Cuts
<1>3. Len(speech) = n
  BY DEF Long
<1>4. CASE p = n
  <2>1. Taken(speech, c) = c
    BY <1>1, <1>3, <1>4 DEF Taken
  <2> QED
    BY <1>1, <1>4, <2>1
<1>5. CASE p # n
  <2>1. p < n
    BY <1>5
  <2>2. PICK e \in 1 .. n : e = CutAt(speech, p) /\ p < e /\ e - p <= SegmentLength
    BY <2>1, CutAtIs
  <2>3. PICK body : body = Stripped(SubSeq(speech, p + 1, e))
    OBVIOUS
  <2>4. /\ body \in Seq(Letters)
        /\ body = <<>> => \A i \in p + 1 .. e : ~ Solid(speech, i)
    BY <2>2, <2>3, BodyIs
  <2>5. PICK chunk : chunk = [start |-> p, end |-> e, body |-> body]
    OBVIOUS
  <2>6. p \in Nat /\ e \in Nat /\ e \in 0 .. n
    OBVIOUS
  <2>7. chunk \in Chunk /\ chunk.start = p /\ chunk.end = e
    BY <2>4, <2>5, <2>6 DEF Chunk
  <2>8. Taken(speech, c) = [position |-> e, chunks |-> IF body = <<>> THEN chunks ELSE Append(chunks, chunk)]
    BY <1>1, <1>3, <1>5, <2>2, <2>3, <2>5 DEF Taken
  <2>14. PICK next : next = IF body = <<>> THEN chunks ELSE Append(chunks, chunk)
    OBVIOUS
  <2>9. PICK k \in Nat : CutUpTo(speech, e, next, k)
    <3>1. CASE body = <<>>
      <4>1. p \in Nat /\ e \in Nat /\ p < e /\ \A i \in p + 1 .. e : ~ Solid(speech, i)
        BY <2>2, <2>4, <2>6, <3>1
      <4>2. CutUpTo(speech, e, chunks, m)
        BY <1>2, <4>1, CutNothing
      <4> QED
        BY <2>14, <3>1, <4>2
    <3>2. CASE body # <<>>
      <4>1. CutUpTo(speech, e, Append(chunks, chunk), m + 1)
        BY <1>2, <2>2, <2>6, <2>7, CutFurther
      <4>2. m + 1 \in Nat
        OBVIOUS
      <4> QED
        BY <2>14, <3>2, <4>1, <4>2
    <3> QED
      BY <3>1, <3>2
  <2>10. next \in Chunks
    BY <2>9 DEF CutUpTo
  <2>11. PICK t : t = [position |-> e, chunks |-> next]
    OBVIOUS
  <2>12. Taken(speech, c) = t /\ t \in [position : 0 .. n, chunks : Chunks] /\ t.position = e /\ t.chunks = next
    BY <2>6, <2>8, <2>10, <2>11, <2>14
  <2>13. p < e /\ p <= e
    BY <2>2, <2>6
  <2> QED
    BY <1>1, <2>9, <2>12, <2>13 DEF Cuts
<1> QED
  BY <1>4, <1>5

\* The segments of a text cover its letters.
LEMMA SegmentsAre ==
  ASSUME NEW speech, NEW n \in Nat, Long(speech, n)
  PROVE  \E m \in Nat : CutUpTo(speech, n, Segments(speech), m)
<1>1. PICK A : A = Cuts(speech, n)
  OBVIOUS
<1>2. Uncut \in A
  <2>1. PICK e : e = Uncut
    OBVIOUS
  <2>2. e = [position |-> 0, chunks |-> <<>>] /\ e.position = 0 /\ e.chunks = <<>>
    BY <2>1 DEF Uncut
  <2>3. <<>> \in Chunks /\ Len(<<>>) = 0 /\ DOMAIN <<>> = 1 .. 0 /\ 1 .. 0 = {} /\ 0 \in 0 .. n
    BY DEF Chunks
  <2>4. CutUpTo(speech, 0, <<>>, 0)
    BY <2>3 DEF CutUpTo
  <2>5. e \in [position : 0 .. n, chunks : Chunks]
    BY <2>2, <2>3
  <2> QED
    BY <1>1, <2>1, <2>2, <2>4, <2>5 DEF Cuts
<1>3. \A a \in A : Taken(speech, a) \in A
  BY <1>1, TakenKeeps
<1>4. PICK g : CutTurns(g, speech, n)
  <2>1. DOMAIN speech = 1 .. n
    BY DEF Long
  <2> QED
    BY <1>2, <1>3, <2>1, SegmentsRun
<1>5. /\ g[0] = Uncut /\ \A k \in 1 .. n : g[k] = Taken(speech, g[k - 1])
      /\ Segments(speech) = g[n].chunks
  BY <1>4 DEF CutTurns
<1>6. \A k \in 0 .. n : g[k] \in A
  <2>1. g[0] \in A /\ \A k \in 1 .. n : g[k - 1] \in A => g[k] \in A
    BY <1>2, <1>3, <1>5
  <2> QED
    BY <2>1, RunStays
<1>7. \A k \in 0 .. n : g[k].position \in 0 .. n
  BY <1>1, <1>6 DEF Cuts
<1> DEFINE S == {k \in Nat : k <= n => g[k].position >= k}
<1>8. 0 \in S
  BY <1>7
<1>9. ASSUME NEW k \in Nat, k \in S PROVE k + 1 \in S
  <2> SUFFICES ASSUME k + 1 <= n PROVE g[k + 1].position >= k + 1
    OBVIOUS
  <2>1. PICK l \in 1 .. n : l = k + 1 /\ l - 1 = k /\ k \in 0 .. n /\ k <= n /\ l \in 0 .. n
    OBVIOUS
  <2>2. PICK p \in 0 .. n, q \in 0 .. n : p = g[k].position /\ q = g[l].position
    BY <1>7, <2>1
  <2>3. (p = n \/ p < q) /\ p <= q
    BY <1>1, <1>5, <1>6, <2>1, <2>2, TakenKeeps
  <2>4. p >= k
    BY <1>9, <2>1, <2>2
  <2>5. q >= l
    BY <2>1, <2>3, <2>4
  <2> QED
    BY <2>1, <2>2, <2>5
<1>10. n \in S
  <2> HIDE DEF S
  <2> QED
    BY <1>8, <1>9, AllNumbers
<1>11. g[n].position = n
  <2>1. PICK p \in 0 .. n : p = g[n].position
    BY <1>7
  <2>2. p >= n
    BY <1>10, <2>1
  <2> QED
    BY <2>1, <2>2
<1>12. \E m \in Nat : CutUpTo(speech, g[n].position, g[n].chunks, m)
  BY <1>1, <1>6 DEF Cuts
<1> QED
  BY <1>5, <1>11, <1>12

\* A segment is timed by the speech it begins and ends in.
THEOREM SegmentsAreTimedRight == TranscriptsSpec => []SegmentsAreTimed
<1>1. Spoken(cues) => SegmentsAreTimed
  <2> SUFFICES ASSUME Spoken(cues), NEW flat \in {Captions(cues), Lines(cues)},
                      NEW s \in ToSet(Segments(flat.text))
               PROVE  /\ SecondsAt(flat.anchors, s.start) = TimedBy(flat.anchors, s.start)
                      /\ SecondsAt(flat.anchors, s.end) = TimedBy(flat.anchors, s.end)
    BY DEF SegmentsAreTimed
  <2>1. Marked(flat)
    BY FlatIsMarked DEF Captions, Lines
  <2>9. PICK anchors \in Anchors : anchors = flat.anchors
    BY <2>1 DEF Marked, Flats
  <2>10. PICK speech : speech = flat.text
    OBVIOUS
  <2>2. anchors = flat.anchors /\ speech = flat.text
    BY <2>9, <2>10
  <2>3. Rising(anchors)
    BY <2>1, <2>2 DEF Marked
  <2>4. PICK n \in Nat : Long(speech, n)
    BY <2>1, <2>2 DEF Marked, Anchored
  <2>5. PICK m \in Nat : CutUpTo(speech, n, Segments(speech), m)
    BY <2>4, SegmentsAre
  <2>6. PICK segments \in Chunks : segments = Segments(speech)
    BY <2>5 DEF CutUpTo
  <2>7. s \in Chunk
    BY <2>2, <2>6 DEF ToSet, Chunks
  <2>8. PICK from \in Nat, to \in Nat : from = s.start /\ to = s.end
    BY <2>7 DEF Chunk
  <2> QED
    BY <2>2, <2>3, <2>8, SecondsAre
<1> QED
  BY <1>1, SpokenAlways, PTL

-----------------------------------------------------------------------------
(* Batches.                                                                *)

LEMMA BodiesAre ==
  ASSUME NEW b \in Chunks
  PROVE  \E n \in Nat : n = Len(b) /\ DOMAIN b = 1 .. n /\ \A i \in 1 .. n : Len(b[i].body) \in Nat
<1>1. PICK n \in Nat : n = Len(b) /\ DOMAIN b = 1 .. n
  BY DEF Chunks
<1>2. ASSUME NEW i \in 1 .. n PROVE Len(b[i].body) \in Nat
  <2>1. b[i] \in Chunk
    BY <1>1 DEF Chunks
  <2>2. PICK body \in Seq(Letters) : body = b[i].body
    BY <2>1 DEF Chunk
  <2> QED
    BY <2>2
<1> QED
  BY <1>1, <1>2

LEMMA SizeIsNat == ASSUME NEW b \in Chunks PROVE Size(b) \in Nat
<1>1. PICK n \in Nat : n = Len(b) /\ DOMAIN b = 1 .. n /\ \A i \in 1 .. n : Len(b[i].body) \in Nat
  BY BodiesAre
<1>2. PICK f, D : f = [i \in DOMAIN b |-> Len(b[i].body)] /\ D = DOMAIN b
  OBVIOUS
<1>3. IsFiniteSet(D) /\ \A i \in D : f[i] \in Nat
  <2>1. IsFiniteSet(1 .. n)
    BY FS_Interval
  <2> QED
    BY <1>1, <1>2, <2>1
<1>4. SumFunctionOnSet(f, D) \in Nat
  BY <1>3, SumIsNat
<1> QED
  BY <1>2, <1>4 DEF Size

\* A batch is as long as its segments are together.
LEMMA SizeOfMore ==
  ASSUME NEW b \in Chunks, NEW s \in Chunk
  PROVE  Size(Append(b, s)) = Size(b) + Len(s.body)
<1>1. PICK n \in Nat : n = Len(b) /\ DOMAIN b = 1 .. n /\ \A i \in 1 .. n : Len(b[i].body) \in Nat
  BY BodiesAre
<1>2. PICK l \in Nat : l = Len(s.body)
  <2>1. PICK body \in Seq(Letters) : body = s.body
    BY DEF Chunk
  <2> QED
    BY <2>1
<1>3. PICK a : a = Append(b, s)
  OBVIOUS
<1>4. a \in Chunks /\ DOMAIN a = 1 .. n + 1 /\ a[n + 1] = s /\ \A i \in 1 .. n : a[i] = b[i]
  BY <1>1, <1>3 DEF Chunks
<1>5. PICK D, C, m : D = 1 .. n /\ C = 1 .. n + 1 /\ m = n + 1
  OBVIOUS
<1>6. m \in C /\ C \ {m} = D /\ \A i \in C : i = m \/ i \in D
  BY <1>5
<1>7. IsFiniteSet(C) /\ IsFiniteSet(D)
  BY <1>5, FS_Interval
<1>8. PICK f, e : f = [i \in DOMAIN b |-> Len(b[i].body)] /\ e = [i \in DOMAIN a |-> Len(a[i].body)]
  OBVIOUS
<1>9. \A i \in D : f[i] \in Nat /\ e[i] = f[i]
  <2> SUFFICES ASSUME NEW i \in D PROVE f[i] \in Nat /\ e[i] = f[i]
    OBVIOUS
  <2>1. i \in 1 .. n /\ i \in 1 .. n + 1
    BY <1>5
  <2> QED
    BY <1>1, <1>4, <1>8, <2>1
<1>10. e[m] = l
  BY <1>2, <1>4, <1>5, <1>6, <1>8
<1>11. \A i \in C : e[i] \in Nat
  BY <1>6, <1>9, <1>10
<1>12. SumFunctionOnSet(e, C) = e[m] + SumFunctionOnSet(e, C \ {m})
  BY <1>6, <1>7, <1>11, SumOfOne
<1>13. SumFunctionOnSet(f, D) = SumFunctionOnSet(e, D)
  BY <1>7, <1>9, SumOfSame
<1>14. SumFunctionOnSet(f, D) \in Nat
  BY <1>7, <1>9, SumIsNat
<1>15. PICK q \in Nat : q = SumFunctionOnSet(f, D)
  BY <1>14
<1>16. Size(b) = q /\ Size(a) = SumFunctionOnSet(e, C)
  BY <1>1, <1>4, <1>5, <1>8, <1>15 DEF Size
<1>17. SumFunctionOnSet(e, C) = l + q
  BY <1>6, <1>10, <1>12, <1>13, <1>15
<1> QED
  BY <1>2, <1>3, <1>16, <1>17

Fits(b) == Len(b) > 1 => Size(b) <= BatchLength

FitChunks == {b \in Chunks : Fits(b)}

FitBatches == Seq(FitChunks)

Batching == [full : FitBatches, last : FitChunks]

LEMMA FitBatchesAre ==
  ASSUME NEW full \in FitBatches
  PROVE  /\ full \in Seq(Seq(Chunk)) /\ FlattenSeq(full) \in Chunks
         /\ \A last \in FitChunks : /\ Append(full, last) \in FitBatches
                                    /\ FlattenSeq(Append(full, last)) = FlattenSeq(full) \o last
<1>1. FitChunks \subseteq Seq(Chunk)
  BY DEF FitChunks, Chunks
<1>2. full \in Seq(Seq(Chunk))
  BY <1>1, SeqOfMore DEF FitBatches
<1>3. FlattenSeq(full) \in Chunks
  BY <1>2, FlattenHolds DEF Chunks
<1>4. ASSUME NEW last \in FitChunks PROVE Append(full, last) \in FitBatches
  BY AppendHas DEF FitBatches
<1>5. ASSUME NEW last \in FitChunks
      PROVE  FlattenSeq(Append(full, last)) = FlattenSeq(full) \o last
  BY <1>1, <1>2, FlattenAppend
<1> QED
  BY <1>2, <1>3, <1>4, <1>5

LEMMA BatchedKeeps ==
  ASSUME NEW x \in Batching, NEW s \in Chunk
  PROVE  /\ Batched(x, s) \in Batching
         /\ FlattenSeq(Batched(x, s).full) \o Batched(x, s).last = (FlattenSeq(x.full) \o x.last) \o <<s>>
<1>1. PICK full \in FitBatches, last \in FitChunks :
         full = x.full /\ last = x.last /\ x = [full |-> full, last |-> last]
  BY DEF Batching
<1>2. last \in Chunks /\ Fits(last)
  BY DEF FitChunks
<1>3. PICK l \in Nat, size \in Nat, batch \in Nat :
         l = Len(s.body) /\ size = Size(last) /\ batch = BatchLength
  <2>1. PICK body : body \in Seq(Letters) /\ body = s.body
    BY DEF Chunk
  <2>2. Len(body) \in Nat
    BY <2>1
  <2> QED
    BY <1>2, <2>1, <2>2, SizeIsNat, TranscriptsAssumption
<1>4. PICK one : one = <<s>> /\ one \in Chunks /\ Len(one) = 1
  <2>1. <<s>> \in Chunks /\ Len(<<s>>) = 1
    BY DEF Chunks
  <2> QED
    BY <2>1
<1>5. PICK more : more = Append(last, s) /\ more = last \o one /\ more \in Chunks
  <2>1. Append(last, s) \in Chunks
    BY <1>2, AppendHas DEF Chunks
  <2>2. Append(last, s) = last \o <<s>>
    BY <1>2, AppendIsConcat DEF Chunks
  <2> QED
    BY <1>4, <2>1, <2>2
<1>6. PICK flat : flat = FlattenSeq(full) /\ flat \in Chunks
  BY FitBatchesAre
<1>9. (flat \o last) \o one = flat \o more
  BY <1>2, <1>4, <1>5, <1>6, AddedInTurn DEF Chunks
<1>7. CASE last # <<>> /\ size + l > batch
  <2>1. PICK all \in FitBatches : all = Append(full, last) /\ FlattenSeq(all) = flat \o last
    BY <1>6, FitBatchesAre
  <2>2. one \in FitChunks
    BY <1>4 DEF FitChunks, Fits
  <2>3. PICK y : y = [full |-> all, last |-> one]
    OBVIOUS
  <2>4. Batched(x, s) = y
    BY <1>1, <1>3, <1>4, <1>7, <2>1, <2>3 DEF Batched
  <2>5. y \in Batching /\ y.full = all /\ y.last = one
    BY <2>2, <2>3 DEF Batching
  <2>6. FlattenSeq(y.full) \o y.last = (FlattenSeq(x.full) \o x.last) \o <<s>>
    BY <1>1, <1>4, <1>6, <2>1, <2>5
  <2> QED
    BY <2>4, <2>5, <2>6
<1>8. CASE ~ (last # <<>> /\ size + l > batch)
  <2>1. Batched(x, s) = [x EXCEPT !.last = more]
    BY <1>1, <1>3, <1>5, <1>8 DEF Batched
  <2>2. PICK y : y = [full |-> full, last |-> more]
    OBVIOUS
  <2>3. Batched(x, s) = y
    BY <1>1, <2>1, <2>2
  <2>4. Fits(more)
    <3>1. CASE last = <<>>
      <4>1. more = one
        BY <1>4, <1>5, <3>1, ConcatEmptySeq DEF Chunks
      <4> QED
        BY <1>4, <4>1 DEF Fits
    <3>2. CASE ~ (size + l > batch)
      <4>1. Size(more) = size + l
        BY <1>2, <1>3, <1>5, SizeOfMore
      <4> QED
        BY <1>3, <3>2, <4>1 DEF Fits
    <3> QED
      BY <1>8, <3>1, <3>2
  <2>5. more \in FitChunks
    BY <1>5, <2>4 DEF FitChunks
  <2>6. y \in Batching /\ y.full = full /\ y.last = more
    BY <2>2, <2>5 DEF Batching
  <2>7. FlattenSeq(y.full) \o y.last = (FlattenSeq(x.full) \o x.last) \o <<s>>
    BY <1>1, <1>4, <1>6, <1>9, <2>6
  <2> QED
    BY <2>3, <2>6, <2>7
<1> QED
  BY <1>7, <1>8

\* The batches are the segments, each as long as it may be.
LEMMA BatchesAre ==
  ASSUME NEW segments \in Chunks
  PROVE  Batches(segments) \in FitBatches /\ FlattenSeq(Batches(segments)) = segments
<1>1. PICK n \in Nat : n = Len(segments) /\ DOMAIN segments = 1 .. n
  BY DEF Chunks
<1>2. \A k \in 1 .. n : segments[k] \in Chunk
  BY <1>1 DEF Chunks
<1>3. PICK A : A = Batching
  OBVIOUS
<1>4. NoBatches \in A /\ FlattenSeq(NoBatches.full) \o NoBatches.last = <<>>
  <2>1. PICK e : e = NoBatches
    OBVIOUS
  <2>2. e = [full |-> <<>>, last |-> <<>>]
    BY <2>1 DEF NoBatches
  <2>3. <<>> \in FitBatches /\ <<>> \in Chunks /\ Len(<<>>) = 0
    BY DEF Chunks, FitBatches
  <2>4. Fits(<<>>)
    BY <2>3 DEF Fits
  <2>5. e \in Batching
    BY <2>2, <2>3, <2>4 DEF Batching, FitChunks
  <2>6. FlattenSeq(<<>>) = <<>>
    BY <2>3 DEF FlattenSeq
  <2>7. <<>> \o <<>> = <<>>
    BY <2>3, ConcatEmptySeq DEF Chunks
  <2> QED
    BY <1>3, <2>1, <2>2, <2>5, <2>6, <2>7
<1>5. \A a \in A : \A k \in 1 .. n : Batched(a, segments[k]) \in A
  BY <1>2, <1>3, BatchedKeeps
<1>6. PICK g : /\ g[0] = NoBatches /\ \A k \in 1 .. n : g[k] = Batched(g[k - 1], segments[k])
               /\ FoldLeft(Batched, NoBatches, segments) = g[n]
  <2>1. DOMAIN segments = 1 .. n /\ NoBatches \in A
    BY <1>1, <1>4
  <2> QED
    BY <1>5, <2>1, BatchesRun
<1>7. \A k \in 0 .. n : g[k] \in A
  <2>1. g[0] \in A /\ \A k \in 1 .. n : g[k - 1] \in A => g[k] \in A
    BY <1>4, <1>5, <1>6
  <2> QED
    BY <2>1, RunStays
<1> DEFINE All(k) == FlattenSeq(g[k].full) \o g[k].last
           Good(k) == All(k) \in Chunks /\ Len(All(k)) = k /\ \A i \in 1 .. k : All(k)[i] = segments[i]
           S == {k \in Nat : k <= n => Good(k)}
<1>8. Good(0)
  <2>1. All(0) = <<>>
    BY <1>4, <1>6
  <2>2. <<>> \in Chunks /\ Len(<<>>) = 0 /\ 1 .. 0 = {}
    BY DEF Chunks
  <2> HIDE DEF All
  <2> QED
    BY <2>1, <2>2
<1>9. ASSUME NEW k \in Nat, k + 1 <= n, Good(k) PROVE Good(k + 1)
  <2>1. PICK l \in 1 .. n : l = k + 1 /\ l - 1 = k /\ k \in 0 .. n /\ k <= n
    BY <1>9
  <2>2. g[l] = Batched(g[k], segments[l])
    BY <1>6, <2>1
  <2>3. g[k] \in Batching /\ segments[l] \in Chunk
    BY <1>2, <1>3, <1>7, <2>1
  <2>4. All(l) = All(k) \o <<segments[l]>>
    BY <2>2, <2>3, BatchedKeeps
  <2>5. PICK x : x = All(k)
    OBVIOUS
  <2>10. PICK s \in Chunk : s = segments[l]
    BY <2>3
  <2>6. x \in Chunks /\ Len(x) = k /\ \A i \in 1 .. k : x[i] = segments[i]
    BY <1>9, <2>5
  <2> HIDE DEF All
  <2>7. PICK y : y = All(l) /\ y = x \o <<s>>
    BY <2>4, <2>5, <2>10
  <2>8. y \in Chunks /\ Len(y) = k + 1 /\ y[k + 1] = s /\ \A i \in 1 .. k : y[i] = x[i]
    BY <2>6, <2>7 DEF Chunks
  <2>9. \A i \in 1 .. l : y[i] = segments[i]
    <3>1. \A i \in 1 .. l : i = l \/ i \in 1 .. k
      BY <2>1
    <3> QED
      BY <2>1, <2>6, <2>8, <2>10, <3>1
  <2> QED
    BY <2>1, <2>7, <2>8, <2>9
<1>10. Good(n)
  <2>1. 0 \in S
    BY <1>8
  <2>2. ASSUME NEW k \in Nat, k \in S PROVE k + 1 \in S
    <3> HIDE DEF Good
    <3> QED
      BY <1>9, <2>2
  <2>3. n \in S
    <3> HIDE DEF S
    <3> QED
      BY <2>1, <2>2, AllNumbers
  <2> HIDE DEF Good
  <2> QED
    BY <2>3
<1>11. All(n) = segments
  <2>1. PICK x : x = All(n)
    OBVIOUS
  <2>2. x \in Chunks /\ Len(x) = n /\ \A i \in 1 .. n : x[i] = segments[i]
    BY <1>10, <2>1
  <2> HIDE DEF All
  <2>3. x = segments
    BY <1>1, <2>2 DEF Chunks
  <2> QED
    BY <2>1, <2>3
<1>12. PICK full \in FitBatches, last \in FitChunks : full = g[n].full /\ last = g[n].last
  <2>1. g[n] \in Batching
    BY <1>3, <1>7
  <2> QED
    BY <2>1 DEF Batching
<1>13. Batches(segments) = Append(full, last)
  BY <1>6, <1>12 DEF Batches
<1>14. Append(full, last) \in FitBatches /\ FlattenSeq(Append(full, last)) = FlattenSeq(full) \o last
  BY FitBatchesAre
<1> QED
  BY <1>11, <1>12, <1>13, <1>14

-----------------------------------------------------------------------------
(* Halves.                                                                 *)

\* A part p of n segments: c of them from a.
Spans(batch, n, p, a, c) ==
    /\ a \in 1 .. n + 1 /\ c \in 0 .. n /\ a + c <= n + 1
    /\ p = <<a, c>> /\ p[1] = a /\ p[2] = c
    /\ PartOf(batch, p) = SubSeq(batch, a, a + c - 1) /\ PartOf(batch, p) \in Chunks

LEMMA PartIs ==
  ASSUME NEW batch \in Chunks, NEW n \in Nat, n = Len(batch), NEW p \in Parts(batch)
  PROVE  \E a, c : Spans(batch, n, p, a, c)
<1>1. p \in (1 .. n + 1) \X (0 .. n) /\ p[1] + p[2] <= n + 1
  BY DEF Parts
<1>2. PICK a \in 1 .. n + 1, c \in 0 .. n : p = <<a, c>> /\ p[1] = a /\ p[2] = c
  BY <1>1
<1>3. PICK d \in Int : d = a + c - 1 /\ d <= n
  BY <1>1, <1>2
<1>4. \A i \in a .. d : i \in 1 .. n
  BY <1>3
<1>5. \A i \in 1 .. n : batch[i] \in Chunk
  BY DEF Chunks
<1>6. a \in Int /\ \A i \in a .. d : batch[i] \in Chunk
  BY <1>4, <1>5
<1>7. SubSeq(batch, a, d) \in Seq(Chunk)
  BY <1>6, SubSeqProperties
<1>8. PartOf(batch, p) = SubSeq(batch, a, d)
  BY <1>2, <1>3 DEF PartOf
<1> QED
  BY <1>1, <1>2, <1>3, <1>7, <1>8 DEF Chunks, Spans

\* The two halves of a part are parts, each smaller.
Halved(batch, a, c, x, y, h, r) ==
    /\ x \in Parts(batch) /\ x = <<a, h>> /\ x[2] = h
    /\ y \in Parts(batch) /\ y = <<a + h, r>> /\ y[2] = r
    /\ h = c \div 2 /\ r = Rest(c) /\ h + r = c
    /\ h \in 1 .. c - 1 /\ r \in 1 .. c - 1

LEMMA HalvesAre ==
  ASSUME NEW batch \in Chunks, NEW n \in Nat, n = Len(batch), NEW a \in 1 .. n + 1, NEW c \in 0 .. n,
         a + c <= n + 1, ~ (c < 2)
  PROVE  \E x, y, h, r : Halved(batch, a, c, x, y, h, r)
<1>1. PICK h \in 1 .. c - 1 : h = c \div 2
  OBVIOUS
<1>2. PICK r \in 1 .. c - 1 : r = c - h /\ h + r = c
  OBVIOUS
<1>3. r = Rest(c)
  BY <1>1, <1>2 DEF Rest
<1>4. h \in 0 .. n /\ r \in 0 .. n /\ a + h \in 1 .. n + 1 /\ a + h <= n + 1 /\ a + h + r <= n + 1
  BY <1>2
<1>5. PICK b \in 1 .. n + 1 : b = a + h /\ b + r <= n + 1
  BY <1>4
<1>6. <<a, h>> \in Parts(batch)
  BY <1>4 DEF Parts
<1>7. <<b, r>> \in Parts(batch)
  BY <1>4, <1>5 DEF Parts
<1>8. <<a, h>>[2] = h /\ <<b, r>>[2] = r
  OBVIOUS
<1>9. Halved(batch, a, c, <<a, h>>, <<b, r>>, h, r)
  BY <1>1, <1>2, <1>3, <1>5, <1>6, <1>7, <1>8 DEF Halved
<1> QED
  BY <1>9

\* What is asked for a part, when f says what is asked for smaller ones.
AskedFor(batch, f, p) ==
    IF p[2] < 2 \/ ~ TooLong(PartOf(batch, p)) THEN <<PartOf(batch, p)>>
    ELSE f[<<p[1], p[2] \div 2>>] \o f[<<p[1] + p[2] \div 2, Rest(p[2])>>]

Asking(batch) == [Parts(batch) -> Seq(Chunks)]

LEMMA AskedForIs ==
  ASSUME NEW batch \in Chunks, NEW n \in Nat, n = Len(batch), NEW p \in Parts(batch),
         NEW f \in Asking(batch)
  PROVE  AskedFor(batch, f, p) \in Seq(Chunks)
<1>5. PICK a, c : Spans(batch, n, p, a, c)
  BY PartIs
<1>1. /\ a \in 1 .. n + 1 /\ c \in 0 .. n
      /\ p[1] = a /\ p[2] = c /\ a + c <= n + 1 /\ PartOf(batch, p) \in Chunks
  BY <1>5 DEF Spans
<1>2. <<PartOf(batch, p)>> \in Seq(Chunks)
  BY <1>1
<1>3. CASE c < 2 \/ ~ TooLong(PartOf(batch, p))
  BY <1>1, <1>2, <1>3 DEF AskedFor
<1>4. CASE ~ (c < 2) /\ TooLong(PartOf(batch, p))
  <2>1. PICK x, y, h, r : Halved(batch, a, c, x, y, h, r)
    BY <1>1, <1>4, HalvesAre
  <2>2. PICK s, t : s = f[x] /\ t = f[y]
    OBVIOUS
  <2>3. s \in Seq(Chunks) /\ t \in Seq(Chunks)
    BY <2>1, <2>2 DEF Asking, Halved
  <2>4. s \o t \in Seq(Chunks)
    BY <2>3, ConcatProperties
  <2>5. AskedFor(batch, f, p) = s \o t
    BY <1>1, <1>4, <2>1, <2>2 DEF AskedFor, Halved
  <2> QED
    BY <2>4, <2>5
<1> QED
  BY <1>3, <1>4

\* Parts of no more than m segments are asked alike by f and e.
Alike(batch, f, e, m) == \A p \in Parts(batch) : p[2] <= m => f[p] = e[p]

LEMMA AskedForAgrees ==
  ASSUME NEW batch \in Chunks, NEW n \in Nat, n = Len(batch), NEW f, NEW e, NEW m \in Nat,
         Alike(batch, f, e, m), NEW p \in Parts(batch), p[2] <= m + 1
  PROVE  AskedFor(batch, f, p) = AskedFor(batch, e, p)
<1>4. PICK a, c : Spans(batch, n, p, a, c)
  BY PartIs
<1>1. a \in 1 .. n + 1 /\ c \in 0 .. n /\ p[1] = a /\ p[2] = c /\ a + c <= n + 1
  BY <1>4 DEF Spans
<1>2. CASE c < 2
  BY <1>1, <1>2 DEF AskedFor
<1>3. CASE ~ (c < 2)
  <2>1. PICK x, y, h, r : Halved(batch, a, c, x, y, h, r)
    BY <1>1, <1>3, HalvesAre
  <2>2. c <= m + 1 /\ h <= m /\ r <= m
    <3>1. c <= m + 1
      BY <1>1
    <3>2. h \in 1 .. c - 1 /\ r \in 1 .. c - 1
      BY <2>1 DEF Halved
    <3> QED
      BY <1>1, <3>1, <3>2
  <2>4. f[x] = e[x] /\ f[y] = e[y]
    BY <2>1, <2>2 DEF Alike, Halved
  <2>5. \A u : AskedFor(batch, u, p) = IF c < 2 \/ ~ TooLong(PartOf(batch, p)) THEN <<PartOf(batch, p)>>
                                       ELSE u[x] \o u[y]
    BY <1>1, <2>1 DEF AskedFor, Halved
  <2> QED
    BY <2>4, <2>5
<1> QED
  BY <1>2, <1>3

\* The question of every part is a function.
LEMMA AskingExists ==
  ASSUME NEW batch \in Chunks
  PROVE  \E f \in Asking(batch) : f = [p \in Parts(batch) |-> AskedFor(batch, f, p)]
<1>1. PICK n \in Nat : n = Len(batch)
  BY DEF Chunks
<1>2. PICK A, P : A = Asking(batch) /\ P = Parts(batch)
  OBVIOUS
<1> DEFINE Round(f) == [p \in P |-> AskedFor(batch, f, p)]
           step == [q \in (1 .. n + 1) \X A |-> Round(q[2])]
           base == [p \in P |-> <<PartOf(batch, p)>>]
<1>3. \A f \in A : Round(f) \in A
  <2>1. \A f \in A : \A p \in P : AskedFor(batch, f, p) \in Seq(Chunks)
    BY <1>1, <1>2, AskedForIs
  <2> QED
    BY <1>2, <2>1 DEF Asking
<1>4. base \in A
  <2>1. \A p \in P : <<PartOf(batch, p)>> \in Seq(Chunks)
    <3> SUFFICES ASSUME NEW p \in P PROVE <<PartOf(batch, p)>> \in Seq(Chunks)
      OBVIOUS
    <3>1. PartOf(batch, p) \in Chunks
      BY <1>1, <1>2, PartIs DEF Spans
    <3> QED
      BY <3>1
  <2> QED
    BY <1>2, <2>1 DEF Asking
<1>5. step \in [(1 .. n + 1) \X A -> A]
  <2> HIDE DEF Round
  <2> SUFFICES ASSUME NEW q \in (1 .. n + 1) \X A PROVE Round(q[2]) \in A
    OBVIOUS
  <2>1. q[2] \in A
    OBVIOUS
  <2> QED
    BY <1>3, <2>1
<1>6. PICK g : g \in [0 .. n + 1 -> A] /\ Running(g, base, step, n + 1)
  <2> HIDE DEF step, base
  <2>1. n + 1 \in Nat
    OBVIOUS
  <2> QED
    BY <1>4, <1>5, <2>1, RunExists
<1>7. g[0] = base
  BY <1>6 DEF Running
<1>8. \A k \in 0 .. n + 1 : g[k] \in A
  BY <1>6
<1>9. ASSUME NEW k \in 1 .. n + 1 PROVE g[k] = Round(g[k - 1])
  <2> HIDE DEF Round, base
  <2>1. g[k] = step[<<k, g[k - 1]>>]
    <3> HIDE DEF step
    <3> QED
      BY <1>6 DEF Running
  <2>2. k - 1 \in 0 .. n + 1
    OBVIOUS
  <2>3. g[k - 1] \in A
    BY <1>8, <2>2
  <2> QED
    BY <2>1, <2>3
<1>10. ASSUME NEW k \in 1 .. n + 1, NEW p \in P PROVE g[k][p] = AskedFor(batch, g[k - 1], p)
  <2>1. g[k] = Round(g[k - 1])
    BY <1>9
  <2> HIDE DEF step, base
  <2> QED
    BY <2>1
<1> DEFINE S == {k \in Nat : k <= n => Alike(batch, g[k], g[k + 1], k)}
<1>11. 0 \in S
  <2>1. ASSUME NEW p \in P, p[2] <= 0 PROVE g[0][p] = g[1][p]
    <3>1. p[2] < 2
      <4>1. p[2] \in 0 .. n
        BY <1>1, <1>2, PartIs DEF Spans
      <4> QED
        BY <2>1, <4>1
    <3>2. g[0][p] = <<PartOf(batch, p)>>
      BY <1>7
    <3>3. 1 \in 1 .. n + 1
      OBVIOUS
    <3>4. g[1][p] = AskedFor(batch, g[1 - 1], p)
      BY <1>10, <3>3
    <3> HIDE DEF step, base
    <3> QED
      BY <3>1, <3>2, <3>4 DEF AskedFor
  <2> QED
    BY <1>2, <2>1 DEF Alike
<1>12. ASSUME NEW k \in Nat, k \in S PROVE k + 1 \in S
  <2> HIDE DEF step, base, Round
  <2> SUFFICES ASSUME k + 1 <= n PROVE Alike(batch, g[k + 1], g[k + 2], k + 1)
    OBVIOUS
  <2>1. PICK l \in 1 .. n + 1, q \in 1 .. n + 1 : l = k + 1 /\ l - 1 = k /\ q = k + 2 /\ q - 1 = l /\ k <= n
    OBVIOUS
  <2>2. Alike(batch, g[k], g[l], k)
    BY <1>12, <2>1
  <2>3. ASSUME NEW p \in P, p[2] <= k + 1 PROVE g[l][p] = g[q][p]
    <3>1. AskedFor(batch, g[k], p) = AskedFor(batch, g[l], p)
      BY <1>1, <1>2, <2>2, <2>3, AskedForAgrees
    <3>2. g[l][p] = AskedFor(batch, g[k], p)
      BY <1>10, <2>1
    <3>3. g[q][p] = AskedFor(batch, g[l], p)
      BY <1>10, <2>1
    <3> QED
      BY <3>1, <3>2, <3>3
  <2> QED
    BY <1>2, <2>1, <2>3 DEF Alike
<1>13. Alike(batch, g[n], g[n + 1], n)
  <2> HIDE DEF step, base, Round
  <2>1. n \in S
    <3> HIDE DEF S
    <3> QED
      BY <1>11, <1>12, AllNumbers
  <2> QED
    BY <2>1
<1> HIDE DEF step, base
<1>14. PICK f, e : f = g[n] /\ e = g[n + 1]
  OBVIOUS
<1>15. f \in A /\ e \in A
  <2>1. n \in 0 .. n + 1 /\ n + 1 \in 0 .. n + 1
    OBVIOUS
  <2> QED
    BY <1>8, <1>14, <2>1
<1>16. ASSUME NEW p \in P PROVE f[p] = AskedFor(batch, f, p)
  <2>1. p[2] <= n
    <3>1. p[2] \in 0 .. n
      BY <1>1, <1>2, PartIs DEF Spans
    <3> QED
      BY <3>1
  <2>2. f[p] = e[p]
    BY <1>2, <1>13, <1>14, <2>1 DEF Alike
  <2>3. n + 1 \in 1 .. n + 1 /\ (n + 1) - 1 = n
    OBVIOUS
  <2>4. e[p] = AskedFor(batch, f, p)
    BY <1>10, <1>14, <2>3
  <2> QED
    BY <2>2, <2>4
<1>17. f = [p \in P |-> f[p]]
  BY <1>2, <1>15 DEF Asking
<1>18. f = [p \in P |-> AskedFor(batch, f, p)]
  BY <1>16, <1>17
<1> QED
  BY <1>2, <1>15, <1>18

\* The parts asked are the part, in its order.
AskedIs(batch, f, p) == f[p] \in Seq(Chunks) /\ FlattenSeq(f[p]) = PartOf(batch, p)

LEMMA HalvesMeet ==
  ASSUME NEW batch \in Chunks, NEW n \in Nat, n = Len(batch), NEW a, NEW c,
         NEW p, Spans(batch, n, p, a, c), NEW x, NEW y, NEW h, NEW r, Halved(batch, a, c, x, y, h, r)
  PROVE  PartOf(batch, x) \o PartOf(batch, y) = PartOf(batch, p)
<1>1. h \in 1 .. c - 1 /\ r \in 1 .. c - 1 /\ h + r = c
  BY DEF Halved
<1>10. a \in 1 .. n + 1 /\ c \in 0 .. n /\ a + c <= n + 1
  BY DEF Spans
<1>8. PICK k \in a - 1 .. n : k = a + h - 1 /\ k + 1 = a + h
  BY <1>1, <1>10
<1>9. PICK d \in k .. n : d = a + c - 1
  BY <1>1, <1>8, <1>10
<1>2. k = a + h - 1 /\ d = a + c - 1 /\ k + 1 = a + h
  BY <1>8, <1>9
<1>3. x[1] = a /\ x[2] = h /\ y[1] = k + 1 /\ y[2] = r
  BY <1>2 DEF Halved
<1>4. PartOf(batch, x) = SubSeq(batch, a, k)
  BY <1>2, <1>3 DEF PartOf
<1>5. k + 1 + r - 1 = d
  BY <1>1, <1>2, <1>10
<1>6. PartOf(batch, y) = SubSeq(batch, k + 1, d)
  BY <1>3, <1>5 DEF PartOf
<1>7. SubSeq(batch, a, k) \o SubSeq(batch, k + 1, d) = SubSeq(batch, a, d)
  BY <1>10, ConcatAdjacentSubSeq DEF Chunks
<1> QED
  BY <1>2, <1>4, <1>6, <1>7 DEF Spans

LEMMA AskedAre == ASSUME NEW batch \in Chunks PROVE FlattenSeq(Asked(batch)) = batch
<1>1. PICK n \in Nat : n = Len(batch)
  BY DEF Chunks
<1> DEFINE Solves(f) == f = [p \in Parts(batch) |->
              LET half == p[2] \div 2 IN
              IF p[2] < 2 \/ ~ TooLong(PartOf(batch, p)) THEN <<PartOf(batch, p)>>
              ELSE f[<<p[1], half>>] \o f[<<p[1] + half, Rest(p[2])>>]]
           From == CHOOSE f : Solves(f)
<1>2. Solves(From)
  <2>1. PICK f : f = [p \in Parts(batch) |-> AskedFor(batch, f, p)]
    BY AskingExists
  <2>2. Solves(f)
    BY <2>1 DEF AskedFor
  <2> HIDE DEF Solves
  <2> QED
    BY <2>2
<1>3. Asked(batch) = From[<<1, n>>]
  BY <1>1 DEF Asked
<1>4. PICK f : f = From
  OBVIOUS
<1>5. f = [p \in Parts(batch) |-> AskedFor(batch, f, p)]
  <2> HIDE DEF From
  <2> QED
    BY <1>2, <1>4 DEF AskedFor
<1> HIDE DEF From, Solves
<1>6. \A p \in Parts(batch) : f[p] = AskedFor(batch, f, p)
  BY <1>5
<1> DEFINE Good(m) == \A p \in Parts(batch) : p[2] <= m => AskedIs(batch, f, p)
           S == {m \in Nat : Good(m)}
<1>7. ASSUME NEW p \in Parts(batch), p[2] < 2 \/ ~ TooLong(PartOf(batch, p)) PROVE AskedIs(batch, f, p)
  <2>1. PICK b : b = PartOf(batch, p) /\ b \in Seq(Chunk)
    BY <1>1, PartIs DEF Chunks, Spans
  <2>2. f[p] = <<b>>
    BY <1>6, <1>7, <2>1 DEF AskedFor
  <2>3. <<b>> \in Seq(Seq(Chunk))
    BY <2>1
  <2>4. FlattenSeq(<<b>>) = b
    BY <2>1, FlattenOne
  <2> QED
    BY <2>1, <2>2, <2>3, <2>4 DEF AskedIs, Chunks
<1>8. Good(0)
  <2>1. ASSUME NEW p \in Parts(batch), p[2] <= 0 PROVE p[2] < 2
    <3>1. p[2] \in 0 .. n
      BY <1>1, PartIs DEF Spans
    <3> QED
      BY <2>1, <3>1
  <2> QED
    BY <1>7, <2>1
<1>9. ASSUME NEW m \in Nat, Good(m) PROVE Good(m + 1)
  <2> SUFFICES ASSUME NEW p \in Parts(batch), p[2] <= m + 1, ~ (p[2] < 2 \/ ~ TooLong(PartOf(batch, p)))
               PROVE  AskedIs(batch, f, p)
    BY <1>7
  <2>11. PICK a, c : Spans(batch, n, p, a, c)
    BY <1>1, PartIs
  <2>1. a \in 1 .. n + 1 /\ c \in 0 .. n /\ p[1] = a /\ p[2] = c /\ a + c <= n + 1
    BY <2>11 DEF Spans
  <2>2. PICK x, y, h, r : Halved(batch, a, c, x, y, h, r)
    BY <1>1, <2>1, HalvesAre
  <2>3. x \in Parts(batch) /\ y \in Parts(batch) /\ x[2] <= m /\ y[2] <= m
    <3>1. c <= m + 1
      BY <2>1
    <3>2. h \in 1 .. c - 1 /\ r \in 1 .. c - 1 /\ x[2] = h /\ y[2] = r
      BY <2>2 DEF Halved
    <3>3. h <= m /\ r <= m
      BY <2>1, <3>1, <3>2
    <3> QED
      BY <2>2, <3>2, <3>3 DEF Halved
  <2>4. AskedIs(batch, f, x) /\ AskedIs(batch, f, y)
    BY <1>9, <2>3
  <2>5. f[p] = f[x] \o f[y]
    BY <1>6, <2>1, <2>2 DEF AskedFor, Halved
  <2>6. PICK s, t : s = f[x] /\ t = f[y]
    OBVIOUS
  <2>7. s \in Seq(Seq(Chunk)) /\ t \in Seq(Seq(Chunk))
    BY <2>4, <2>6 DEF AskedIs, Chunks
  <2>8. FlattenSeq(s \o t) = FlattenSeq(s) \o FlattenSeq(t)
    BY <2>7, FlattenConcat
  <2>9. s \o t \in Seq(Seq(Chunk))
    BY <2>7, ConcatProperties
  <2>10. PartOf(batch, x) \o PartOf(batch, y) = PartOf(batch, p)
    BY <1>1, <2>2, <2>11, HalvesMeet
  <2> QED
    BY <2>4, <2>5, <2>6, <2>8, <2>9, <2>10 DEF AskedIs, Chunks
<1>10. Good(n)
  <2> HIDE DEF Good
  <2>1. \A m \in Nat : m \in S => m + 1 \in S
    BY <1>9
  <2>2. 0 \in S
    BY <1>8
  <2>3. n \in S
    <3> HIDE DEF S
    <3> QED
      BY <2>1, <2>2, AllNumbers
  <2> QED
    BY <2>3
<1>11. PICK p : p = <<1, n>> /\ p[1] = 1 /\ p[2] = n
  <2>1. <<1, n>>[1] = 1 /\ <<1, n>>[2] = n
    OBVIOUS
  <2> QED
    BY <2>1
<1>12. p \in Parts(batch)
  <2>1. 1 \in 1 .. n + 1 /\ n \in 0 .. n /\ 1 + n <= n + 1
    OBVIOUS
  <2> QED
    BY <1>1, <1>11, <2>1 DEF Parts
<1>13. PartOf(batch, p) = batch
  <2>1. 1 + n - 1 = n
    OBVIOUS
  <2>2. SubSeq(batch, 1, n) = batch
    BY <1>1, SubSeqFull DEF Chunks
  <2> QED
    BY <1>11, <2>1, <2>2 DEF PartOf
<1>14. n <= n
  OBVIOUS
<1>15. AskedIs(batch, f, p)
  BY <1>10, <1>11, <1>12, <1>14
<1> QED
  BY <1>3, <1>4, <1>11, <1>13, <1>15 DEF AskedIs

\* Every letter of a transcript is asked about, once, in order.
THEOREM NothingIsLost == TranscriptsSpec => []EverySegmentIsAsked
<1>1. Spoken(cues) => EverySegmentIsAsked
  <2> SUFFICES ASSUME Spoken(cues) PROVE EverySegmentIsAsked
    OBVIOUS
  <2>1. Marked(Captions(cues))
    BY FlatIsMarked DEF Captions
  <2>2. PICK speech : speech = Captions(cues).text
    OBVIOUS
  <2>3. PICK n \in Nat : Long(speech, n)
    BY <2>1, <2>2 DEF Marked, Anchored
  <2>4. PICK segments : segments = Segments(speech)
    OBVIOUS
  <2>5. PICK m \in Nat : CutUpTo(speech, n, segments, m)
    BY <2>3, <2>4, SegmentsAre
  <2>6. segments \in Chunks /\ DOMAIN segments = 1 .. m /\ DOMAIN speech = 1 .. n
    BY <2>3, <2>5 DEF CutUpTo, Long
  <2>7. /\ \A i \in 1 .. m : /\ segments[i].start < segments[i].end
                             /\ segments[i].end - segments[i].start <= SegmentLength
        /\ \A i \in 1 .. m : i > 1 => segments[i - 1].end <= segments[i].start
    BY <2>5 DEF CutUpTo
  <2>8. ASSUME NEW i \in 1 .. n, speech[i] # " "
        PROVE  \E s \in ToSet(segments) : s.start < i /\ i <= s.end
    <3>1. PICK k \in 1 .. m : segments[k].start < i /\ i <= segments[k].end
      BY <2>5, <2>8 DEF CutUpTo, Solid
    <3>2. segments[k] \in ToSet(segments)
      BY <2>6 DEF ToSet
    <3> QED
      BY <3>1, <3>2
  <2>9. PICK batches : batches = Batches(segments)
    OBVIOUS
  <2>10. batches \in FitBatches /\ FlattenSeq(batches) = segments
    BY <2>6, <2>9, BatchesAre
  <2>11. ASSUME NEW b \in ToSet(batches)
         PROVE  /\ Len(b) > 1 => Size(b) <= BatchLength
                /\ FlattenSeq(Asked(b)) = b
    <3>1. PICK i \in DOMAIN batches : b = batches[i]
      BY DEF ToSet
    <3>2. b \in FitChunks
      BY <2>10, <3>1, MemberOfSeq DEF FitBatches
    <3> QED
      BY <3>2, AskedAre DEF FitChunks, Fits
  <2> QED
    BY <2>2, <2>4, <2>6, <2>7, <2>8, <2>9, <2>10, <2>11 DEF EverySegmentIsAsked
<1> QED
  BY <1>1, SpokenAlways, PTL

=============================================================================
