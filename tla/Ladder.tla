--------------------------------- MODULE Ladder ---------------------------------
(***************************************************************************)
(* One item on its transcript ladder (acquire in                           *)
(* apps/evidence/services/transcripts.py, the chains of                    *)
(* connectors/chains.py, and what each vendor's connector makes of an      *)
(* answer).  EvidencePipeline takes the outcome of a walk as a choice;     *)
(* here it is walked rung by rung, by several walkers, while vendors       *)
(* break, refuse and are put right.                                        *)
(***************************************************************************)
EXTENDS Integers, Sequences, FiniteSets

CONSTANTS
    Walkers,        \* processes serving the queue
    MaxWalks,       \* bound
    MaxTurns        \* bound: changes of a vendor's health

ASSUME LadderAssumption == MaxWalks \in Nat /\ MaxTurns \in Nat

VARIABLES
    item,           \* its route, and what is true of it
    health,         \* health[p]: how vendor p stands
    content,        \* ContentItem.content_state
    transcript,     \* the rung its TranscriptArtifact came from
    walk,           \* walk[w]: the answers so far, of the rungs from the first
    trail,          \* history: the answers of the walk that settled the item
    walks, turns

ladderVars == <<item, health, content, transcript, walk, trail, walks, turns>>

-----------------------------------------------------------------------------
\* DEFAULT_CHAINS, without the terminal rung
Chains ==
    [podcast |-> <<"publisher_transcript", "taddy", "assemblyai", "manual">>,
     youtube |-> <<"creator_captions", "apify_subtitles", "supadata", "manual">>,
     social |-> <<"virlo_transcript", "caption_comments">>]

VendorOf ==
    [taddy |-> "taddy", apify_subtitles |-> "apify", assemblyai |-> "assemblyai",
     virlo_transcript |-> "virlo", caption_comments |-> "virlo"]
Vendors == {VendorOf[rung] : rung \in DOMAIN VendorOf}
Built(rung) == rung \in DOMAIN VendorOf

\* unset: no key, no policy, paused or at its cap; refusing: a key that is
\* rejected, a balance that is empty, or an error in words that Taddy's
\* connector does not know as passing ones.
Healths == {"works", "unset", "refusing"}

Facts ==
    [podcast |-> {"at taddy", "url", "audible", "short"},
     youtube |-> {"url", "captions"},
     social |-> {"tiktok", "speech", "caption", "replies"}]

\* What has to be true of the item for a rung to read it; of caption_comments,
\* either.
Needs ==
    [taddy |-> {"at taddy"}, apify_subtitles |-> {"url", "captions"},
     assemblyai |-> {"url", "audible", "short"}, virlo_transcript |-> {"tiktok", "speech"}]
CanServe(rung) ==
    \/ rung \in DOMAIN Needs /\ Needs[rung] \subseteq item.facts
    \/ rung = "caption_comments" /\ item.facts \cap {"caption", "replies"} # {}

Chain == Chains[item.route]

-----------------------------------------------------------------------------
(* What a rung says: its text; never, of the item; broke, so that the item *)
(* is worth another walk; or unheard: it says never of the item, and the   *)
(* vendor has said nothing of it.                                          *)

Said == {"text", "never", "unheard", "broke"}
NoWalk == [step |-> "none", answers |-> <<>>]

\* Mutant of NotConfigured: it reads like an item without a transcript.
Unreadable == "never"

\* ConnectorUnavailable, and the cap of virlo_calls_left
NotConfigured == "broke"

\* Known without a call: no address, or not a platform with transcripts.
Pointless(rung) ==
    \/ ~ Built(rung)
    \/ rung \in {"apify_subtitles", "assemblyai"} /\ "url" \notin item.facts
    \/ rung = "virlo_transcript" /\ "tiktok" \notin item.facts

\* The connector's own estimate is over what an item may cost: nothing is sent.
TooDear(rung) == rung = "assemblyai" /\ "short" \notin item.facts

\* A vendor that is up says what it holds, or fails or takes too long.
Heard(rung) == IF CanServe(rung) THEN "text" ELSE "never"
Called(rung) == IF TooDear(rung) THEN {"never"} ELSE {"broke", Heard(rung)}

\* A blocking error reads like an item without a transcript.
Refuses(vendor) == health[vendor] = "refusing"

\* _caption_comments: what the vendor of the comments says is no matter.
Gathered ==
    LET heard == {Heard("caption_comments")}
        alone == {IF "caption" \in item.facts THEN "text" ELSE "unheard"}
    IN  IF health["virlo"] = "works" THEN heard \cup alone ELSE alone

\* ConnectorUnavailable: the factory builds no connector.
Unset(vendor) == health[vendor] = "unset"

Says(rung) ==
    IF Pointless(rung) THEN {"never"}
    ELSE IF rung = "caption_comments" THEN Gathered
    ELSE CASE Unset(VendorOf[rung]) -> {NotConfigured}
           [] Refuses(VendorOf[rung]) -> {"unheard"}
           [] OTHER -> Called(rung)

-----------------------------------------------------------------------------
Walking(w) == walk[w].step = "walking"
Rung(w) == Chain[Len(walk[w].answers) + 1]
HasText(w) == \E n \in DOMAIN walk[w].answers : walk[w].answers[n] = "text"

\* An item that has a transcript is left as it is.
Begin(w) ==
    /\ walk[w] = NoWalk /\ transcript = "" /\ walks < MaxWalks
    /\ walk' = [walk EXCEPT ![w].step = "walking"]
    /\ walks' = walks + 1
    /\ UNCHANGED <<item, health, content, transcript, trail, turns>>

Try(w) ==
    /\ Walking(w) /\ ~ HasText(w) /\ Len(walk[w].answers) < Len(Chain)
    /\ \E answer \in Says(Rung(w)) :
           walk' = [walk EXCEPT ![w].answers = Append(@, answer)]
    /\ UNCHANGED <<item, health, content, transcript, trail, walks, turns>>

\* _store; a second transcript of the item breaks its one-to-one, and that
\* walk ends there.
StoreText(w) ==
    /\ Walking(w) /\ HasText(w)
    /\ IF transcript = ""
       THEN /\ transcript' = Chain[Len(walk[w].answers)]
            /\ content' = "transcribed"
            /\ trail' = walk[w].answers
       ELSE UNCHANGED <<transcript, content, trail>>
    /\ walk' = [walk EXCEPT ![w] = NoWalk]
    /\ UNCHANGED <<item, health, walks, turns>>

\* Mutant of Retryable: only the last rung that was asked counts.
RetryableLast(answers) == answers[Len(answers)] = "broke"

\* Acquisition.retryable
Retryable(answers) == \E n \in DOMAIN answers : answers[n] = "broke"

\* _mark_metadata_only, unless something broke on the way.
GiveUp(w) ==
    /\ Walking(w) /\ ~ HasText(w) /\ Len(walk[w].answers) = Len(Chain)
    /\ IF Retryable(walk[w].answers)
       THEN UNCHANGED <<content, trail>>
       ELSE content' = "metadata" /\ trail' = walk[w].answers
    /\ walk' = [walk EXCEPT ![w] = NoWalk]
    /\ UNCHANGED <<item, health, transcript, walks, turns>>

LostWalk(w) ==
    /\ Walking(w)
    /\ walk' = [walk EXCEPT ![w] = NoWalk]
    /\ UNCHANGED <<item, health, content, transcript, trail, walks, turns>>

\* A key is set or expires, a balance runs out, a provider is paused.
Turn(p, h) ==
    /\ health[p] # h /\ turns < MaxTurns
    /\ health' = [health EXCEPT ![p] = h]
    /\ turns' = turns + 1
    /\ UNCHANGED <<item, content, transcript, walk, trail, walks>>

LadderInit ==
    /\ item \in UNION {[route : {route}, facts : SUBSET Facts[route]] : route \in DOMAIN Chains}
    /\ health = [p \in Vendors |-> "works"]
    /\ content = "discovered" /\ transcript = ""
    /\ walk = [w \in Walkers |-> NoWalk] /\ trail = <<>>
    /\ walks = 0 /\ turns = 0

LadderNext ==
    \/ \E w \in Walkers : Begin(w) \/ Try(w) \/ StoreText(w) \/ GiveUp(w) \/ LostWalk(w)
    \/ \E p \in Vendors, h \in Healths : Turn(p, h)

LadderSpec == LadderInit /\ [][LadderNext]_ladderVars

-----------------------------------------------------------------------------
LadderTypeOK ==
    /\ health \in [Vendors -> Healths]
    /\ content \in {"discovered", "transcribed", "metadata"}
    /\ transcript \in {""} \cup DOMAIN VendorOf
    /\ \A w \in Walkers : \A n \in DOMAIN walk[w].answers : walk[w].answers[n] \in Said

\* Where an item ends has a reason in its last walk: an item is written off
\* only when no rung broke and each that could have read it went unheard, and
\* its text is of the first rung that could, unless those before it broke or
\* went unheard (transcripts.py, "THE DISTINCTION THAT MATTERS").
RouteIsExplained ==
    /\ content = "metadata" =>
          \A n \in DOMAIN Chain :
              trail[n] # "broke" /\ (CanServe(Chain[n]) => trail[n] = "unheard")
    /\ content = "transcribed" =>
          /\ transcript = Chain[Len(trail)] /\ CanServe(transcript)
          /\ \A n \in 1 .. Len(trail) - 1 :
                 CanServe(Chain[n]) => trail[n] \in {"broke", "unheard"}

\* "every item that arrived during a misconfiguration would otherwise be
\* written off for good" (transcripts.py): an item is written off only if no
\* rung of its chain can read it.
WrittenOffCannotBeRead ==
    content = "metadata" => \A n \in DOMAIN Chain : ~ CanServe(Chain[n])

=============================================================================
