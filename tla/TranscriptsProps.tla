--------------------------- MODULE TranscriptsProps ----------------------------
(***************************************************************************)
(* A quote is found where it was said.                                     *)
(***************************************************************************)
EXTENDS Transcripts

\* Anchors follow the text: offsets strictly, times never backwards; each is
\* where a word of the text begins (and a located word, that word).
InOrder(anchors) ==
    \A n \in 1 .. Len(anchors) - 1 : /\ anchors[n].position < anchors[n + 1].position
                                     /\ anchors[n].at <= anchors[n + 1].at
AtAWord(flat) ==
    \A n \in DOMAIN flat.anchors :
        LET p == flat.anchors[n].position IN
        /\ p < Len(flat.text) /\ flat.text[p + 1] # " "
        /\ p = 0 \/ flat.text[p] = " "
AnchorsFollowText ==
    /\ InOrder(Captions(cues).anchors) /\ AtAWord(Captions(cues))
    /\ InOrder(Lines(cues).anchors) /\ AtAWord(Lines(cues))
    /\ LET text == Formatted(cues)
           found == Located(text, cues)
       IN  /\ InOrder(found.anchors)
           /\ \A n \in DOMAIN found.anchors :
                  LET p == found.anchors[n].position IN
                  SubSeq(text, p + 1, p + Len(found.words[n])) = found.words[n]

\* A segment is timed by the speech its first character belongs to, which the
\* search finds because anchors are in order: the reference looks at them all.
TimedBy(anchors, offset) ==
    LET past == {n \in DOMAIN anchors : anchors[n].position <= offset} IN
    IF past = {} THEN NoTime ELSE anchors[Max(past)].at
SegmentsAreTimed ==
    \A flat \in {Captions(cues), Lines(cues)} : \A s \in ToSet(Segments(flat.text)) :
        /\ SecondsAt(flat.anchors, s.start) = TimedBy(flat.anchors, s.start)
        /\ SecondsAt(flat.anchors, s.end) = TimedBy(flat.anchors, s.end)

\* No word of a transcript is kept from the model, and none is read twice: the
\* segments lie one after the other and cover every letter, none is longer than
\* it may be, and the batches asked, whole or in halves, are the segments in
\* their order.
EverySegmentIsAsked ==
    LET text == Captions(cues).text
        segments == Segments(text)
        batches == Batches(segments)
    IN  /\ \A n \in DOMAIN segments :
               /\ segments[n].start < segments[n].end
               /\ segments[n].end - segments[n].start <= SegmentLength
               /\ n > 1 => segments[n - 1].end <= segments[n].start
        /\ \A i \in DOMAIN text : text[i] # " " =>
               \E s \in ToSet(segments) : s.start < i /\ i <= s.end
        /\ FlattenSeq(batches) = segments
        /\ \A b \in ToSet(batches) : /\ Len(b) > 1 => Size(b) <= BatchLength
                                     /\ FlattenSeq(Asked(b)) = b

=============================================================================
