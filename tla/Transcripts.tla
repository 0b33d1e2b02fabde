------------------------------ MODULE Transcripts ------------------------------
(***************************************************************************)
(* From what a vendor sends to text that can be quoted: rolling captions   *)
(* (apps/connectors/srt.py), lines and words with times (providers/        *)
(* taddy.py, virlo.py, assemblyai.py), and the segments and batches a      *)
(* model reads (apps/enrichment/extraction.py).                            *)
(*                                                                         *)
(* A text is a sequence of characters, already case-folded; an anchor says *)
(* when the speech at an offset, counted from 0, began.  The pieces arrive *)
(* one by one, so that every transcript is one state.                      *)
(***************************************************************************)
EXTENDS Integers, FiniteSets, SequencesExt

CONSTANTS
    CueTexts,       \* what a cue may say: no space at either end
    TailLength,     \* the characters of the text a cue is compared with
    SegmentLength,  \* SEGMENT_CHARS
    BatchLength,    \* BATCH_CHARS
    AnswerLength,   \* a batch with more text than this has its answer cut off
    MaxCues         \* bound

\* Something that was said, stripped.
Letters == {" "} \cup UNION {ToSet(w) : w \in CueTexts}
Speech(text) ==
    text \in Seq(Letters) /\ text # <<>> /\ text[1] # " " /\ text[Len(text)] # " "

ASSUME TranscriptsAssumption ==
    /\ \A w \in CueTexts : Speech(w)
    /\ TailLength \in Nat \ {0} /\ SegmentLength \in Nat \ {0}
    /\ BatchLength \in Nat /\ AnswerLength \in Nat /\ MaxCues \in Nat

VARIABLE cues   \* [start, text, formatted] in the order they were spoken

-----------------------------------------------------------------------------
Stripped(s) ==
    LET solid == {n \in DOMAIN s : s[n] # " "} IN
    IF solid = {} THEN <<>> ELSE SubSeq(s, Min(solid), Max(solid))
Gap(text) == IF text = <<>> THEN <<>> ELSE <<" ">>
Empty == [text |-> <<>>, anchors |-> <<>>]
Anchor(at, position) == [at |-> at, position |-> position]

Tail300(text) == SubSeq(text, Len(text) - Min({Len(text), TailLength}) + 1, Len(text))

\* _new_suffix: what a cue adds to the text it rolls on from.
NewSuffix(existing, incoming) ==
    LET repeated == {n \in DOMAIN incoming : IsSuffix(SubSeq(incoming, 1, n), Tail300(existing))}
    IN  IF existing = <<>> \/ repeated = {} THEN incoming
        ELSE Stripped(SubSeq(incoming, Max(repeated) + 1, Len(incoming)))

\* Mutant of Begins: the joining space is forgotten.
BeginsBefore(text) == Len(text)

\* Where the next addition begins: after the joining space.
Begins(text) == Len(text \o Gap(text))

Appended(flat, at, addition) ==
    [text |-> flat.text \o Gap(flat.text) \o addition,
     anchors |-> Append(flat.anchors, Anchor(at, Begins(flat.text)))]

\* A piece of speech that adds nothing leaves no anchor.
Added(flat, cue, rolling) ==
    LET addition == IF rolling THEN NewSuffix(flat.text, cue.text) ELSE cue.text IN
    IF addition = <<>> THEN flat ELSE Appended(flat, cue.start, addition)
Flat(seq, rolling) == FoldLeft(LAMBDA flat, cue : Added(flat, cue, rolling), Empty, seq)

\* srt.to_text
Captions(seq) == Flat(seq, TRUE)

\* taddy._flatten and virlo.transcript: lines that do not overlap.
Lines(seq) == Flat(seq, FALSE)

-----------------------------------------------------------------------------
\* str.find: the first occurrence at or after an offset.
Occurrences(text, token, from) ==
    {n \in from .. Len(text) - Len(token) : SubSeq(text, n + 1, n + Len(token)) = token}

Formatted(seq) == Lines([n \in DOMAIN seq |-> [seq[n] EXCEPT !.text = seq[n].formatted]]).text

\* _anchors_from_words: each word is looked for from where the last was found,
\* and passed over if it is not there; one anchor a second.
NotLocated == [anchors |-> <<>>, words |-> <<>>, cursor |-> 0, last |-> -1]
Locate(text, found, word) ==
    LET places == Occurrences(text, word.text, found.cursor)
        soon == found.anchors # <<>> /\ word.start - found.last < 1
    IN  IF soon \/ places = {} THEN found
        ELSE [anchors |-> Append(found.anchors, Anchor(word.start, Min(places))),
              words |-> Append(found.words, word.text),
              cursor |-> Min(places) + Len(word.text), last |-> word.start]
Located(text, seq) == FoldLeft(LAMBDA found, word : Locate(text, found, word), NotLocated, seq)

-----------------------------------------------------------------------------
\* _segment: spans of the text, cut after a sentence that ends in the last
\* quarter of one.
CutAt(text, p) ==
    LET end == Min({p + SegmentLength, Len(text)})
        stops == {n \in p + 2 .. end : text[n - 1] = "." /\ text[n] = " "}
    IN  IF end < Len(text) /\ stops # {} /\ 4 * (Max(stops) - p) > 3 * SegmentLength
        THEN Max(stops) ELSE end
\* One turn of its loop, of which a text takes no more than it has characters.
Taken(text, cut) ==
    LET end == CutAt(text, cut.position)
        body == Stripped(SubSeq(text, cut.position + 1, end))
    IN  IF cut.position = Len(text) THEN cut
        ELSE [position |-> end,
              chunks |-> IF body = <<>> THEN cut.chunks
                         ELSE Append(cut.chunks, [start |-> cut.position, end |-> end, body |-> body])]
Uncut == [position |-> 0, chunks |-> <<>>]
Segments(text) == FoldLeft(LAMBDA cut, c : Taken(text, cut), Uncut, text).chunks

NoTime == -1

\* Mutant of AtOrBefore: the anchor at the offset itself is passed over.
OnlyBefore(anchor, offset) == anchor.position < offset

AtOrBefore(anchor, offset) == anchor.position <= offset

\* _seconds_at: a binary search for the last anchor at or before an offset.
\* Every turn leaves fewer anchors between low and high.
Narrowed(anchors, offset, search) ==
    LET mid == (search.low + search.high) \div 2 IN
    IF search.low > search.high THEN search
    ELSE IF AtOrBefore(anchors[mid], offset)
    THEN [search EXCEPT !.low = mid + 1, !.best = anchors[mid].at]
    ELSE [search EXCEPT !.high = mid - 1]
Whole(anchors) == [low |-> 1, high |-> Len(anchors), best |-> NoTime]
SecondsAt(anchors, offset) ==
    FoldLeft(LAMBDA search, a : Narrowed(anchors, offset, search), Whole(anchors), anchors).best

\* _batches: consecutive segments, as long as their text fits.
Size(segments) == SumFunctionOnSet([n \in DOMAIN segments |-> Len(segments[n].body)], DOMAIN segments)

Batched(batches, s) ==
    IF batches.last # <<>> /\ Size(batches.last) + Len(s.body) > BatchLength
    THEN [full |-> Append(batches.full, batches.last), last |-> <<s>>]
    ELSE [batches EXCEPT !.last = Append(@, s)]
NoBatches == [full |-> <<>>, last |-> <<>>]
Batches(segments) ==
    LET batches == FoldLeft(Batched, NoBatches, segments)
    IN  Append(batches.full, batches.last)

\* ask: a batch whose answer is cut off is asked in halves.  A single segment
\* that is cut off fails the extraction.
TooLong(segments) == Size(segments) > AnswerLength

\* Mutant of Rest: of an odd number, one is forgotten.
EvenRest(count) == count \div 2

Rest(count) == count - count \div 2

\* The part of a batch from where it starts, of so many segments.
Parts(batch) == {p \in (1 .. Len(batch) + 1) \X (0 .. Len(batch)) : p[1] + p[2] <= Len(batch) + 1}
PartOf(batch, p) == SubSeq(batch, p[1], p[1] + p[2] - 1)
Asked(batch) ==
    LET From[p \in Parts(batch)] ==
          LET half == p[2] \div 2 IN
          IF p[2] < 2 \/ ~ TooLong(PartOf(batch, p)) THEN <<PartOf(batch, p)>>
          ELSE From[<<p[1], half>>] \o From[<<p[1] + half, Rest(p[2])>>]
    IN  From[<<1, Len(batch)>>]

-----------------------------------------------------------------------------
TranscriptsInit == cues = <<>>

\* A cue is spoken, within the second of the one before it or later; the
\* formatted text may have it otherwise.
Speak(pause, text, formatted) ==
    /\ Len(cues) < MaxCues
    /\ cues' = Append(cues, [start |-> (IF cues = <<>> THEN 0 ELSE Last(cues).start) + pause,
                             text |-> text, formatted |-> formatted])

Speaking ==
    \E pause \in {0, 2}, text, formatted \in CueTexts : Speak(pause, text, formatted)

TranscriptsSpec == TranscriptsInit /\ [][Speaking]_cues

=============================================================================
