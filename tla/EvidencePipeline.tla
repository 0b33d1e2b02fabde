--------------------------- MODULE EvidencePipeline ---------------------------
(***************************************************************************)
(* One collected item on its way to evidence: screened on its metadata,    *)
(* given a transcript by the fallback ladder, compared with what is held,  *)
(* extracted.  Each leg is a Celery task on the "enrich" queue, and the    *)
(* items' rows are all the tasks share.  A task loads its row once, decides*)
(* on that copy, and writes later; a delivery is acknowledged only when    *)
(* the task has returned, so a crash runs the task again from its start.   *)
(*                                                                         *)
(* What a model, a rung or a comparison answers is a choice.  The reads at *)
(* the head of a task are one step, each later write is one step, and any  *)
(* step of another worker may fall between them.                           *)
(***************************************************************************)
EXTENDS Integers, FiniteSets

CONSTANTS
    NumItems,       \* items, numbered in the order they are discovered
    Workers,        \* processes serving the queue
    MaxRetries,     \* max_retries of a task
    Limit,          \* how many items one sweep dispatches
    MaxCopies,      \* bound: queued copies of a message a sweep or a click adds
    MaxCrashes,     \* bound: workers lost in a behaviour
    MaxScans        \* bound: runs of find_duplicates --apply

ASSUME PipelineAssumption ==
    /\ NumItems \in Nat
    /\ MaxRetries \in Nat
    /\ Limit \in Nat
    /\ MaxCopies \in Nat
    /\ MaxCrashes \in Nat
    /\ MaxScans \in Nat

Items == 1 .. NumItems
Decisions == {"pending", "relevant", "rejected", "sampled"}
Verdicts == Decisions \ {"pending"}
Contents == {"metadata", "written off", "transcribed"}
Outcomes == {"succeeded", "failed"}
Tasks == {"assess", "acquire", "extract"}
Message == [task : Tasks, item : Items, tries : 0 .. MaxRetries]
Steps == {"screen", "dispatch", "walk", "compare", "decide", "segment", "ask", "save", "done"}
Job == [msg : Message, step : Steps]
Idle == [step |-> "idle"]
LoadedRow == [item : Items, text : BOOLEAN]

VARIABLES
    decision,     \* decision[i]: gate_decision of i, "absent" before its row
    content,      \* content[i]: content_state of i; "written off" is METADATA
                  \* with the terminal step of the ladder as its route
    transcripts,  \* items with a TranscriptArtifact
    duplicates,   \* items confirmed to be another item's conversation
    segments,     \* items with ContentSegments
    runs,         \* runs[i]: outcomes of the extraction ModelRuns of i
    claims,       \* claims[i]: extractions of i saved, counted up to two
    queue,        \* queue[m]: deliveries of m waiting
    job,          \* job[w]: the delivery w runs and its next step
    passed,       \* history: items the gate once let through
    gaveUp,       \* history: items whose last retry of the ladder broke
    crashes,      \* workers lost so far
    scan,         \* rows that find_duplicates has loaded and not yet checked
    scans,        \* its runs so far
    released      \* history: items whose confirmed mark it wrote over

rows == <<decision, content, transcripts, duplicates, segments, runs, claims>>
history == <<passed, gaveUp>>
command == <<scan, scans, released>>
vars == <<rows, queue, job, history, crashes, command>>

Msg(t, i) == [task |-> t, item |-> i, tries |-> 0]
Send(m) == queue' = [queue EXCEPT ![m] = @ + 1]
Goto(w, s) == job' = [job EXCEPT ![w].step = s]
At(w, s) == job[w].step = s
ItemOf(w) == job[w].msg.item

NeedsTranscript(d) == d \in {"relevant", "sampled"}
IsMetadataOnly(i) == content[i] # "transcribed"

\* failures.unanalysed: what the operator is shown and may send again.
Unanalysed ==
    {i \in transcripts \ duplicates :
        /\ NeedsTranscript(decision[i])
        /\ content[i] = "transcribed"
        /\ claims[i] = 0
        /\ "failed" \in runs[i] \/ runs[i] = {}}

(***************************************************************************)
(* Collection.  A new item's row is committed before its message is sent:  *)
(* a poll that dies in between leaves the row without one, and the next    *)
(* poll finds the item already held.  A row may arrive with its text.      *)
(***************************************************************************)
Discover(i, hasText, dispatched) ==
    /\ decision[i] = "absent"
    /\ \A j \in 1 .. (i - 1) : decision[j] # "absent"
    /\ decision' = [decision EXCEPT ![i] = "pending"]
    /\ IF hasText
       THEN /\ content' = [content EXCEPT ![i] = "transcribed"]
            /\ transcripts' = transcripts \union {i}
       ELSE UNCHANGED <<content, transcripts>>
    /\ IF dispatched THEN Send(Msg("assess", i)) ELSE UNCHANGED queue
    /\ UNCHANGED <<duplicates, segments, runs, claims, job, history, crashes, command>>

(***************************************************************************)
(* A worker takes a delivery and reads the rows: this fixes its first step.*)
(***************************************************************************)
\* A wrong test of the gate's answer: any verdict sends an item on.
SendAnyOn(d) == IF d \in Verdicts THEN "dispatch" ELSE "done"

AfterScreening(d) == IF NeedsTranscript(d) THEN "dispatch" ELSE "done"

FirstStep(m) ==
    LET i == m.item IN
    CASE m.task = "assess"  ->
           IF decision[i] = "pending" THEN "screen" ELSE AfterScreening(decision[i])
      [] m.task = "acquire" ->
           IF i \notin transcripts THEN "walk"
           ELSE IF i \in duplicates THEN "decide" ELSE "compare"
      [] m.task = "extract" ->
           IF IsMetadataOnly(i) \/ i \in duplicates \/ claims[i] > 0 THEN "done"
           ELSE IF i \in segments THEN "ask" ELSE "segment"

Take(w, m) ==
    /\ job[w] = Idle
    /\ queue[m] > 0
    /\ queue' = [queue EXCEPT ![m] = @ - 1]
    /\ job' = [job EXCEPT ![w] = [msg |-> m, step |-> FirstStep(m)]]
    /\ UNCHANGED <<rows, history, crashes, command>>

(***************************************************************************)
(* assess_relevance.  The verdict is saved over whatever the row now says. *)
(***************************************************************************)
Judge(w, v) ==
    /\ At(w, "screen")
    /\ decision' = [decision EXCEPT ![ItemOf(w)] = v]
    /\ passed' = IF NeedsTranscript(v) THEN passed \union {ItemOf(w)} ELSE passed
    /\ Goto(w, AfterScreening(v))
    /\ UNCHANGED <<content, transcripts, duplicates, segments, runs, claims,
                   queue, gaveUp, crashes, command>>

\* A wrong refusal: the outage is recorded as though it were a decision.
RecordRefusal(w) ==
    /\ At(w, "screen")
    /\ decision' = [decision EXCEPT ![ItemOf(w)] = "refused"]
    /\ Goto(w, "done")
    /\ UNCHANGED <<content, transcripts, duplicates, segments, runs, claims,
                   queue, history, crashes, command>>

\* A cap, an outage or an unusable answer: the row keeps its decision.
CannotJudge(w) ==
    /\ At(w, "screen")
    /\ Goto(w, "done")
    /\ UNCHANGED <<rows, queue, history, crashes, command>>

\* .delay() of the next leg: assess sends acquire, acquire sends extract.
DispatchNext(w) ==
    /\ At(w, "dispatch")
    /\ Send(Msg(IF job[w].msg.task = "assess" THEN "acquire" ELSE "extract", ItemOf(w)))
    /\ Goto(w, "done")
    /\ UNCHANGED <<rows, history, crashes, command>>

(***************************************************************************)
(* acquire_transcript: the walk of the ladder and its four ends.           *)
(***************************************************************************)
\* A rung answered.  The artifact is one-to-one with its item: a second
\* walker's insert raises, and its task ends there.
Transcribe(w) ==
    /\ At(w, "walk")
    /\ IF ItemOf(w) \in transcripts
       THEN Goto(w, "done") /\ UNCHANGED <<content, transcripts>>
       ELSE /\ transcripts' = transcripts \union {ItemOf(w)}
            /\ content' = [content EXCEPT ![ItemOf(w)] = "transcribed"]
            /\ Goto(w, "compare")
    /\ UNCHANGED <<decision, duplicates, segments, runs, claims, queue, history, crashes, command>>

\* Every rung said never.  The guard of _mark_metadata_only looks at the row
\* as it was loaded, when the item had no transcript, so it never stops this.
WriteOff(w) ==
    /\ At(w, "walk")
    /\ content' = [content EXCEPT ![ItemOf(w)] = "written off"]
    /\ Goto(w, "done")
    /\ UNCHANGED <<decision, transcripts, duplicates, segments, runs, claims,
                   queue, history, crashes, command>>

\* A wrong retry: the count of tries starts again with every message.
RetryWithoutEnd(w) ==
    /\ At(w, "walk")
    /\ Send(Msg("acquire", ItemOf(w)))
    /\ Goto(w, "done")
    /\ UNCHANGED <<rows, history, crashes, command>>

\* A rung broke: the task is sent again, a bounded number of times.
Broken(w) ==
    /\ At(w, "walk")
    /\ IF job[w].msg.tries < MaxRetries
       THEN Send([job[w].msg EXCEPT !.tries = @ + 1]) /\ UNCHANGED gaveUp
       ELSE gaveUp' = gaveUp \union {ItemOf(w)} /\ UNCHANGED queue
    /\ Goto(w, "done")
    /\ UNCHANGED <<rows, passed, crashes, command>>

(***************************************************************************)
(* duplicates.check marks the item it was given, another held transcript,  *)
(* or none.  It skips an item that was a duplicate when its row was loaded;*)
(* a mark made since does not stop it.  The task then reads its item again,*)
(* and only one that is not a duplicate goes on to extraction.             *)
(***************************************************************************)
Confirmed(i) ==
    {{}} \union {{j} : j \in IF transcripts \subseteq {i} THEN {} ELSE transcripts}

Compare(w) ==
    /\ At(w, "compare")
    /\ \E match \in Confirmed(ItemOf(w)) : duplicates' = duplicates \union match
    /\ Goto(w, "decide")
    /\ UNCHANGED <<decision, content, transcripts, segments, runs, claims,
                   queue, history, crashes, command>>

Decide(w) ==
    /\ At(w, "decide")
    /\ Goto(w, IF ItemOf(w) \in duplicates THEN "done" ELSE "dispatch")
    /\ UNCHANGED <<rows, queue, history, crashes, command>>

(***************************************************************************)
(* find_duplicates --apply, run by hand: every row is loaded at once, and  *)
(* those that were no duplicates then are checked one after another, as    *)
(* they were loaded.  A row loaded with its text may be confirmed, or      *)
(* another may.  On one loaded without, a likeness of titles is recorded   *)
(* as suspected, over a mark confirmed since; nothing is dispatched after. *)
(***************************************************************************)
Present == {i \in Items : decision[i] # "absent"}

ScanLoad ==
    /\ scan = {}
    /\ scans < MaxScans
    /\ scans' = scans + 1
    /\ scan' = {[item |-> i, text |-> i \in transcripts] : i \in Present \ duplicates}
    /\ UNCHANGED <<rows, queue, job, history, crashes, released>>

CheckLoaded(row) ==
    IF row.text
    THEN /\ \E match \in Confirmed(row.item) : duplicates' = duplicates \union match
         /\ UNCHANGED released
    ELSE \E suspected \in SUBSET (IF Present = {row.item} THEN {} ELSE {row.item}) :
         /\ duplicates' = duplicates \ suspected
         /\ released' = released \union (suspected \intersect duplicates)

ScanCheck(row) ==
    /\ row \in scan
    /\ \A other \in scan : row.item <= other.item
    /\ CheckLoaded(row)
    /\ scan' = scan \ {row}
    /\ UNCHANGED <<decision, content, transcripts, segments, runs, claims,
                   queue, job, history, crashes, scans>>

(***************************************************************************)
(* extract_evidence: segments, the model's calls, then the claims.         *)
(***************************************************************************)
\* Ordinals are unique per item: of two tasks that both found no segments the
\* second one's insert raises and its task ends.
BuildSegments(w) ==
    /\ At(w, "segment")
    /\ segments' = segments \union {ItemOf(w)}
    /\ Goto(w, IF ItemOf(w) \in segments THEN "done" ELSE "ask")
    /\ UNCHANGED <<decision, content, transcripts, duplicates, runs, claims,
                   queue, history, crashes, command>>

\* Every call leaves a ModelRun, and does so before any claim is written.
Ask(w, outcome) ==
    /\ At(w, "ask")
    /\ runs' = [runs EXCEPT ![ItemOf(w)] = @ \union {outcome}]
    /\ Goto(w, IF outcome = "succeeded" THEN "save" ELSE "done")
    /\ UNCHANGED <<decision, content, transcripts, duplicates, segments, claims,
                   queue, history, crashes, command>>

\* An episode may hold no claim at all.
Save(w, someClaims) ==
    /\ At(w, "save")
    /\ claims' = IF someClaims /\ claims[ItemOf(w)] < 2
                 THEN [claims EXCEPT ![ItemOf(w)] = @ + 1] ELSE claims
    /\ Goto(w, "done")
    /\ UNCHANGED <<decision, content, transcripts, duplicates, segments, runs,
                   queue, history, crashes, command>>

(***************************************************************************)
(* The queue: acknowledged late, and delivered again when a worker is lost.*)
(***************************************************************************)
Ack(w) ==
    /\ At(w, "done")
    /\ job' = [job EXCEPT ![w] = Idle]
    /\ UNCHANGED <<rows, queue, history, crashes, command>>

\* A wrong setting: the delivery was acknowledged when it was taken.
CrashAfterEarlyAck(w) ==
    /\ job[w] # Idle
    /\ crashes < MaxCrashes
    /\ crashes' = crashes + 1
    /\ job' = [job EXCEPT ![w] = Idle]
    /\ UNCHANGED <<rows, queue, history, command>>

Crash(w) ==
    /\ job[w] # Idle
    /\ crashes < MaxCrashes
    /\ crashes' = crashes + 1
    /\ Send(job[w].msg)
    /\ job' = [job EXCEPT ![w] = Idle]
    /\ UNCHANGED <<rows, history, command>>

(***************************************************************************)
(* assess_pending, the half-hourly sweep: the oldest Limit pending items.  *)
(***************************************************************************)
Pending == {i \in Items : decision[i] = "pending"}
Older(i) == {j \in Pending : j < i}

\* A wrong filter: items that arrived with their text are passed over.
UntranscribedBatch ==
    {i \in Pending : IsMetadataOnly(i) /\ Cardinality(Older(i)) < Limit}

Batch == {i \in Pending : Cardinality(Older(i)) < Limit}

Sweep ==
    LET toSend == {m \in {Msg("assess", i) : i \in Batch} : queue[m] < MaxCopies}
    IN  /\ toSend # {}
        /\ queue' = [m \in Message |-> IF m \in toSend THEN queue[m] + 1 ELSE queue[m]]
        /\ UNCHANGED <<rows, job, history, crashes, command>>

\* RetryAnalysisView: the operator sends an unread item to extraction again.
RetryAnalysis(i) ==
    /\ i \in Unanalysed
    /\ queue[Msg("extract", i)] < MaxCopies
    /\ Send(Msg("extract", i))
    /\ UNCHANGED <<rows, job, history, crashes, command>>

Init ==
    /\ decision = [i \in Items |-> "absent"]
    /\ content = [i \in Items |-> "metadata"]
    /\ transcripts = {}
    /\ duplicates = {}
    /\ segments = {}
    /\ runs = [i \in Items |-> {}]
    /\ claims = [i \in Items |-> 0]
    /\ queue = [m \in Message |-> 0]
    /\ job = [w \in Workers |-> Idle]
    /\ passed = {}
    /\ gaveUp = {}
    /\ crashes = 0
    /\ scan = {}
    /\ scans = 0
    /\ released = {}

Work(w) ==
    \/ \E v \in Verdicts : Judge(w, v)
    \/ CannotJudge(w)
    \/ DispatchNext(w)
    \/ Transcribe(w)
    \/ WriteOff(w)
    \/ Broken(w)
    \/ Compare(w)
    \/ Decide(w)
    \/ BuildSegments(w)
    \/ \E outcome \in Outcomes : Ask(w, outcome)
    \/ \E someClaims \in BOOLEAN : Save(w, someClaims)
    \/ Ack(w)

Next ==
    \/ \E i \in Items, hasText, dispatched \in BOOLEAN : Discover(i, hasText, dispatched)
    \/ \E w \in Workers, m \in Message : Take(w, m)
    \/ \E w \in Workers : Work(w) \/ Crash(w)
    \/ Sweep
    \/ \E i \in Items : RetryAnalysis(i)
    \/ ScanLoad
    \/ \E row \in scan : ScanCheck(row)

Spec == Init /\ [][Next]_vars

(***************************************************************************)
(* Fairness.  A worker that holds a task finishes its steps; the queue is  *)
(* first in, first out, so no waiting delivery is passed over for ever;    *)
(* beat ticks; and a model asked often enough about an item answers.       *)
(* Collection, crashes, the command and the operator owe nothing.          *)
(***************************************************************************)
JudgeItem(i) ==
    \E w \in Workers, v \in Verdicts :
        At(w, "screen") /\ ItemOf(w) = i /\ Judge(w, v)

Fairness ==
    /\ \A w \in Workers : WF_vars(Work(w))
    /\ \A m \in Message : SF_vars(\E w \in Workers : Take(w, m))
    /\ \A i \in Items : SF_vars(JudgeItem(i))
    /\ WF_vars(Sweep)

FairSpec == Spec /\ Fairness

=============================================================================
