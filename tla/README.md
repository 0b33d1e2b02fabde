# Trend Engine: a verification project

The Trend Engine collects public conversations (podcasts, videos, posts), decides
which of them matter to a client, extracts claims from their transcripts, detects
signals in the claims, and turns reviewed recommendations into documents that a
client sees in a portal. It is a Django application over PostgreSQL at READ
COMMITTED, with Celery workers on four queues. Most of its rules are about
*order*: nothing is published before it was approved, nothing is bought before it
was judged relevant, no conversation counts twice, no month costs more than its
cap. Almost all of its state lives in rows that several processes load, think
about for seconds, and write back without a lock. That is what this project is
about.

The modules fall into four groups, each with one passing run (the pipeline has a
second for liveness).

| module | what it is |
|---|---|
| `PublicationGate` | drafting, approval, sign-off, publishing, withdrawal, delivery, exports |
| `ClientContract` | the abstract specification: what the gate promises the client |
| `PublicationGateProps`, `PublicationGateMC`, `PublicationGateProofs` | its properties and the contract instantiated, instances, ten theorems |
| `EvidencePipeline` | an item from its row to its claims: three tasks, their queue, the sweep |
| `EvidencePipelineProps`, `EvidencePipelineMC`, `PipelineMC`, `EvidencePipelineProofs` | properties, instances, five theorems |
| `Collection`, `CollectionProps` | sources that fall due, polls that overlap, rows, the cap on one vendor |
| `CostGuard`, `CollectionProofs` | the monthly cap on model calls (properties included); eight theorems about the two |
| `Ladder` | one item walked down its transcript ladder (properties included) |
| `Transcripts`, `TranscriptsProps` | captions to text and anchors, segments, batches |
| `Duplicates`, `DuplicatesProps`, `TranscriptProofs` | the same conversation published twice, and the abstract specification instantiated; eleven theorems about the last three parts |
| `Conversations` | the abstract specification: what an item's evidence is counted under, without the checks |
| `EvidenceMC` | the instance of these five |
| `Signals` | detection, rescoring, merging and moving of signals |
| `Recommendations` | drafting by hand and by the daily run, edits, decisions; extends `Signals` |
| `ClientProfiles`, `Candidates` | profile versions and contacts; the opportunities assessed against them |
| `Portal`, `Backups`, `OperationsProofs` | accounts, memberships, invitations, sessions; dumps, checksums, pruning, the restore test (properties included); two theorems |
| `DeskProps`, `DeskMC`, `DeskProofs` | properties and instance of these six, six theorems about the first four |
| `Scores`, `Briefs` | the numbers of a signal, for anybody and for one client; the documents that carry them |
| `ScoresProps`, `ScoresMC`, `ScoresProofs` | their properties and instance, five theorems |
| `Inductions` | lemmas the proofs share: sums, folds, flattened sequences, orders, by induction |

Run a check with `tlc -config <run>.cfg <module>` (`PROJECT.json` names the module
of each run), a proof with `tlapm <module>.tla` (the seven modules that end in `Proofs`, and
`Inductions`, which four of them rest on).

## 1. The system's components

For each: its state, its operations, what makes it hard, and when it is correct.
`PROJECT.json` lists them with their sources and status.

**Publication gate** (`publication/services.py`, `models.py`, `views.py`). State:
`Publication` rows (live while `unpublished_at` is NULL; one live row per output
by a partial unique index), `Output.state`, `OutputVersion.state`. Operations:
`publish`, `unpublish`, `published_for`, the POST handlers of the output builder.
Hard: handlers trust objects loaded earlier; two publishes race. Correct when one
version is on show at most, it was approved and where needed reviewed, and what
was taken down stays down.

**Delivery and review copies** (`publication/delivery.py`). State: `Delivery`,
`ExportArtifact`, the mail after the commit. Hard: rendering takes seconds between
the check and the commit; the mail cannot be rolled back. Correct when mail
follows what is committed and a file of something never shown is marked DRAFT.

**Outputs** (`outputs/services.py`, `models.py`, `reviewers.py`). State: outputs,
numbered versions, approvals, sign-offs, the reviewers' register. Operations:
`draft`, `approve`, `record_expert_signoff`, `set_active`. Hard: one `state` column
per output is written by five operations. Correct when numbers are unique and the
tracker never says "published" of what is not.

**Exports** (`outputs/exports/*`): formatting, except `is_draft` in
`document_for_version`, which decides the watermark.

**Output content** (`outputs/briefing.py`, `content_brief.py`, `opportunity_brief.py`,
`drafting.py`). State: none of its own; it reads signals, evidence, observations,
recommendations and candidates. Hard: lines carry numbers into a list that is
still growing, and the sections that count that list stand before it. Correct when
every number and reference points at its source.

**Evidence pipeline** (`enrichment/tasks.py`, `gate.py`, `extraction.py`,
`failures.py`). State: `gate_decision`, `content_state`, segments, `ModelRun`,
claims. Operations: the tasks `assess_relevance`, `acquire_transcript`,
`extract_evidence`, the sweep `assess_pending`, the operator's retry. Hard:
acknowledged late and delivered again; swept while waiting; every leg loads, waits
on a vendor, saves. Correct when no relevant item is lost, money is spent only on
items let through, and every item is eventually judged and settled.

**Transcript ladder** (`evidence/services/transcripts.py`). State:
`TranscriptArtifact` (one-to-one), the attempts log. Each rung answers, says never,
or breaks. Correct when an item is written off only after every rung said never.

**Duplicates** (`evidence/services/duplicates.py`). State: `duplicate_of` and
`duplicate_status`. Operations: `check`, the command `find_duplicates`. Hard: no
transaction, chains, re-pointing, ties, a command that works for minutes on rows it
loaded first; and marks change under whatever counts by them. Correct when one item
of a conversation stays, the longest, and nothing unrelated is merged.

**LLM cost guard** (`enrichment/llm/client.py`, `costs.py`, `pricing.py`). State: the
ledger of `CostEvent`s. Hard: check, then call, then record; lost workers. Correct
when what a month costs is bounded by the cap and what was under way.

**Ingestion and polling** (`evidence/tasks.py`, `services/ingest.py`,
`collection.py`), **sources** (`sources/models.py`), **spend caps of collection**
(`evidence/services/spend.py`). State: `IngestionRun`, `last_polled_at`, items and
their identity. Hard: a source is due until its poll *ends*, so slow polls are
dispatched again; a poll may die between its rows and their messages; a retry
makes a second run; the ledger of the cap counts a run by the policy its source has
now. Correct when one post is one item, each run accounts for its rows, and spend is
recorded also when a run fails.

**Client profiles** (`clients/services.py`, `tasks.py`, `views.py`). State: numbered
profile versions, one current per organisation (unique constraint); contacts.
Operations: draft, import, discover, edit, activate. Hard: an activation reads what
it supersedes before it writes. Correct when exactly one version is live.

**Signals** (`intelligence/detection.py`, `review.py`, `components.py`). State: signals
with a status and a transition table, roles of claims and observations, counts.
Operations: the detection run with its rescoring, move, merge, attach, detach,
start from observations. Hard: a run of minutes and an operator's merge save rows
each loaded before the other, and duplicates are marked beside both. Correct when
evidence is never dropped, a detection rests on two conversations as it read them,
and what was earned stays counted.

**Recommendations** (`scoring/recommendations.py`, `tasks.py`, `views_review.py`).
State: rows with a review state, one open per signal and client (partial unique
index). Operations: draft, the daily run, edit, decide, withdraw. Hard: checks, asks
a model, creates. Correct when one is open and it cites evidence of its signal.

**Opportunities** (`scoring/opportunities.py`). State: candidates with a case, a gap
check, sightings, an approval. Hard: each button saves other columns, a draft saves
them all, a change of sightings and the withdrawal it calls for are two commits.
Correct when an approval is what was last decided, and covers a complete case; the
second the code keeps only while requests neither overlap nor end half-way.

**Ranking, relevance, triage** (`intelligence/components.py`, `scoring/relevance.py`,
`signal_rank.py`, `ranking.py`, ...): arithmetic over rows. Correct when evidence
moves the numbers the right way and what cannot be measured does not enter.

**Portal** (`portal/`) and **tenancy** (`tenancy/`). State: accounts, memberships,
invitations, the organisation of a session; a context stack and a manager that
filters by it. Operations: register, log in, switch, invite, accept, remove. Hard:
a request acts on the membership it resolved; two registrations race. Correct when
every membership was granted.

**Operations** (`operations/`): backups and restore tests, throttle buckets, MFA.
Hard: every call to the bucket may fail, a worker may be lost between two of them,
and the queue starts another beside it. Correct when a backup that succeeded can be
restored.

**Task queue** (`config/celery.py`): late acknowledgement, rejection on worker loss,
three retries, the beat schedule. **Connectors**: fetching and parsing is I/O; what
becomes of an answer is not. **Billing, domains, research**: rows that are stored
and read.

How they interact: a poll writes item rows and sends `assess_relevance` by name;
each task sends the next; `check` runs inside `acquire_transcript`; every model
call passes the guard; detection reads claims and counts them under
`ContentItem.canonical`; recommendations cite signals and a profile version; an
approved recommendation becomes an output; a publication row is the only thing
the portal reads.

## 2. The plan

The order is that of what hurts most when it is wrong.

1. `PublicationGate` against `ClientContract`: done, checked and proved, the
   refinement too.
2. `EvidencePipeline`: done, safety checked and proved, liveness checked.
3. `Duplicates` against `Conversations`, `CostGuard`: done, checked and proved, the
   refinement too.
4. `Collection`, `Ladder`, `Transcripts`: the front of the pipeline, what it takes
   as a choice (`Discover`, the outcome of a walk) opened up. Done, checked and proved.
5. The desk: `Signals`, `Recommendations` over it, `ClientProfiles`, `Candidates` over
   it. Done, checked and proved.
6. The house: `Portal`, `Backups`. Done, checked and proved.
7. `Scores`, and `Briefs` over it. Done, checked and proved.

Left, in this order: item ranking, triage and alerts as operators beside `Scores`;
the login throttle and the second factor; the tenancy manager; a mapping of
`Duplicates` to the comparison in `EvidencePipeline`, which takes as a choice what
`Duplicates` computes (which items may be confirmed, and when the command releases
one: `Compare`, `CheckLoaded`; the `Release` of `Conversations`).

## 3. What is modelled, and what the runs show

Where a run covers several parts that share no variable they write, a behaviour
picks one of them at the start, its *focus*, and the others rest. The state spaces
add up instead of multiplying, and nothing is lost: an invariant of one part does
not see the others move. Parts that do read each other move together (advice and
the evidence it cites, candidates and the profile they are checked against).

| run | what it asks | instance |
|---|---|---|
| `gate` | one live publication; published was approved; a health type was reviewed first; mail follows the commit; the tracker's "published" is on show; taken down stays down; every step is a step of `ClientContract` or invisible | one health-type output, two versions, two publications, two operators |
| `gate_delivers_withdrawn` | "DELIVERY REQUIRES A LIVE PUBLICATION": violated | two operators |
| `gate_unmarked_file` | "an unpublished export is watermarked DRAFT": violated | one operator |
| `pipeline` | types; no item let through is lost; money follows the gate | one item with two workers; two items with one worker at a time; the same with a run of `find_duplicates --apply` beside it |
| `pipeline_live` | a pending item is judged; an item let through settles | one item, two workers, one lost worker, one run of the command, `FairSpec` |
| `pipeline_stranded` | "leave the item for the next scheduled pass": violated | one worker, one retry |
| `pipeline_extracted_twice` | "once per item, ever": violated | two workers, no crash |
| `evidence` | the properties of the five modules of `EvidenceMC`; every step of the checks for duplicates is one of `Conversations` or invisible | seven foci, below |
| `written_off` | an item that could be read is not written off "for good": violated | one item, two walkers |
| `desk` | the properties in `DeskProps`, `AccessWasGranted`, `AlwaysRestorable` | eight foci, below |
| `signals_earned` | "earned from the observations": violated | one observation, one detection run |
| `scores` | trends, means, monotony, references | four foci, below |

Deadlock is checked in the gate's runs and not in the others, which stop where
the system does: every item settled, every row of the instance written.

### PublicationGate

A request of an operator is a *load* (the view's reads) and a *commit* (the service
in its own transaction); `request[w]` holds what was loaded. `publish()` has a step
more, because its UPDATE of the live rows and its INSERT are two statements and at
READ COMMITTED the first does not see what commits in between. Mail goes out after
the commit, as a step of its own that may never happen (`Abandon`).

| code | action |
|---|---|
| `outputs.services.draft` | `LoadDraft`, `CommitDraft` (the unique number decides a race) |
| `approve`, `record_expert_signoff`, `set_active` | `LoadApprove`/`CommitApprove`, `SignOff`, `SetActive` |
| `publication.services.publish` | `LoadPublish`, then `RefusePublish`, or `RetireIncumbents` and `CommitPublish` or `PublishConflict` |
| `unpublish` | `LoadWithdraw`, `CommitWithdraw` |
| `delivery.deliver`, `send_for_review` | `LoadDeliver`/`CommitDeliver`, `LoadReview`/`CommitReview`, `Send` |
| `OutputExportView` | `LoadExport`, `CommitExport` |

Two operators, two versions and two publications are the least with which a
version can supersede another while a third step is under way, and every
disjunct fires. More operators only add more stale objects of the same kinds, and
the theorems hold for any number. Symmetry over operators is sound: none of them
is a reviewer in these instances, and no constant tells them apart.

What the violations show. A publication withdrawn while `deliver()` renders is
delivered and mailed all the same: the check is made on the object the view
loaded. And the watermark is derived from the version's state, which withdrawal
and supersession leave at `published`.

Found while modelling, not checked by a run: `approve()` accepts a version that is
on show once it was delivered, because it refuses `published` only
(`outputs/services.py:170`, against its own message on line 172); a withdrawn
version keeps the state `published` (`publication/services.py:159`, against line 10);
a new version of a health type is published on the sign-off of an older one
(`services.py:84`, against `views.py:439`); drafting the next version makes the
tracker say "in preparation" of what the client can see (`outputs/services.py:144`).

Left out: concurrent `get_or_create` of one output by title, which has no unique
constraint; registering a reviewer (all are registered from the start); the task
`deliver_publication`, which nothing dispatches; audit rows and note rows, which
nothing reads back. The row bound is kept by `RoomToPublish`.

### EvidencePipeline

A delivery is a record (task, item, number of tries); `queue` counts the waiting
ones; `job[w]` is the delivery a worker holds and its next step. The reads at the
head of a task are one step (`Take`), and each later write is one step. What a
vendor answers is a choice.

| code | action |
|---|---|
| `ingest_rows` and the dispatch in `poll_source` | `Discover`, with the message or without it |
| `assess_relevance`, `gate.assess` | `Judge`, `CannotJudge`, `DispatchNext` |
| `acquire_transcript`, `transcripts.acquire` | `Transcribe`, `WriteOff`, `Broken`, then `Compare`, `Decide`, `DispatchNext` |
| `find_duplicates --apply` | `ScanLoad`, `ScanCheck` row by row |
| `extract_evidence`, `extraction.extract` | `BuildSegments`, `Ask`, `Save` |
| `assess_pending`, `RetryAnalysisView` | `Sweep`, `RetryAnalysis` |
| Celery | `Take`, `Ack`, `Crash` |

`NothingIsLost` counts as an end: written off, marked a duplicate, asked of a model
(the run says what came of it), or retries used up. The last is what
`pipeline_stranded` is about: no sweep and no screen takes such an item up again.
One end may be taken back: `find_duplicates --apply` loads all rows, and a row loaded
before its transcript came is compared by title, so it may be saved as suspected over
the mark its own task has confirmed since (`duplicates.py:169-171`, `:183-190`). What
`NothingIsLost` says of such an item is what the code keeps: it is on the operator's
list (`LeftToOperator`), and only the operator can send it on.

Bounds. One item with two workers gives every interleaving of two deliveries of
one item, which is where the rows are shared (one retry, two lost workers, two
copies of a message); two items share only the duplicate marks and the sweep's
limit, so one worker at a time is enough there, and one outcome of the model for
each item (the two workers ask again and keep them all). The command is
one run beside that worker, with no lost worker, no retry waiting and two kinds of
message waiting at once: its rows and the worker's task then meet in every order. A
second run after it loads what the first left, and the model has no two runs at
once. In `pipeline_live` the command runs beside two workers. A third copy of a
message or a third lost worker repeats what two can do.

Fairness (`FairSpec`), used for liveness only: a worker that holds a task takes its
next step (weak, per worker: Celery runs a task to its end); a waiting delivery is
not passed over for ever (strong, because the worker may be busy in between: the
Redis list is first in, first out); beat ticks (weak, on the sweep); a model asked
about an item again and again answers (strong, per item). Collection, crashes, the
command and the operator get none. Two consequences of the last assumption are
worth knowing: an item a model always declines stays pending for ever, and since the
sweep takes the *oldest* hundred pending items (`enrichment/tasks.py:150`), a hundred
of them would keep younger ones from being swept.

Found while modelling, not checked by a run: two deliveries of `assess_relevance`
both ask the model and the later verdict stays, also when it takes back a
relevant one that has already been acted on (`gate.py:213`, against lines 159-161);
a walker whose rungs all said never marks an item written off that another walker
has since transcribed (`transcripts.py:496`, against line 493); an item whose
confirmed mark the command wrote over is sent to extraction by nothing, and shows only
on the list of items that could not be read (`failures.py:27-46`).

Left out: the log of attempts, which decides nothing; failures of the database
itself. A language mismatch of the gate is a rejected verdict. The walk is one step
of three outcomes here and `Ladder` opens it; the batches of a long transcript are
one outcome and `Transcripts` opens them; a comparison is one step here and
`Duplicates` opens it. The command may be broken off at any row, which is a
behaviour in which it takes no further step.

### Collection

Sources with a status and a policy, deliveries of `poll_source`, runs and rows. A
source is due until a poll of it has ended, so one that takes longer than a tick
is polled twice at once; a lost process's delivery comes back; a broken poll is
tried again under a new run.

| code | action |
|---|---|
| the screens of sources and of policies | `AddSource`, `SetStatus`, `SaveSource`, `Withdraw`, `PollNow` |
| `poll_due_sources`, the interval | `Tick`, `Elapse` |
| `poll_source`, head of `collect` | `Take`, then `Ask` or `Refused` |
| the connector | `VendorFailed`, `Answered` with the calls made so far |
| `ingest_rows` | `Skip`, or `LookUp` and `Store`, row by row |
| the dispatch of what is new, `_finish`, `mark_polled` | `Screen`, `Finish`, `MarkPolled` |
| the rungs of the ladder that Virlo serves | `StartReading`, `EndReading` |
| a lost process, any other exception | `Lost`, `Broken` |

The cap's ledger is a sum over rows, as in the code: `Spent` is what transcripts cost
and what the runs cost whose source is under a Virlo policy *now* (`OnLedger`), and
`Recorded` is all of it. Where they differ the cap does not see what was spent;
`unseen` is history, the most that was out of the ledger when the cap let somebody
through. The cap is in calls and at least one (a cap of 0 means no cap at all,
`spend.py:40`).

`evidence`, focus *polls*: two collectors and a reader of transcripts, a feed and a
stream searched on Virlo, two posts with two wordings and a row without an id, a cap
of two calls and two a poll; two runs lie behind, two more may begin, one fault.
Focus *screen*: one collector and an operator who pauses, saves and withdraws. Focus
*moved*: one collector on a stream whose two runs have spent the cap twice over, and
an operator who saves it under the other vendor's policy and back. Properties: a
succeeded run accounts for what it collected: rows it made, items held before, rows
without an id (`RunsAccountForRows`); an item is governed by the policy that was live
when the vendor was asked (`RecordedBasis`); a poll does not undo what an operator
saved while it ran (`OperatorDecides`, which rests on the `update_fields` of
`mark_polled`); what is recorded passes the vendor's cap by less than one poll of
every collector, one call of every reader, and `unseen` (`SpendIsBounded`). Two
overlapping polls of one source and one of another are all the ways two processes can
meet; a second fault repeats the first.

Found while modelling: `ingest_rows` looks an item of a platform up and creates it
in two steps, and no constraint spans the sources, so two polls of two streams may
store one video twice (`ingest.py:88`, against lines 85-86); what a process spent
before it was lost is in no row, nor is a call that found no speech
(`transcripts.py:274-275`); saving a source under another vendor's policy takes what
its runs cost out of the month's spend, so the cap lets as much through again
(`spend.py:27`); a row without an id counts as collected (`evidence/tasks.py:127`) and
is neither new nor seen before; `Provider.paused_at` is read and never set, so
nothing pauses a connector at its cap (against `costs.py:7`).

Left out: credentials, form checks, the fields of a row beyond identity, wording
and policy, heartbeat tasks. The month does not end in this instance.

### Ladder

`item` is its route and what is true of it (it is known at Taddy, has an address,
audible or short audio, captions, speech, replies), `health` how each vendor stands
(works, not configured, refuses); any call may break. `Begin`, `Try`, `StoreText`,
`GiveUp` are `acquire` rung by rung, with `Says` the answer of each rung's connector: text, never, broke,
or unheard (not configured, pointless, too dear, refused). `LostWalk` is a lost
process, `Turn` a vendor that changes.

Focus *ladder*: an item of every kind, two walkers, three walks, and one vendor
that stops working at any moment of them. `RouteIsExplained`: an item is written off only
if no rung broke in the walk that did it and each rung that could have read it
went unheard, and a text comes from the first rung that could unless those before
it broke or went unheard. One item suffices: walks of different items share
nothing but the vendors' health, which changes by itself anyway.

`written_off` shows what "went unheard" hides: a vendor's refusal (401, 402, 403)
is the deployment's and not the item's, is mapped to "never", and the item is
written off for good, which the module's own words rule out (`transcripts.py:17-19`).
Left out: the attempts log and the prices, of which only "too dear" remains.

### Transcripts

Operators, each over every transcript of up to three cues of five texts (empty
pauses, repeated words, a cue that continues the one before): `Captions` (rolling
captions without what they repeat), `Lines`, `Located` (words found again in the
formatted text), `Segments`, `SecondsAt` (the binary search), `Batches` and `Asked`
(a batch whose answer is cut off is halved). Focus *transcript*. Anchors follow
the text, a segment is timed as the reference (a look at all anchors) times it,
and every segment is asked exactly once. The loops of the code that are not over a
sequence, `_segment` and `_seconds_at`, are folds of one turn over the characters and
over the anchors, of which there are never fewer than turns; a turn after the last
changes nothing. The recursion of `ask` is a recursive function of the part of the
batch it is called with. Lengths are cut down to 4 and 8
characters so that one, two and more segments and batches, odd halves and a cut
inside a word all occur among three cues.

### Duplicates

A transcript is its set of shingles, `containment` is computed from the sets as
the code does, and a check is `Load`, `Find`, `Mark`, `Repoint`, with other checks
in between. `Acquire` is the ladder storing the text under a task that has
loaded its item; a `Load` of an item without text followed by `Find` is the
command. Of several equally strong matches the code takes the first in database
order; the model takes any.

Focus *duplicates*: three items, two checks at once, five transcripts (an episode,
an upload cut short, a clip, another upload as long as the cut one with an ending
of its own, and something unrelated that shares one word with the episode).
Chains never lead to a shorter transcript (`LongerIsKept`), never outside the pairs
that are the same conversation (`OnlyRelatedMerged`), and end at an item that counts
unless two transcripts tie (`KeptUnlessTied`). Three items are the least that make a
chain with a re-pointing; the five texts give containments of 1, 3/4, 2/3, below
the threshold, and of nothing.

Found while modelling: of two items with the same text, checked one after the
other, the first becomes a duplicate of the second, the second one of itself, and
neither is extracted: `find()` keeps the *other* item when lengths are equal, and
does not pass over a candidate that is already a duplicate (`duplicates.py:133`).
`KeptUnlessTied` says by its name what it leaves open.

`Conversations` is the same seen from the evidence: a text is heard once and stays,
items come to count under another that is no shorter and joined to them by pairs of
one conversation, one may count under itself again. `MeetsConversations`: every step
of the checks is one of these or changes nothing that is counted. It says of each
*step* what the three invariants say of states, and that a text is never replaced,
nor stored for an item that something already counts under. The types of these
parts need no run: `DuplicatesTypeCorrect`, `LadderTypeCorrect`, `CollectionTypesHold` and
`CostTypeCorrect` are theorems.

Left out: the window of fourteen days (the items of an instance all lie in it), the
wording of reasons, SET_NULL on deletion. The chain is read in one step.

### CostGuard

`Check` is `check_or_raise`; `Answer` and `Raised` are the two ways a call ends;
`Note` and `RecordCost` are the `ModelRun` and the `CostEvent`, two commits. The
vendor's bill is kept beside the ledger as history. A refused call leaves nothing
that the guard reads, so it is not a step.

Focus *cost*: three callers, cap 4, costs up to 2, estimates 1 to 3, two losses a
month, a new month at any time. The ledger passes the cap by at most one call per
caller, and the bill by that and one call for each lost worker or response. The
documentation says "Hard caps are enforced BEFORE a run starts" (`costs.py:10`): each
check is, and the bound is what is left of it with two workers on the queue and
the requests of the operator screens. Calls that raise are recorded at zero
(`client.py:226`, against rule 2 at `client.py:7`), which is one of the losses.

### Signals and Recommendations

`signal[s]` is a row, `evidence[s][c]` the role of a claim in it, `attached` its
observations, `review[r]` what a request or a detection run has loaded. `merged`
is history. Nothing in this code takes a lock. `original[i]` is what an item is marked
a duplicate of; `Canonical` follows the marks, as `ContentItem.canonical` does. The
conversations of claims are counted by it: a rescoring uses the marks of the moment, a
detection those its batch was loaded with.

| code | action |
|---|---|
| `review.move`, `review.merge` | `LoadMove`/`CommitMove`, `LoadMerge`/`CommitMerge`, `LeaveReview` |
| attach, detach, `start_from_observations` | `Attach`, `Detach`, `StartFromObservations` |
| `detection.detect` | `DetectLoad`, then `DetectThin`, `DetectSkipped`, `DetectNothing`, `DetectApply` or `CodeTaken` |
| `duplicates.check` beside it | `MarkDuplicates`: marks, re-points or takes back |
| `rescore_open`, `rescore` | `RescoreLoad`, `RescoreOne` per signal, each a save of a row loaded before |
| `recommendations.draft` | `DraftByHand`, then `Drafted`, `DraftConflict` or `NotDrafted` |
| the daily task | `DailyStart`, `DailyDraft`, `DailyEnd` |
| `edit`, decide, `withdraw` | `LoadAdvice`, `CommitEdit`, `CommitDecide`, `CommitWithdraw`, `RefuseAdvice` |

`IndexAdmits` is the partial unique index: at most one open recommendation per
signal and client, evaluated at the write.

`desk`, focus *signals*: three claims, two of them of one item, one operator, one
detection run, two signals. Focus *marked*: the same while the second item is marked
the other's duplicate and let go again. `MergedIsKept` and `DetectedIsCrossSource` need
two signals to be merged while a third actor rescores, and a claim whose conversation
counts once. `DetectedIsCrossSource` is a promise about a detection and not about the
moment: each detected signal keeps claims of two conversations as its own detection
read the marks (`marks`, a history), and its count is never more than the items its
claims are of. A mark made since may bring the count down to one, which
`intelligence/tests/test_detection.py:293-304` asks for and the run reaches; the signal stays open
then. Focus *entered*: an analyst's signals and the runs after
it. Focus *advice*: two requests and two rows over the evidence of one signal,
which grows and shrinks while a model is asked. `OneOpenRecommendation` rests on
the index, not on the check before the call; `CitesItsEvidence` on claims never
being taken out of a signal, only observations, which is why it says nothing of
those. To keep the instance small the second claim of the shared
item may only disagree, and momentum is never measured (`FewerRoles`); the
theorems have no such bound.

`signals_earned`: the daily `rescore_open` counts claims only, so a signal started
from observations is worth nothing the next day, against `review.py:192-193`.

Left out: statements and prompts, audit and feedback rows, the model's choice of
words. Claims lie inside the detection window.

### ClientProfiles and Candidates

`version[n]` has what it holds and whether it is current; `profiling[a]` what an
administrator's request has loaded. `DraftCopy`, `ImportProfile`, `ImportProducts`,
`ImportInventory` and `Discover` make a version; `LoadVersion`, `EditVersion`,
`RefuseProfile` work on one; `ActivateRead` and `ActivateWrite` are the read of what
is superseded and the transaction that follows. `OneLiveProfile`: one version is
live, and stays so from the first on, whichever two requests activate (two
administrators, two versions). The contacts and the deliveries' recipients are
beside it.

`candidate[c]` is an ingredient assessed for a client and `assessing[a]` the row a
request of its page has loaded; each action saves the columns the code names
(`SaveColumns`), a draft all of them (`AllColumns`), after a model call. Sightings are
rows of their own: attaching and detaching write them (`SaveSightings`) and withdraw
the approval the request has seen by a second commit (`WithdrawApproval`), and the
request may end between (`LeaveCandidate`). Focus *candidates*: one candidate, two
sightings, two analysts at once, and an administrator who makes a version live.
`ApprovalStands`: a candidate is approved exactly while nothing that withdraws an
approval was saved since the last `approve()`; a draft or an edit of a row loaded long
before brings no approval back, and the saves of single columns touch none. The
history `standing` follows the decisions, `approved` the columns.

The stronger claim, that an approved candidate has the case, the gap check and the
sighting that `approve()` asks for, the code keeps only for requests that come one
after another and run to their end. The model reaches its violation in three ways: a
request ends after `observations.remove` and before the save
(`opportunities.py:300-302`); a detachment began before the approval it should
withdraw; `approve()` tests a row loaded before another request blanked the case
(`:335-348`). It is listed under the hazards and checked by no run.

Found while modelling: the gap check and the suggestion of neighbours change what
the opportunity brief prints and leave the approval standing
(`opportunities.py:113`); a version that was live once and was superseded can be
edited (`clients/views.py:440`), so what cites it does change.

### Portal

`member[e][o]` is a membership with the row's number and when it was granted,
`invites[n]` an invitation, `session[e]` the organisation a session names, `tab[t]` a
request that was resolved (`Resolved`, as the middleware does) and has not acted yet.
`AskRegister`, `Register`, `RegisterRefused`; `Login`, `Logout`, `SwitchOrg`, `Visit`;
`EnterTeam`, `Invite`, `LookAtMember`, `RemoveMember`, `LeaveTeam`; `Accept`, `Expire`.
`grants` counts the memberships granted and is their clock.

Focus *portal*: two people, two organisations, two requests, two invitations, three
grants: enough for two registrations of one address, for an old invitation
accepted after a newer one, and for a member removed while he is acting.
`AccessWasGranted`: every membership is its founder's or what the last accepted
invitation said; an invitation that was used gave an account; a registration that
lost its address leaves no organisation.

Found while modelling: two administrators who remove each other both pass the
count of administrators (`portal/views.py:556`), and the only one who accepts an
old invitation as a viewer is not counted at all; the organisation has none left.

### Backups

`bucket` holds dumps and checksums with the day they were put there, `runner[r]` is
a backup under way, `backupRuns` its row. `Begin`, `Upload`, `UploadChecksum`,
`Prune`/`PrunedInPart`, `Succeed`, `FailBackup`, `LoseRunner`; `NextNight` is time.
`AlwaysRestorable`: within the retention a succeeded backup is whole, the restore
test of the newest one passes if its run succeeded, and once there is a whole
backup the bucket is never without one. Focus *backups*: two workers, four nights,
three backups, a retention of one day, so that pruning reaches what is left of a
failed one. Assumed: a backup takes less than the retention (the guard of
`NextNight`), no two have the same file name (seconds are part of it), and a target
is configured.

### Scores and Briefs

`Scores` is arithmetic over rows that arrive in any order while weeks pass: coverage
of a week, momentum against the four weeks before it, diversity, quality, recency,
the weighted mean of what could be measured, maturity, confidence; and for one
client the relevance of a claim, the fit of a signal, its rank. Numbers are whole as
the code stores them, halves rounded to even. `Briefs` takes the rows a document
prints: quotes and dissents per development, one per item; the number of each
source, given when it is first cited; what the first sections count and date;
the lines a content package may refer to; the candidates and what they cite.

`scores`, focus *scores*: six items over six weeks, seven claims, a profile of three
entries; *brief*: two developments, two observations; *package*: two sections;
*opportunities*: two candidates. `TrendIsRising`: a trend was covered in all five
weeks and rises. `WithinItsParts`: a part that cannot be measured leaves the mean.
`EvidenceCounts` (of each step): what agrees never lowers confidence or fit, what
disagrees never raises confidence, an item that repeats itself adds nothing.
`NumbersAgree`: a number is the place of its source, no source has two, each listed
one is cited, and the front matter counts that list. `ReferencesResolve`: a
section's references are to the lines it means. Six weeks are one more than the
momentum looks at; two developments are the least that cite one source twice; two
sections the least that need an offset.

Found while modelling: an observation keeps the label "current" of the day it was
entered, a quote is labelled on the day of the brief, and `window_sentence` then
dates as inside the window what was published before it (`briefing.py:254`, `:269`).

Left out: prose, appendix and the outline's wording, the item ranking of
`ranking.py`, triage, alerts, the benchmark.

## 4. What is proved

Forty-seven theorems in seven modules, and the lemmas they share in `Inductions`.
All hold for every value of the constants that satisfies the named assumptions,
which the runs evaluate. For each: the inductive invariant, and what it is that
makes the property alone not inductive.

**PublicationGateProofs**, from `ExpertAssumption`, `NoneAssumption`,
`BoundAssumption`. `TypeCorrect`: the types are not inductive, because a withdrawal
reads the output of the row it loaded; the strengthening `TypeInv` adds that the row
a request holds exists. `OneLive`, `ApprovedFirst`, `ReviewedFirst` come from one
inductive invariant, `GateInv`: besides the properties themselves it says that a
version a request *saw* as approved has an approval row, and so has one whose state
is past draft (`ApprovalInv`), and that a request past the gate has its review
(`ReviewInv`). Approvals and reviews are never deleted, which is why a check made
on a stale object is good enough for them, and is not for delivery. `OneLive` rests
on the index being evaluated at the INSERT. `StaysDown` is an action property: no
step changes a row's status from down to live.
`MailAfterCommit` and `TrackerIsRight` need `TrackerInv`: what a request saw published
was on show once (`SeenWasShown`), and what `publish()` retires between its two
statements are rows of its own output (`RetiresItsOwn`). The tracker turns on the
lemma `StatesChange`: nothing but the INSERT of a publication writes "published",
and both happen in one transaction. `GateMeetsContract` is the refinement: the
initial state shows nothing; then one lemma per kind of commit (approve, publish,
withdraw, render) that it is the contract's step of that name, and one that all
others leave the three variables of the contract as they are. `publish()` is one
step of the contract although it is two of the code, because between them the
request is alone in having taken the incumbents down.
`UndisturbedDeliveryIsOfLive` and `FileIsMarkedWhileNothingComesDown` are about the two
findings: each claim holds in every behaviour in which its cause does not arise.
The first supposes that nobody is about to take an output down while a delivery of
it is rendered (`DeliveriesUndisturbed`); publications may come down at any other
time. The invariant adds that a request renders its own output's row
(`HoldsItsOwn`) and that a row is live as long as it is being delivered. The second supposes that
nothing has come down yet (`NothingDown`), by withdrawal or by another version over it.

**EvidencePipelineProofs**, from `PipelineAssumption`. `PipelineTypeCorrect`: the
strengthening says which steps belong to which task. `SpendingFollowsTheGate`: a
message or worker beyond the gate is about an item that passed. `PipelineLosesNothing`:
`NothingIsLost` alone is not inductive, because a worker may be about to end without
effect (its insert meets the other's row). The invariant `CarriedInv` says who
*carries* an item: a waiting delivery, or a worker whose next step nobody has
overtaken; a walker or segmenter that was overtaken carries nothing, and then
another one does, or the item has settled, or its mark was written over. Of the last
kind `MarkedInv` says that they have a text, because only items with one are marked;
so an item of that kind that nothing carries and no run tells of is on the operator's
list (`ReleasedIsShown`). `SupportInv` supplies what the cases need about texts and
runs.
`ExtractionIsOnceOneAtATime` has the hypothesis `[]OneExtraction`, that no two workers are
between the read and the save of one item's extraction. Retries, crashes and second
copies of a message remain, and what the task read at its head is then still true
when it saves (`NotYetExtracted`); `pipeline_extracted_twice` is what happens without it.
`QueueDrains` is the part of liveness a proof can reach. Each waiting delivery and
each task under way is worth the number of steps it can still cause, those of the
legs and retries it sends on included. The sum, `Owed`, is a natural number, and every
step of a worker lowers it. So the workers go on for ever only if something arrives
for ever: a new item, the sweep, a click, the loss of a worker. A retry that did not
count its tries, or a leg that sent the one before it, would break it. What is left to
fairness is that workers move at all and that the sweep comes round; both stay with
`pipeline_live`. `Workers` is assumed finite, as a pool of processes is.

**CollectionProofs**, from `CollectionAssumption` and `CostAssumption`.
`CollectionTypesHold`, `RunsAccount`, `BasisIsRecorded`, `OperatorHasTheSay`,
`SpendStaysBounded` share one invariant, which follows a poll through its steps:
whose run it is (no two processes in one, `OwnRuns`), that the rows of that run are
those of the part of the answer already walked (`Agrees`), what an ended run says
(`RunsOK`). What is left of the answer and its rows without an id are counted apart, so
that a run's numbers add up at every step of the walk. The cap needs more: a poll is
recorded when it *ends*, so the invariant adds one whole poll for each process that
has been let through and is not recorded yet (`Charging`), and one call for each reader
(`SpendOK`). A process is let through while the *ledger* is below the cap; what is
recorded is then below the cap and `unseen`, whatever policies sources were saved
under. While no source is moved `unseen` is 0, and the ledger is what is bounded.
The cap on models is the same argument with unequal amounts: `CapInv` bounds the
ledger and the largest cost once for each open call, a sum over callers. `OvershootIsBounded` and
`BillIsBounded` follow, the second with what answered calls have yet to record.
The sum is a recursive function, and its laws are in `Inductions`.

**TranscriptProofs**, from `LadderAssumption`, `DuplicatesAssumption` and
`TranscriptsAssumption`.
`EndsAreExplained`: the invariant says of every walk under way that its answers are
one for each rung from the first, that each is honest (a text or a never is true of
the item, whose facts do not change while vendors do), and that a text is the last.
`LadderTypeCorrect` is what it rests on.
`WrittenOffForAReason` is about the finding of `written_off`: while no vendor refuses
(`NoneRefuses`), and for a post that has a caption or no replies (`RepliesAlone` negated), an
item written off could be read by no rung, whichever keys are missing and whatever
breaks. The invariant is that a rung that said "never" cannot serve the item, on the
walk under way and at its end.
`DuplicatesTypeCorrect`, `LongerStays`, `NothingElseIsMerged`, `SomethingIsKept`: a transcript never changes once
stored, so what a check found stays true while others mark and re-point; the
invariant says so of every match under way. `KeptUnlessTied` is about the *end* of a
chain, which is a recursive function of its length: a walk of every length exists
and is unique, along it the texts never get shorter, so a chain that comes round
again has one length all the way, and its members tie.
`ChecksMeetConversations` is the refinement. An item counts under its original while it
is a confirmed duplicate and under itself otherwise; then one lemma per action.
`Mark` counts one item or releases it, `Repoint` counts all that followed the demoted
item, `Ingest` and `Acquire` hear a text. That the new original is no shorter and joined to
what is counted under it is not visible in the step, which acts on what was read
earlier, and comes from the invariant after it; that nothing counts under an item
not yet heard, from the invariant before it (`AloneUnheard`).
`AnchorsAreRight`, `SegmentsAreTimedRight`, `NothingIsLost` are about what is computed from the
pieces, and the invariant of the specification is only that what is spoken is speech
(no space at either end) at times that never fall. The work is in the invariants of
the loops, proved over the states of a fold. A flat text is speech or nothing, its
anchors rise and each is at the first letter of a word; a located word stands where
it was found, at or after the end of the one before. The search knows that anchors
before `low` are at or before the offset and those after `high` beyond it, and that
`best` is the last before `low`; each turn leaves fewer between them, so as many turns
as there are anchors are enough. Segments cover the letters up to the position
reached, and each turn reaches further (`CutFurther`), so as many turns as there are
characters are enough. The full batches and the last one, put together, are the
segments so far, and a batch of several fits. That the questions of a batch,
put together, are the batch, is by induction over the segments of the part asked
about, after the same has shown that the recursive function exists.
There is one lemma for each of the five folds (`FlatRuns` to `BatchesRun`) instead
of one for all, because a turn is an operator.

**DeskProofs**, from `SignalsAssumption`, `RecommendationsAssumption`,
`ProfilesAssumption`, `CandidatesAssumption`. `NothingMergedIsLost` and
`DetectedHasTwoSources` share an invariant: codes are given out in order, what a
request saw exists, a signal that does not exist has no evidence. The lemma they
turn on is that a claim held in a role stays held in it (`Grows`): what a detection
counted by its marks stays counted by them, whatever is marked since; and what a
rescoring counts, in the marks of the moment, is never more than the items of the
claims (`ConversationsAreFinite`), which only grow. It needs that sets of claims and
items are finite, so that counts compare. Nothing is supposed of the marks: they may
form chains and rings.
`OneAnswer` and `AdviceIsGrounded` are of `GroundedSpec`: `Recommendations` composed
with `Signals`, so evidence moves between the reading of it and the storing of a
draft. The invariant: rows are given out in order, a draft carries claims that were
evidence of its signal when read, a review the row it loaded; `EvidenceOnlyGrows`
carries that over every step of `Signals`. `OneIsLive` is of `ProfilesSpec`: live versions
were drafted, each request acts on a draft, and the index is evaluated at the write.
`ApprovalIsDecided` is of `AssessmentSpec` and has no hypothesis: requests overlap, and
end between their writes. It turns on one fact about each save: the columns it names either
leave the approval out or write it as withdrawn, whatever row the request has in hand
(`ColumnsSaved`).

**OperationsProofs**, from `PortalAssumption` and `BackupsAssumption`. `AccessIsGranted`:
every membership has an origin that no later acceptance by its holder contradicts,
which the clock of grants makes inductive; accounts are never deleted.
`BackupsAreRestorable`: the invariant says, for each step of a worker, what it has put
in the bucket since when, and of every succeeded run what is left of it; pruning
spares the pruner's own backup and what another worker has just written, because
both are younger than the retention. Names are unique, so no worker overwrites
another's dump.

**ScoresProofs**, from `ScoresAssumption` and `BriefsAssumption`. Here the invariants
are types and the work is in the operators. `TrendsRise`: halves rounded to even
keep order (`RoundedKeepsOrder`), so do the logarithm and hence the rates; a streak
that reaches the last week covered all of them. `ScoreLiesWithin`: a weighted sum of
numbers between two bounds lies between the bounds times the weight, a law of sums
over the set of what could be measured, and rounding respects whole bounds.
`EvidenceMovesScores`, an action property: each summand of confidence and fit moves
one way when a claim is added to one side.
`NumbersPointRight` and `ReferencesPointRight` are of `DocumentsSpec`, in which rows
arrive in any order. A document is a fold over its lines that carries the list of
sources; the invariant of the fold, proved over prefixes, says that each number
written is the place of its source in that list, that the list has no source twice
and holds exactly what was cited. The sections of the front matter stand before it,
so they need that counting the rows and listing them agree. A package numbers
its claims over all sections and its observations after them; resolving a reference
is undoing that offset.

**Inductions**, what they share. The provers cannot instantiate a theorem that
takes an operator as its parameter, and the library's induction theorems do. What
the module proves instead is that a set of numbers with a member has a least one,
and that a set with 0 and the successor of each member has them all; a statement to
be proved by induction becomes the *set* of the numbers it holds for. That a
recursive function exists and is the only one of its kind is proved the same way,
and gives the laws of sums over finite sets, of left folds as a run of states along
a sequence, of flattened sequences, and that a finite set with a total order can be
put in line.

What the proofs changed in the models. The loops of `Transcripts` were recursive
functions of a position and are folds of one turn (section 3); what a cue may say is
an assumption (`Speech`), which the runs evaluate. The monthly spend of a vendor is a sum over
rows and no longer a counter kept beside them (`Spent`). `OnlyRelatedMerged` speaks of
sets that no pair leaves, which is what connected means without a recursive
closure. The table of logarithms is a constant with its order assumed. A row is
saved column by column with EXCEPT (`Candidates`). Sorting a document's rows and the
references of a section are folds of the community modules (`Ordered`,
`OwnReferences`), and `BriefsAssumption` says that rows are numbered, as the database
does. None of them changed what a run found.

Only model-checked: liveness under fairness (`EventuallyJudged`, `EventuallySettled`), which
with ENABLED is beyond the prover. Every invariant and every action property of the
passing runs is stated by a theorem, both refinements too. Of the six documented
claims that are violated, four are theorems of the behaviours in which their
cause does not arise (`UndisturbedDeliveryIsOfLive`, `FileIsMarkedWhileNothingComesDown`,
`ExtractionIsOnceOneAtATime`, `WrittenOffForAReason`); none of the hypotheses excludes
the concurrency, the failures or the retries around that cause. The other two are not: `NextPassPicksUp` is
liveness, and `EarnedIsKept` has no single cause in the code, since attaching an
observation without a rescoring breaks it as a stale save does.

## 5. Not modelled

- Connectors' requests, HTTP retries and the parsing of fields; crawling a client's
  shop; rendering of documents; prompts and the anchoring of quotes: I/O, formatting
  or the answer of a model. What each failure means to the ladder is modelled.
- Item ranking, triage, alerts, the benchmark: pure, next in the plan.
- Login throttle and second factor: a request that fails on them changes nothing
  that is modelled. Passwords, tokens and mails of the portal likewise.
- The tenancy manager: a filter on every query, and a variable of one request.
- Billing, domains and research hold rows nothing enforces.
