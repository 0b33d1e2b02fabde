------------------------------ MODULE Collection ------------------------------
(***************************************************************************)
(* The front of the pipeline: sources that fall due, the polls that ask    *)
(* them what is new (apps/evidence/tasks.py, collection.py), the rows that *)
(* an answer becomes (services/ingest.py), and the month's cap on calls to *)
(* one vendor (services/spend.py).                                         *)
(*                                                                         *)
(* A source is due until a poll of it has ended, so polls of one source    *)
(* overlap.  A delivery is acknowledged when its task has returned.  Each  *)
(* step is one commit, or the call of a vendor.                            *)
(***************************************************************************)
EXTENDS Integers, FiniteSets, SequencesExt

CONSTANTS
    Sources,
    Social,         \* those that search a platform
    OnVirlo,        \* those of them charged by the call
    Collectors,     \* processes serving the "ingest" queue
    Readers,        \* processes that read transcripts (services/transcripts.py)
    Posts,          \* external ids
    NoPost,         \* what a row without one has
    Wordings,       \* the titles and texts an item may arrive with
    Bases,          \* provider policies
    BasesFor,       \* those of the vendors that serve the source's route
    VirloBases,     \* those of the vendor that charges by the call
    PollCalls,      \* the calls one poll may make: queries x pages
    MonthCap,       \* monthly_cap_usd, in calls
    Answers,        \* what a vendor may send: rows of posts
    PollRetries,    \* max_retries of a task
    MaxRuns,        \* bound: polls begun
    MaxFaults       \* bound: processes lost, and errors of the database

ASSUME CollectionAssumption ==
    /\ OnVirlo \subseteq Social /\ Social \subseteq Sources
    /\ \A s \in Sources : BasesFor[s] \subseteq Bases
    /\ VirloBases \subseteq Bases
    /\ IsFiniteSet(Collectors) /\ Collectors # {} /\ IsFiniteSet(Readers)
    /\ NoPost \notin Posts
    /\ Answers \subseteq Seq([post : Posts \cup {NoPost}, wording : Wordings])
    /\ PollCalls \in Nat \ {0} /\ MonthCap \in Nat \ {0} /\ PollRetries \in Nat
    /\ MaxRuns \in Nat /\ MaxFaults \in Nat

VARIABLES
    source,     \* source[s]: status and policy
    due,        \* sources whose interval has elapsed since last_polled_at
    live,       \* policies approved and not withdrawn
    waiting,    \* deliveries of poll_source (bound: one of a kind)
    run,        \* the IngestionRuns, in the order they were created
    row,        \* ContentItems
    screened,   \* screened[r]: items that run r sent to the gate
    poll,       \* poll[w]: the poll that w is in
    texts,      \* what the month's transcripts say they cost, in calls
    reading,    \* readers that were let through and have not been answered
    unseen,     \* history: the most that was spent and not in the ledger when
                \* the cap let somebody through
    wish,       \* history: what an operator last saved of each source
    faults

virlo == <<texts, reading, unseen>>
collectionVars == <<source, due, live, waiting, run, row, screened, poll, virlo, wish, faults>>

-----------------------------------------------------------------------------
NoWording == "the same"
Arrival == [post : Posts \cup {NoPost}, wording : Wordings \cup {NoWording}]
NoSource == [status |-> "absent"]
SourceRow == [status : {"active", "failed"}, basis : Bases]
Delivery == [source : Sources, tries : 0 .. PollRetries]
RunRow == [source : Sources, status : {"running", "succeeded", "failed"}, blocking : BOOLEAN,
           collected : Nat, created : Nat, seen : Nat, cost : Nat,
           basis : Bases,       \* history: the policy it asked under
           covered : BOOLEAN,   \* history: whether that was live when it asked
           made : Nat,          \* history: the calls it was charged for
           blank : Nat]         \* history: rows without an id in its answer
Free == [step |-> "free"]
Outcomes == {"succeeded", "failed", "blocked"}

CanCollect(s) == source[s].status = "active" /\ source[s].basis \in live
IsDue(s) == s \in due /\ CanCollect(s)

RunCosts(runs) == SumFunctionOnSet([r \in DOMAIN run |-> run[r].cost], runs)

\* Everything this month's runs and transcripts say they cost.
Recorded == RunCosts(DOMAIN run) + texts

\* virlo_month_spend: a run counts while its source is under that vendor's
\* policy, whatever it searched under.
OnLedger(r) == source[run[r].source].basis \in VirloBases
Spent == RunCosts({r \in DOMAIN run : OnLedger(r)}) + texts
CallsLeft == IF Spent > MonthCap THEN 0 ELSE MonthCap - Spent
Unseen == IF Recorded - Spent > unseen THEN Recorded - Spent ELSE unseen

At(w, step) == poll[w].step = step
SourceOf(w) == poll[w].delivery.source
Calls(s) == IF s \in OnVirlo THEN PollCalls ELSE 0

\* What a poll may be charged for: a search that was answered made a call, and
\* stops where the pages do.
Charges(s) == 0 .. Calls(s)
Searched(s) == {calls \in Charges(s) : s \in OnVirlo => calls > 0}

\* The access bases that could cover a source, of those that are live.
PoliciesFor(s) == BasesFor[s] \cap live

-----------------------------------------------------------------------------
(* The screen of sources (apps/sources/views.py).                          *)

AddSource(s, b) ==
    /\ source[s] = NoSource /\ b \in PoliciesFor(s)
    /\ source' = [source EXCEPT ![s] = [status |-> "active", basis |-> b]]
    /\ wish' = [wish EXCEPT ![s] = source'[s]]
    /\ due' = due \cup {s}
    /\ UNCHANGED <<live, waiting, run, row, screened, poll, virlo, faults>>

\* Pause and resume write the status alone; saving, the rest.
SetStatus(s, status) ==
    /\ source[s] # NoSource
    /\ source' = [source EXCEPT ![s].status = status]
    /\ wish' = [wish EXCEPT ![s] = source'[s]]
    /\ UNCHANGED <<due, live, waiting, run, row, screened, poll, virlo, faults>>

SaveSource(s, b) ==
    /\ source[s] # NoSource /\ b \in live
    /\ source' = [source EXCEPT ![s].basis = b]
    /\ wish' = [wish EXCEPT ![s] = source'[s]]
    /\ UNCHANGED <<due, live, waiting, run, row, screened, poll, virlo, faults>>

\* A policy is withdrawn, its terms having ended.
Withdraw(b) ==
    /\ b \in live
    /\ live' = live \ {b}
    /\ UNCHANGED <<source, due, waiting, run, row, screened, poll, virlo, wish, faults>>

Elapse(s) ==
    /\ source[s] # NoSource /\ s \notin due
    /\ due' = due \cup {s}
    /\ UNCHANGED <<source, live, waiting, run, row, screened, poll, virlo, wish, faults>>

\* poll_due_sources: a poll of every source that is due.
Tick ==
    LET toPoll == {[source |-> s, tries |-> 0] : s \in {x \in Sources : IsDue(x)}} IN
    /\ ~ toPoll \subseteq waiting
    /\ waiting' = waiting \cup toPoll
    /\ UNCHANGED <<source, due, live, run, row, screened, poll, virlo, wish, faults>>

PollNow(s) ==
    /\ CanCollect(s) /\ [source |-> s, tries |-> 0] \notin waiting
    /\ waiting' = waiting \cup {[source |-> s, tries |-> 0]}
    /\ UNCHANGED <<source, due, live, run, row, screened, poll, virlo, wish, faults>>

-----------------------------------------------------------------------------
(* poll_source, from its delivery to the answer.                           *)

Take(w, d) ==
    /\ At(w, "free") /\ d \in waiting /\ Len(run) < MaxRuns
    /\ waiting' = waiting \ {d}
    /\ run' = Append(run, [source |-> d.source, status |-> "running", blocking |-> FALSE,
                           collected |-> 0, created |-> 0, seen |-> 0, cost |-> 0,
                           basis |-> source[d.source].basis, covered |-> FALSE, made |-> 0,
                           blank |-> 0])
    /\ poll' = [poll EXCEPT ![w] = [step |-> "collect", delivery |-> d, run |-> Len(run) + 1,
                                    source |-> source[d.source]]]
    /\ screened' = Append(screened, {})
    /\ UNCHANGED <<source, due, live, row, virlo, wish, faults>>

\* _social: the calls of the whole poll must fit in what is left.
Affordable(s) == CallsLeft >= Calls(s)

\* collect() lets the poll ask: by the source as the task loaded it, and its
\* policy as it is now.
Ask(w) ==
    /\ At(w, "collect")
    /\ poll[w].source.status = "active" /\ poll[w].source.basis \in live
    /\ Affordable(SourceOf(w))
    /\ poll' = [poll EXCEPT ![w].step = "asked"]
    /\ run' = [run EXCEPT ![poll[w].run].covered = TRUE]
    /\ unseen' = IF SourceOf(w) \in OnVirlo THEN Unseen ELSE unseen
    /\ UNCHANGED <<source, due, live, waiting, row, screened, texts, reading, wish, faults>>

Ending(w, outcome, calls) ==
    [step |-> "finish", delivery |-> poll[w].delivery, run |-> poll[w].run,
     source |-> poll[w].source, outcome |-> outcome, calls |-> calls,
     rows |-> 0, items |-> <<>>, created |-> <<>>]

\* NotCollectable: no live policy, the cap, a key or a search term missing.
Refused(w) ==
    /\ At(w, "collect")
    /\ poll' = [poll EXCEPT ![w] = Ending(w, "blocked", 0)]
    /\ UNCHANGED <<source, due, live, waiting, run, row, screened, virlo, wish, faults>>

\* The vendor fails after some calls; a rejected key or an empty balance
\* fails the same way every time.
VendorFailed(w, outcome, calls) ==
    /\ At(w, "asked")
    /\ poll' = [poll EXCEPT ![w] = Ending(w, outcome, calls)]
    /\ run' = [run EXCEPT ![poll[w].run].made = calls]
    /\ UNCHANGED <<source, due, live, waiting, row, screened, virlo, wish, faults>>

\* A platform's post is known by its id, however its caption is edited.
Keyed(s, arrivals) ==
    [n \in DOMAIN arrivals |->
        [arrivals[n] EXCEPT !.wording = IF s \in Social THEN NoWording ELSE @]]

Blanks(arrivals) == {n \in DOMAIN arrivals : arrivals[n].post = NoPost}

Answered(w, arrivals, calls) ==
    /\ At(w, "asked")
    /\ poll' = [poll EXCEPT ![w] =
           [step |-> "look", delivery |-> poll[w].delivery, run |-> poll[w].run,
            source |-> poll[w].source, calls |-> calls, known |-> FALSE,
            rows |-> Len(arrivals), left |-> Keyed(SourceOf(w), arrivals),
            items |-> <<>>, created |-> <<>>]]
    /\ run' = [run EXCEPT ![poll[w].run].made = calls,
                          ![poll[w].run].blank = Cardinality(Blanks(arrivals))]
    /\ UNCHANGED <<source, due, live, waiting, row, screened, virlo, wish, faults>>

-----------------------------------------------------------------------------
(* ingest_rows, one transaction a row; reads in it do not lock.            *)

\* No id, so no key: the row is passed over, and still counts as collected.
Skip(w) ==
    /\ At(w, "look") /\ poll[w].left # <<>> /\ Head(poll[w].left).post = NoPost
    /\ poll' = [poll EXCEPT ![w].left = Tail(@)]
    /\ UNCHANGED <<source, due, live, waiting, run, row, screened, virlo, wish, faults>>

HeldBySocial(post) == \E i \in row : i.post = post /\ i.source \in Social

\* The lookup, across every social source.
LookUp(w) ==
    /\ At(w, "look") /\ poll[w].left # <<>> /\ Head(poll[w].left).post # NoPost
    /\ poll' = [poll EXCEPT ![w].step = "store",
                  ![w].known = SourceOf(w) \in Social /\ HeldBySocial(Head(poll[w].left).post)]
    /\ UNCHANGED <<source, due, live, waiting, run, row, screened, virlo, wish, faults>>

\* Mutant of BasisUsed: the policy is read when the row is written.
BasisNow(w) == source[SourceOf(w)].basis

BasisUsed(w) == poll[w].source.basis

\* uniq_content_idempotency
SameKey(i, s, a) == i.source = s /\ i.post = a.post /\ i.wording = a.wording

\* get_or_create
Store(w) ==
    /\ At(w, "store")
    /\ LET s == SourceOf(w)
           a == Head(poll[w].left)
           new == ~ poll[w].known /\ \A i \in row : ~ SameKey(i, s, a)
           next == [poll[w] EXCEPT !.step = "look", !.known = FALSE, !.left = Tail(@),
                                   !.items = Append(@, a)]
       IN  /\ row' = IF new THEN row \cup {[source |-> s, post |-> a.post, wording |-> a.wording,
                                            run |-> poll[w].run, basis |-> BasisUsed(w)]}
                     ELSE row
           /\ poll' = [poll EXCEPT ![w] = IF new THEN [next EXCEPT !.created = Append(@, a)]
                                          ELSE next]
    /\ UNCHANGED <<source, due, live, waiting, run, screened, virlo, wish, faults>>

\* Mutant of ToScreen: the new ones are taken to be a prefix.
Prefix(w) == SubSeq(poll[w].items, 1, Len(poll[w].created))

ToScreen(w) == poll[w].created

\* Each new item is sent to the gate.
Screen(w) ==
    /\ At(w, "look") /\ poll[w].left = <<>>
    /\ screened' = [screened EXCEPT ![poll[w].run] = ToSet(ToScreen(w))]
    /\ poll' = [poll EXCEPT ![w] =
           [step |-> "finish", delivery |-> poll[w].delivery, run |-> poll[w].run,
            source |-> poll[w].source, outcome |-> "succeeded", calls |-> poll[w].calls,
            rows |-> poll[w].rows, items |-> poll[w].items, created |-> poll[w].created]]
    /\ UNCHANGED <<source, due, live, waiting, run, row, virlo, wish, faults>>

-----------------------------------------------------------------------------
\* Mutant of CostOf: a run that failed cost nothing.
CostIfKept(w) == IF poll[w].outcome = "succeeded" THEN poll[w].calls ELSE 0

\* Recorded even when the run fails part-way.
CostOf(w) == poll[w].calls

\* _finish
Finish(w) ==
    /\ At(w, "finish")
    /\ run' = [run EXCEPT ![poll[w].run] =
           [@ EXCEPT !.status = IF poll[w].outcome = "succeeded" THEN "succeeded" ELSE "failed",
                     !.blocking = (poll[w].outcome = "blocked"),
                     !.collected = poll[w].rows, !.created = Len(poll[w].created),
                     !.seen = Len(poll[w].items) - Len(poll[w].created),
                     !.cost = CostOf(w)]]
    /\ poll' = [poll EXCEPT ![w].step = "mark"]
    /\ UNCHANGED <<source, due, live, waiting, row, screened, virlo, wish, faults>>

\* Mutant of Marked: the whole row is saved as it was loaded.
MarkedWhole(w) == [source EXCEPT ![SourceOf(w)] = poll[w].source]

\* mark_polled names the columns it saves.
Marked(w) == source

\* A vendor's failure is tried again, by a delivery of its own.
MarkPolled(w) ==
    /\ At(w, "mark")
    /\ due' = due \ {SourceOf(w)}
    /\ source' = Marked(w)
    /\ LET again == [poll[w].delivery EXCEPT !.tries = @ + 1] IN
       waiting' = IF poll[w].outcome = "failed" /\ poll[w].delivery.tries < PollRetries
                  THEN waiting \cup {again} ELSE waiting
    /\ poll' = [poll EXCEPT ![w] = Free]
    /\ UNCHANGED <<live, run, row, screened, virlo, wish, faults>>

\* A lost process: the delivery comes back, the run stays as it is.
Lost(w) ==
    /\ ~ At(w, "free") /\ faults < MaxFaults
    /\ waiting' = waiting \cup {poll[w].delivery}
    /\ poll' = [poll EXCEPT ![w] = Free]
    /\ faults' = faults + 1
    /\ UNCHANGED <<source, due, live, run, row, screened, virlo, wish>>

\* An error outside collect() ends the task, and nothing handles it.
Broken(w) ==
    /\ poll[w].step \in {"look", "store", "finish", "mark"} /\ faults < MaxFaults
    /\ poll' = [poll EXCEPT ![w] = Free]
    /\ faults' = faults + 1
    /\ UNCHANGED <<source, due, live, waiting, run, row, screened, virlo, wish>>

-----------------------------------------------------------------------------
(* A rung of the ladder that asks this vendor for a text (_virlo).         *)

StartReading(x) ==
    /\ x \notin reading /\ CallsLeft >= 1
    /\ reading' = reading \cup {x}
    /\ unseen' = Unseen
    /\ UNCHANGED <<source, due, live, waiting, run, row, screened, poll, texts, wish, faults>>

\* The call is on the transcript's row, if a text came of it that was stored.
EndReading(x, calls) ==
    /\ x \in reading
    /\ reading' = reading \ {x}
    /\ texts' = texts + calls
    /\ UNCHANGED <<source, due, live, waiting, run, row, screened, poll, unseen, wish, faults>>

-----------------------------------------------------------------------------
CollectionInit ==
    /\ source = [s \in Sources |-> NoSource]
    /\ due = {} /\ live = Bases /\ waiting = {}
    /\ run = <<>> /\ row = {} /\ screened = <<>>
    /\ poll = [w \in Collectors |-> Free]
    /\ texts = 0 /\ reading = {} /\ unseen = 0
    /\ wish = source /\ faults = 0

Polling(w) ==
    \/ \E d \in waiting : Take(w, d)
    \/ Ask(w) \/ Refused(w)
    \/ /\ At(w, "asked")
       /\ \/ \E outcome \in {"failed", "blocked"}, calls \in Charges(SourceOf(w)) :
                 VendorFailed(w, outcome, calls)
          \/ \E arrivals \in Answers, calls \in Searched(SourceOf(w)) :
                 Answered(w, arrivals, calls)
    \/ Skip(w) \/ LookUp(w) \/ Store(w) \/ Screen(w) \/ Finish(w) \/ MarkPolled(w)
    \/ Lost(w) \/ Broken(w)

Managing(s) ==
    \/ \E b \in Bases : AddSource(s, b) \/ SaveSource(s, b)
    \/ \E status \in {"active", "failed"} : SetStatus(s, status)
    \/ Elapse(s) \/ PollNow(s)

Reading(x) == StartReading(x) \/ \E calls \in 0 .. 1 : EndReading(x, calls)

CollectionNext ==
    \/ Tick
    \/ \E x \in Readers : Reading(x)
    \/ \E b \in Bases : Withdraw(b)
    \/ \E s \in Sources : Managing(s)
    \/ \E w \in Collectors : Polling(w)

CollectionSpec == CollectionInit /\ [][CollectionNext]_collectionVars

=============================================================================
