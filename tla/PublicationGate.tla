-------------------------- MODULE PublicationGate --------------------------
(***************************************************************************)
(* The publication gate of the Trend Engine: drafting and approval         *)
(* (apps/outputs/services.py), publishing and withdrawing                  *)
(* (apps/publication/services.py), delivery and review copies              *)
(* (apps/publication/delivery.py) and the operator screens that call them  *)
(* (apps/publication/views.py).                                            *)
(*                                                                         *)
(* Every POST of the output builder loads the rows it is about (a Django   *)
(* object in memory), and then calls a service that runs in a transaction  *)
(* of its own and trusts the loaded object.  The database is PostgreSQL at *)
(* READ COMMITTED and none of these services locks a row, so other         *)
(* requests commit between the load and the commit.  The model therefore   *)
(* has a Load step and a Commit step per request, and the request record   *)
(* carries what was loaded; publish() has a third step, because its UPDATE *)
(* of the incumbents and its INSERT are separate statements.               *)
(***************************************************************************)
EXTENDS Naturals, FiniteSets

CONSTANTS
    Outputs,         \* Output rows, one per (organisation, title)
    ExpertOutputs,   \* those whose type is in EXPERT_REVIEW_REQUIRED
    Operators,       \* operators, each with one request in flight at a time
    Reviewers,       \* people on the ExpertReviewer register
    MaxVersions,     \* bound: version numbers per output
    MaxPublications, \* bound: Publication rows
    None             \* no output

ASSUME ExpertAssumption == ExpertOutputs \subseteq Outputs
ASSUME NoneAssumption == None \notin Outputs
ASSUME BoundAssumption ==
    /\ MaxVersions \in Nat \ {0}
    /\ MaxPublications \in Nat \ {0}

VARIABLES
    outputState,   \* Output.state
    versions,      \* versions[o][n]: OutputVersion.state, "absent" if no row
    approvals,     \* approvals[o]: numbers that have an Approval row
    reviews,       \* reviews[o]: signed ExpertReview rows, each recorded as
                   \*   the newest version number there was at the sign-off
    active,        \* reviewers with is_active
    publications,  \* publications[pk]: the Publication table
    deliveries,    \* pks that have a Delivery row
    artifact,      \* the newest ExportArtifact row: the last file rendered
    request        \* request[w]: the request operator w has in flight

vars == <<outputState, versions, approvals, reviews, active, publications,
          deliveries, artifact, request>>

rows == <<outputState, versions, approvals, reviews, active, publications,
          deliveries, artifact>>

Numbers == 1..MaxVersions
Pks == 1..MaxPublications

VersionStates == {"absent", "draft", "approved", "published", "delivered"}
OutputStates == VersionStates
PublicationStatus == {"none", "live", "superseded", "withdrawn"}

\* A Publication row; status is unpublished_at and unpublished_reason.
Publication ==
    [status: PublicationStatus \ {"none"}, output: Outputs, number: Numbers]

NoRow == [status |-> "none", output |-> None, number |-> 0]

\* An ExportArtifact row.  draft is was_draft; live says whether the version
\* was the one on show when the row was committed.
Artifact == [output: Outputs, number: Numbers, draft: BOOLEAN, live: BOOLEAN]

NoArtifact == [output |-> None, number |-> 0, draft |-> TRUE, live |-> FALSE]

\* A request in flight, and what it holds in memory: the rows it loaded, as
\* they were then.
Activities == {"draft", "approve", "publish", "publishing", "withdraw",
               "deliver", "review", "export",
               "published copy", "review copy", "withdrawal"}

Request ==
    [act: Activities, output: Outputs, number: Numbers, seen: VersionStates,
     pk: Pks \union {0}, retired: SUBSET Pks]

NoRequest ==
    [act |-> "idle", output |-> None, number |-> 0, seen |-> "absent",
     pk |-> 0, retired |-> {}]

----------------------------------------------------------------------------
(* Reads *)

Drafted(o) == {n \in Numbers : versions[o][n] # "absent"}

\* previous.number + 1, or 1
NextNumber(o, n) ==
    /\ n \notin Drafted(o)
    /\ \A m \in Numbers : m < n => m \in Drafted(o)

\* published_for(): the rows with unpublished_at IS NULL
Live(o) ==
    {p \in Pks : publications[p].status = "live" /\ publications[p].output = o}

LiveNumbers(o) == {publications[p].number : p \in Live(o)}

\* every version that was ever put on show
EverPublished(o) ==
    {publications[p].number :
        p \in {q \in Pks : publications[q].status # "none"
                           /\ publications[q].output = o}}

\* A wrong gate: somebody able to review is taken for a review.
ReviewerIsEnough(o) == o \in ExpertOutputs => active # {}

ReviewSatisfied(o) == o \in ExpertOutputs => reviews[o] # {}

NextPk(p) ==
    /\ publications[p].status = "none"
    /\ \A q \in Pks : q < p => publications[q].status # "none"

----------------------------------------------------------------------------
(* The life of a request *)

Idle(w) == request[w].act = "idle"

Busy(w, a) == request[w].act = a

Load(w, a, o, n) ==
    /\ Idle(w)
    /\ request' = [request EXCEPT ![w] =
                     [act |-> a, output |-> o, number |-> n,
                      seen |-> versions[o][n], pk |-> 0, retired |-> {}]]
    /\ UNCHANGED rows

Finish(w) == request' = [request EXCEPT ![w] = NoRequest]

\* transaction.on_commit: the message is sent after the transaction
ThenSend(w, kind) ==
    request' = [request EXCEPT ![w].act = kind, ![w].seen = "absent"]

SetVersion(o, n, s) == versions' = [versions EXCEPT ![o][n] = s]

SetOutput(o, s) == outputState' = [outputState EXCEPT ![o] = s]

----------------------------------------------------------------------------
(* Drafting, approval and sign-off *)

\* draft() reads the newest number of the output's versions ...
LoadDraft(w, o) ==
    \E n \in Numbers : NextNumber(o, n) /\ Load(w, "draft", o, n)

\* ... and inserts the next one; uniq_version_per_output fails the second of
\* two transactions that read the same newest number.
CommitDraft(w) ==
    LET o == request[w].output
        n == request[w].number
    IN  /\ Busy(w, "draft")
        /\ Finish(w)
        /\ IF versions[o][n] = "absent"
           THEN SetVersion(o, n, "draft") /\ SetOutput(o, "draft")
           ELSE UNCHANGED <<versions, outputState>>
        /\ UNCHANGED <<approvals, reviews, active, publications, deliveries,
                       artifact>>

LoadApprove(w, o) == \E n \in Drafted(o) : Load(w, "approve", o, n)

\* approve() refuses a version it saw published, and no other state.
CommitApprove(w) ==
    LET o == request[w].output
        n == request[w].number
    IN  /\ Busy(w, "approve")
        /\ Finish(w)
        /\ IF request[w].seen # "published"
           THEN /\ approvals' = [approvals EXCEPT ![o] = @ \union {n}]
                /\ SetVersion(o, n, "approved")
                /\ SetOutput(o, "approved")
           ELSE UNCHANGED <<approvals, versions, outputState>>
        /\ UNCHANGED <<reviews, active, publications, deliveries, artifact>>

\* record_expert_signoff(): an active reviewer who is not the operator.  The
\* row belongs to the output; it does not say which version was read.
SignOff(w, o, r) ==
    /\ Idle(w)
    /\ r \in active
    /\ r # w
    /\ \E n \in Drafted(o) :
          /\ \A m \in Drafted(o) : m <= n
          /\ reviews' = [reviews EXCEPT ![o] = @ \union {n}]
    /\ UNCHANGED <<outputState, versions, approvals, active, publications,
                   deliveries, artifact, request>>

\* reviewers.set_active()
SetActive(r) ==
    /\ active' = IF r \in active THEN active \ {r} ELSE active \union {r}
    /\ UNCHANGED <<outputState, versions, approvals, reviews, publications,
                   deliveries, artifact, request>>

----------------------------------------------------------------------------
(* Publishing *)

\* bound: requests that may publish never outnumber the rows left
RoomToPublish ==
    Cardinality({v \in Operators : request[v].act \in {"publish", "publishing"}})
      < Cardinality({p \in Pks : publications[p].status = "none"})

LoadPublish(w, o) ==
    /\ RoomToPublish
    /\ \E n \in Drafted(o) : Load(w, "publish", o, n)

\* A wrong gate: the state of the version is not looked at.
ReviewOnly(w) == ReviewSatisfied(request[w].output)

\* The gate's two checks: the state the version had when it was loaded, and
\* the output's reviews as they are now.
GatePasses(w) ==
    /\ request[w].seen = "approved"
    /\ ReviewSatisfied(request[w].output)

\* NotApproved or ExpertReviewMissing
RefusePublish(w) ==
    /\ Busy(w, "publish")
    /\ ~GatePasses(w)
    /\ Finish(w)
    /\ UNCHANGED rows

\* UPDATE ... WHERE unpublished_at IS NULL: the incumbents this transaction
\* retires.  Nothing is visible outside it until it commits.
RetireIncumbents(w) ==
    /\ Busy(w, "publish")
    /\ GatePasses(w)
    /\ request' = [request EXCEPT ![w].act = "publishing",
                                  ![w].retired = Live(request[w].output)]
    /\ UNCHANGED rows

\* A wrong table: without the partial unique index.
NoIndex(o, retired) == TRUE

\* uniq_live_publication_per_output over what is committed by now
IndexAdmits(o, retired) == Live(o) \subseteq retired

\* A wrong UPDATE: the retired rows lose what they published.
RetireBlank(retired) ==
    [p \in Pks |-> IF p \in retired THEN [NoRow EXCEPT !.status = "superseded"]
                   ELSE publications[p]]

Retire(retired) ==
    [p \in Pks |-> IF p \in retired /\ publications[p].status = "live"
                   THEN [publications[p] EXCEPT !.status = "superseded"]
                   ELSE publications[p]]

CommitPublish(w) ==
    LET o == request[w].output
        n == request[w].number
    IN  /\ Busy(w, "publishing")
        /\ IndexAdmits(o, request[w].retired)
        /\ \E p \in Pks :
              /\ NextPk(p)
              /\ publications' =
                   [Retire(request[w].retired) EXCEPT
                      ![p] = [status |-> "live", output |-> o, number |-> n]]
        /\ SetOutput(o, "published")
        /\ SetVersion(o, n, "published")
        /\ Finish(w)
        /\ UNCHANGED <<approvals, reviews, active, deliveries, artifact>>

\* IntegrityError: another transaction put a version on show in between
PublishConflict(w) ==
    /\ Busy(w, "publishing")
    /\ ~IndexAdmits(request[w].output, request[w].retired)
    /\ Finish(w)
    /\ UNCHANGED rows

----------------------------------------------------------------------------
(* Withdrawing *)

LoadLive(w, a, o) ==
    /\ Idle(w)
    /\ \E p \in Live(o) :
          request' = [request EXCEPT ![w] =
                        [act |-> a, output |-> o,
                         number |-> publications[p].number,
                         seen |-> "absent", pk |-> p, retired |-> {}]]
    /\ UNCHANGED rows

LoadWithdraw(w, o) == LoadLive(w, "withdraw", o)

\* A wrong unpublish(): the output keeps its state.
WithdrawRowOnly(w) ==
    /\ Busy(w, "withdraw")
    /\ publications' = [publications EXCEPT ![request[w].pk].status = "withdrawn"]
    /\ ThenSend(w, "withdrawal")
    /\ UNCHANGED <<outputState, versions, approvals, reviews, active,
                   deliveries, artifact>>

\* unpublish() writes the three unpublished_* columns whatever they hold by
\* now, and the output's state; the version keeps its own.
CommitWithdraw(w) ==
    LET p == request[w].pk
    IN  /\ Busy(w, "withdraw")
        /\ publications' = [publications EXCEPT ![p].status = "withdrawn"]
        /\ SetOutput(publications[p].output, "approved")
        /\ ThenSend(w, "withdrawal")
        /\ UNCHANGED <<versions, approvals, reviews, active, deliveries,
                       artifact>>

----------------------------------------------------------------------------
(* Delivery, review copies and downloads *)

\* OutputDeliverView with a live publication
LoadDeliver(w, o) == LoadLive(w, "deliver", o)

\* A wrong deliver(): save() without update_fields writes the loaded NULL back.
RecordAndReinstate(p) ==
    /\ deliveries' = deliveries \union {p}
    /\ publications' = [publications EXCEPT ![p].status = "live"]

\* The Delivery row, and notified_at, which it stands for here.
RecordDelivery(p) ==
    /\ deliveries' = deliveries \union {p}
    /\ UNCHANGED publications

\* deliver(): unpublished_at was NULL in the loaded object, so the check
\* passes and the document is rendered as published, seconds later.
CommitDeliver(w) ==
    LET p == request[w].pk
        o == publications[p].output
        n == publications[p].number
    IN  /\ Busy(w, "deliver")
        /\ artifact' = [output |-> o, number |-> n, draft |-> FALSE,
                         live |-> n \in LiveNumbers(o)]
        /\ RecordDelivery(p)
        /\ SetOutput(o, "delivered")
        /\ SetVersion(o, n, "delivered")
        /\ ThenSend(w, "published copy")
        /\ UNCHANGED <<approvals, reviews, active>>

\* OutputDeliverView when nothing is live or another version was chosen
LoadReview(w, o) ==
    \E n \in Drafted(o) : n \notin LiveNumbers(o) /\ Load(w, "review", o, n)

LoadExport(w, o) == \E n \in Drafted(o) : Load(w, "export", o, n)

\* A wrong watermark: an approved version counts as final.
DraftsOnly(state) == state = "draft"

\* document_for_version(): is_draft
Watermarked(state) == state # "published"

\* The file and its ExportArtifact row, from the loaded version
Render(w) ==
    LET o == request[w].output
        n == request[w].number
    IN  /\ artifact' = [output |-> o, number |-> n,
                         draft |-> Watermarked(request[w].seen),
                         live |-> n \in LiveNumbers(o)]
        /\ UNCHANGED <<outputState, versions, approvals, reviews, active,
                       publications, deliveries>>

\* send_for_review()
CommitReview(w) == Busy(w, "review") /\ Render(w) /\ ThenSend(w, "review copy")

\* OutputExportView
CommitExport(w) == Busy(w, "export") /\ Render(w) /\ Finish(w)

\* _send() and send_withdrawal_email(), after the commit.  A provider failure
\* is logged and changes nothing.
Send(w) ==
    /\ request[w].act \in {"published copy", "review copy", "withdrawal"}
    /\ Finish(w)
    /\ UNCHANGED rows

\* A wrong rollback: the message is queued before the transaction ends.
AbandonButSend(w) ==
    /\ ~Idle(w)
    /\ IF Busy(w, "deliver") THEN ThenSend(w, "published copy") ELSE Finish(w)
    /\ UNCHANGED rows

\* A request that ends without effect: the renderer failed, there was nobody
\* to send to, or the process died and its transaction rolled back.
Abandon(w) ==
    /\ ~Idle(w)
    /\ Finish(w)
    /\ UNCHANGED rows

----------------------------------------------------------------------------

Init ==
    /\ outputState = [o \in Outputs |-> "absent"]
    /\ versions = [o \in Outputs |-> [n \in Numbers |-> "absent"]]
    /\ approvals = [o \in Outputs |-> {}]
    /\ reviews = [o \in Outputs |-> {}]
    /\ active = Reviewers
    /\ publications = [p \in Pks |-> NoRow]
    /\ deliveries = {}
    /\ artifact = NoArtifact
    /\ request = [w \in Operators |-> NoRequest]

Loads(w, o) ==
    \/ LoadDraft(w, o)
    \/ LoadApprove(w, o)
    \/ LoadPublish(w, o)
    \/ LoadWithdraw(w, o)
    \/ LoadDeliver(w, o)
    \/ LoadReview(w, o)
    \/ LoadExport(w, o)

Commits(w) ==
    \/ CommitDraft(w)
    \/ CommitApprove(w)
    \/ RefusePublish(w)
    \/ RetireIncumbents(w)
    \/ CommitPublish(w)
    \/ PublishConflict(w)
    \/ CommitWithdraw(w)
    \/ CommitDeliver(w)
    \/ CommitReview(w)
    \/ CommitExport(w)
    \/ Send(w)
    \/ Abandon(w)

Next ==
    \/ \E w \in Operators, o \in Outputs : Loads(w, o)
    \/ \E w \in Operators : Commits(w)
    \/ \E w \in Operators, o \in Outputs, r \in Reviewers : SignOff(w, o, r)
    \/ \E r \in Reviewers : SetActive(r)

Spec == Init /\ [][Next]_vars
=============================================================================
