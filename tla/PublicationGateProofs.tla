----------------------- MODULE PublicationGateProofs -----------------------
(***************************************************************************)
(* Proofs about the publication gate, for any number of outputs,           *)
(* operators, reviewers, versions and publications.                        *)
(***************************************************************************)
EXTENDS PublicationGateProps, TLAPS

\* A withdrawing or delivering request is about a row that exists: it loaded
\* it when it was live, and rows are never deleted.
LoadedRowExists ==
    \A w \in Operators :
        request[w].act \in {"withdraw", "deliver", "withdrawal", "published copy"}
          => /\ request[w].pk \in Pks
             /\ publications[request[w].pk].status # "none"

TypeInv == TypeOK /\ LoadedRowExists

LEMMA InitTypeInv == Init => TypeInv
<1> SUFFICES ASSUME Init PROVE TypeInv
  OBVIOUS
<1> USE DEF Init
<1>1. TypeOK
  <2>1. outputState \in [Outputs -> OutputStates]
    BY DEF OutputStates, VersionStates
  <2>2. versions \in [Outputs -> [Numbers -> VersionStates]]
    BY DEF VersionStates
  <2>3. publications \in [Pks -> Publication \union {NoRow}]
    OBVIOUS
  <2>4. request \in [Operators -> Request \union {NoRequest}]
    OBVIOUS
  <2> QED
    BY <2>1, <2>2, <2>3, <2>4 DEF TypeOK
<1>2. LoadedRowExists
  BY DEF LoadedRowExists, NoRequest
<1> QED
  BY <1>1, <1>2 DEF TypeInv

\* Steps that change nothing but one request.
LEMMA RequestStep ==
    ASSUME TypeInv, NEW w \in Operators,
           NEW r \in Request \union {NoRequest},
           r.act \in {"withdraw", "deliver", "withdrawal", "published copy"}
             => /\ r.pk \in Pks
                /\ publications[r.pk].status # "none",
           request' = [request EXCEPT ![w] = r],
           UNCHANGED rows
    PROVE  TypeInv'
<1>1. TypeOK'
  BY DEF TypeInv, TypeOK, rows
<1>2. LoadedRowExists'
  BY DEF TypeInv, TypeOK, LoadedRowExists, rows
<1> QED
  BY <1>1, <1>2 DEF TypeInv

LEMMA LoadType ==
    ASSUME TypeInv, NEW w \in Operators, NEW o \in Outputs, NEW n \in Numbers,
           NEW a \in Activities \ {"withdraw", "deliver", "withdrawal",
                                   "published copy"},
           Load(w, a, o, n)
    PROVE  TypeInv'
<1> DEFINE r == [act |-> a, output |-> o, number |-> n,
                 seen |-> versions[o][n], pk |-> 0, retired |-> {}]
<1>1. r \in Request
  <2>1. versions[o][n] \in VersionStates
    BY DEF TypeInv, TypeOK
  <2>2. {} \in SUBSET Pks /\ 0 \in Pks \union {0}
    OBVIOUS
  <2> QED
    BY <2>1, <2>2 DEF Request
<1>2. request' = [request EXCEPT ![w] = r] /\ UNCHANGED rows
  BY DEF Load
<1>3. r.act \notin {"withdraw", "deliver", "withdrawal", "published copy"}
  OBVIOUS
<1> HIDE DEF r
<1> QED
  BY <1>1, <1>2, <1>3, RequestStep

\* What a request in flight holds.
LEMMA InFlight ==
    ASSUME TypeInv, NEW w \in Operators, request[w].act # "idle"
    PROVE  /\ request[w] \in Request
           /\ request[w].output \in Outputs
           /\ request[w].number \in Numbers
<1>1. request[w] \in Request \union {NoRequest}
  BY DEF TypeInv, TypeOK
<1>2. request[w] # NoRequest
  BY DEF NoRequest
<1> QED
  BY <1>1, <1>2 DEF Request

LEMMA LoadLiveType ==
    ASSUME TypeInv, NEW w \in Operators, NEW o \in Outputs,
           NEW a \in {"withdraw", "deliver"}, LoadLive(w, a, o)
    PROVE  TypeInv'
<1>1. PICK p \in Live(o) :
        request' = [request EXCEPT ![w] =
                      [act |-> a, output |-> o,
                       number |-> publications[p].number,
                       seen |-> "absent", pk |-> p, retired |-> {}]]
  BY DEF LoadLive
<1> DEFINE r == [act |-> a, output |-> o, number |-> publications[p].number,
                 seen |-> "absent", pk |-> p, retired |-> {}]
<1>2. p \in Pks /\ publications[p].status = "live"
  BY DEF Live
<1>3. publications[p].number \in Numbers
  <2>1. publications[p] \in Publication \union {NoRow}
    BY <1>2 DEF TypeInv, TypeOK
  <2> QED
    BY <1>2, <2>1 DEF Publication, NoRow
<1>4. r \in Request
  <2>1. {} \in SUBSET Pks /\ p \in Pks \union {0}
    BY <1>2
  <2>2. a \in Activities /\ "absent" \in VersionStates
    BY DEF Activities, VersionStates
  <2> QED
    BY <1>3, <2>1, <2>2 DEF Request
<1>5. request' = [request EXCEPT ![w] = r] /\ UNCHANGED rows
  BY <1>1 DEF LoadLive
<1>6. r.pk \in Pks /\ publications[r.pk].status # "none"
  BY <1>2
<1> HIDE DEF r
<1> QED
  BY <1>4, <1>5, <1>6, RequestStep

LEMMA FinishType ==
    ASSUME TypeInv, NEW w \in Operators, Finish(w), UNCHANGED rows
    PROVE  TypeInv'
<1>1. NoRequest.act = "idle"
  BY DEF NoRequest
<1> QED
  BY <1>1, RequestStep DEF Finish

LEMMA LoadsType ==
    ASSUME TypeInv, NEW w \in Operators, NEW o \in Outputs, Loads(w, o)
    PROVE  TypeInv'
<1> USE DEF Activities, Drafted
<1>1. CASE LoadDraft(w, o)
  BY <1>1, LoadType DEF LoadDraft
<1>2. CASE LoadApprove(w, o)
  BY <1>2, LoadType DEF LoadApprove
<1>3. CASE LoadPublish(w, o)
  BY <1>3, LoadType DEF LoadPublish
<1>4. CASE LoadWithdraw(w, o)
  BY <1>4, LoadLiveType DEF LoadWithdraw
<1>5. CASE LoadDeliver(w, o)
  BY <1>5, LoadLiveType DEF LoadDeliver
<1>6. CASE LoadReview(w, o)
  BY <1>6, LoadType DEF LoadReview
<1>7. CASE LoadExport(w, o)
  BY <1>7, LoadType DEF LoadExport
<1> QED
  BY <1>1, <1>2, <1>3, <1>4, <1>5, <1>6, <1>7 DEF Loads

LEMMA VersionType ==
    ASSUME TypeInv, NEW o \in Outputs, NEW n \in Numbers,
           NEW s \in VersionStates, SetVersion(o, n, s)
    PROVE  versions' \in [Outputs -> [Numbers -> VersionStates]]
BY DEF TypeInv, TypeOK, SetVersion

LEMMA OutputType ==
    ASSUME TypeInv, NEW o \in Outputs, NEW s \in OutputStates, SetOutput(o, s)
    PROVE  outputState' \in [Outputs -> OutputStates]
BY DEF TypeInv, TypeOK, SetOutput

LEMMA FinishRequest ==
    ASSUME TypeInv, NEW w \in Operators, Finish(w)
    PROVE  /\ request' \in [Operators -> Request \union {NoRequest}]
           /\ \A v \in Operators : request'[v] = request[v]
                                   \/ request'[v].act = "idle"
BY DEF TypeInv, TypeOK, Finish, NoRequest

LEMMA SendRequest ==
    ASSUME TypeInv, NEW w \in Operators, request[w].act # "idle",
           NEW kind \in {"published copy", "review copy", "withdrawal"},
           ThenSend(w, kind)
    PROVE  /\ request' \in [Operators -> Request \union {NoRequest}]
           /\ \A v \in Operators : v # w => request'[v] = request[v]
           /\ request'[w].act = kind
           /\ request'[w].pk = request[w].pk
<1>1. request[w] \in Request
  BY InFlight
<1> DEFINE r == [request[w] EXCEPT !.act = kind, !.seen = "absent"]
<1>2. r \in Request /\ r.act = kind /\ r.pk = request[w].pk
  BY <1>1 DEF Request, Activities, VersionStates
<1>3. request' = [request EXCEPT ![w] = r]
  BY DEF ThenSend, TypeInv, TypeOK
<1> HIDE DEF r
<1> QED
  BY <1>2, <1>3 DEF TypeInv, TypeOK

LEMMA CommitDraftType ==
    ASSUME TypeInv, NEW w \in Operators, CommitDraft(w)
    PROVE  TypeInv'
<1> DEFINE o == request[w].output
           n == request[w].number
<1>1. o \in Outputs /\ n \in Numbers
  BY InFlight DEF CommitDraft, Busy
<1>2. versions' \in [Outputs -> [Numbers -> VersionStates]]
  BY <1>1, VersionType DEF CommitDraft, TypeInv, TypeOK, VersionStates
<1>3. outputState' \in [Outputs -> OutputStates]
  BY <1>1, OutputType
     DEF CommitDraft, TypeInv, TypeOK, OutputStates, VersionStates
<1>4. Finish(w)
  BY DEF CommitDraft
<1> QED
  BY <1>2, <1>3, <1>4, FinishRequest
     DEF TypeInv, TypeOK, LoadedRowExists, CommitDraft

LEMMA CommitApproveType ==
    ASSUME TypeInv, NEW w \in Operators, CommitApprove(w)
    PROVE  TypeInv'
<1> DEFINE o == request[w].output
           n == request[w].number
<1>1. o \in Outputs /\ n \in Numbers
  BY InFlight DEF CommitApprove, Busy
<1>2. versions' \in [Outputs -> [Numbers -> VersionStates]]
  BY <1>1, VersionType DEF CommitApprove, TypeInv, TypeOK, VersionStates
<1>3. outputState' \in [Outputs -> OutputStates]
  BY <1>1, OutputType
     DEF CommitApprove, TypeInv, TypeOK, OutputStates, VersionStates
<1>4. approvals' \in [Outputs -> SUBSET Numbers]
  BY <1>1 DEF CommitApprove, TypeInv, TypeOK
<1>5. Finish(w)
  BY DEF CommitApprove
<1> QED
  BY <1>2, <1>3, <1>4, <1>5, FinishRequest
     DEF TypeInv, TypeOK, LoadedRowExists, CommitApprove

\* Retiring rows leaves every row in place.
LEMMA RetireRows ==
    ASSUME TypeInv, NEW retired \in SUBSET Pks
    PROVE  /\ Retire(retired) \in [Pks -> Publication \union {NoRow}]
           /\ \A q \in Pks :
                /\ Retire(retired)[q].output = publications[q].output
                /\ Retire(retired)[q].number = publications[q].number
                /\ Retire(retired)[q].status =
                     IF q \in retired /\ publications[q].status = "live"
                     THEN "superseded" ELSE publications[q].status
<1> SUFFICES ASSUME NEW q \in Pks
    PROVE  /\ Retire(retired)[q] \in Publication \union {NoRow}
           /\ Retire(retired)[q].output = publications[q].output
           /\ Retire(retired)[q].number = publications[q].number
           /\ Retire(retired)[q].status =
                IF q \in retired /\ publications[q].status = "live"
                THEN "superseded" ELSE publications[q].status
  BY DEF Retire
<1>1. publications[q] \in Publication \union {NoRow}
  BY DEF TypeInv, TypeOK
<1>2. CASE q \in retired /\ publications[q].status = "live"
  <2>1. publications[q] \in Publication
    BY <1>1, <1>2 DEF NoRow
  <2> QED
    BY <1>2, <2>1 DEF Retire, Publication, PublicationStatus
<1>3. CASE ~(q \in retired /\ publications[q].status = "live")
  BY <1>1, <1>3 DEF Retire
<1> QED
  BY <1>2, <1>3

\* What publish() leaves in the table when it inserts at p.
PublishedAt(w, p) ==
    /\ publications[p].status = "none"
    /\ publications' \in [Pks -> Publication \union {NoRow}]
    /\ publications'[p] = [status |-> "live", output |-> request[w].output,
                           number |-> request[w].number]
    /\ \A q \in Pks \ {p} :
          /\ publications'[q].output = publications[q].output
          /\ publications'[q].number = publications[q].number
          /\ publications'[q].status =
               IF q \in request[w].retired /\ publications[q].status = "live"
               THEN "superseded" ELSE publications[q].status

LEMMA PublishRows ==
    ASSUME TypeInv, NEW w \in Operators, CommitPublish(w)
    PROVE  \E p \in Pks : PublishedAt(w, p)
<1> DEFINE o == request[w].output
           n == request[w].number
           row == [status |-> "live", output |-> o, number |-> n]
<1>1. /\ o \in Outputs /\ n \in Numbers
      /\ request[w].retired \in SUBSET Pks
  BY InFlight DEF CommitPublish, Busy, Request
<1>2. PICK p \in Pks :
        /\ NextPk(p)
        /\ publications' = [Retire(request[w].retired) EXCEPT ![p] = row]
  BY DEF CommitPublish
<1>3. row \in Publication
  BY <1>1 DEF Publication, PublicationStatus
<1>4. publications[p].status = "none"
  BY <1>2 DEF NextPk
<1> HIDE DEF row
<1>5. publications' \in [Pks -> Publication \union {NoRow}]
  BY <1>1, <1>2, <1>3, RetireRows
<1>6. publications'[p] = row
  BY <1>1, <1>2, RetireRows
<1>7. \A q \in Pks \ {p} : publications'[q] = Retire(request[w].retired)[q]
  BY <1>1, <1>2, RetireRows
<1> QED
  BY <1>1, <1>4, <1>5, <1>6, <1>7, RetireRows DEF row, PublishedAt

LEMMA CommitPublishType ==
    ASSUME TypeInv, NEW w \in Operators, CommitPublish(w)
    PROVE  TypeInv'
<1> DEFINE o == request[w].output
           n == request[w].number
<1>1. o \in Outputs /\ n \in Numbers
  BY InFlight DEF CommitPublish, Busy
<1>2. versions' \in [Outputs -> [Numbers -> VersionStates]]
  BY <1>1, VersionType DEF CommitPublish, VersionStates
<1>3. outputState' \in [Outputs -> OutputStates]
  BY <1>1, OutputType DEF CommitPublish, OutputStates, VersionStates
<1>4. publications' \in [Pks -> Publication \union {NoRow}]
  BY PublishRows DEF PublishedAt
<1>5. \A q \in Pks : publications[q].status # "none"
                       => publications'[q].status # "none"
  <2>1. PICK p \in Pks : PublishedAt(w, p)
    BY PublishRows
  <2>2. SUFFICES ASSUME NEW q \in Pks, publications[q].status # "none"
                 PROVE  publications'[q].status # "none"
    OBVIOUS
  <2>3. q \in Pks \ {p}
    BY <2>1, <2>2 DEF PublishedAt
  <2>4. CASE q \in request[w].retired /\ publications[q].status = "live"
    BY <2>1, <2>3, <2>4 DEF PublishedAt
  <2>5. CASE ~(q \in request[w].retired /\ publications[q].status = "live")
    BY <2>1, <2>2, <2>3, <2>5 DEF PublishedAt
  <2> QED
    BY <2>4, <2>5
<1>6. Finish(w)
  BY DEF CommitPublish
<1>7. TypeOK'
  BY <1>2, <1>3, <1>4, <1>6, FinishRequest DEF TypeInv, TypeOK, CommitPublish
<1>8. LoadedRowExists'
  BY <1>5, <1>6, FinishRequest DEF TypeInv, LoadedRowExists
<1> QED
  BY <1>7, <1>8 DEF TypeInv

\* What unpublish() leaves in the table.
LEMMA WithdrawRows ==
    ASSUME TypeInv, NEW w \in Operators, CommitWithdraw(w)
    PROVE  /\ request[w].pk \in Pks
           /\ publications[request[w].pk] \in Publication
           /\ publications' \in [Pks -> Publication \union {NoRow}]
           /\ publications'[request[w].pk].status = "withdrawn"
           /\ \A q \in Pks :
                /\ publications'[q].output = publications[q].output
                /\ publications'[q].number = publications[q].number
                /\ q # request[w].pk => publications'[q] = publications[q]
<1> DEFINE p == request[w].pk
           row == [publications[p] EXCEPT !.status = "withdrawn"]
<1>1. p \in Pks /\ publications[p].status # "none"
  BY DEF CommitWithdraw, Busy, TypeInv, LoadedRowExists
<1>2. publications[p] \in Publication
  BY <1>1 DEF TypeInv, TypeOK, NoRow
<1>3. /\ row \in Publication
      /\ row.status = "withdrawn"
      /\ row.output = publications[p].output
      /\ row.number = publications[p].number
  BY <1>2 DEF Publication, PublicationStatus
<1>4. publications' = [publications EXCEPT ![p] = row]
  BY <1>1 DEF CommitWithdraw, TypeInv, TypeOK
<1> HIDE DEF row
<1> QED
  BY <1>1, <1>2, <1>3, <1>4 DEF TypeInv, TypeOK

LEMMA CommitWithdrawType ==
    ASSUME TypeInv, NEW w \in Operators, CommitWithdraw(w)
    PROVE  TypeInv'
<1> DEFINE p == request[w].pk
<1>1. publications[p].output \in Outputs
  BY WithdrawRows DEF Publication
<1>2. outputState' \in [Outputs -> OutputStates]
  BY <1>1, OutputType DEF CommitWithdraw, OutputStates, VersionStates
<1>3. /\ request[w].act # "idle"
      /\ ThenSend(w, "withdrawal")
  BY DEF CommitWithdraw, Busy
<1>4. TypeOK'
  BY <1>2, <1>3, WithdrawRows, SendRequest DEF TypeInv, TypeOK, CommitWithdraw
<1>5. LoadedRowExists'
  <2>1. \A q \in Pks : publications[q].status # "none"
                          => publications'[q].status # "none"
    <3>1. publications'[p].status # "none"
      BY WithdrawRows
    <3> QED
      BY <3>1, WithdrawRows
  <2>2. \A v \in Operators : v # w => request'[v] = request[v]
    BY <1>3, SendRequest
  <2>3. request'[w].pk = p /\ p \in Pks /\ publications'[p].status # "none"
    BY <1>3, SendRequest, WithdrawRows
  <2> QED
    BY <2>1, <2>2, <2>3 DEF TypeInv, LoadedRowExists
<1> QED
  BY <1>4, <1>5 DEF TypeInv

\* The publication a delivery is of.
LEMMA DeliverRow ==
    ASSUME TypeInv, NEW w \in Operators, Busy(w, "deliver")
    PROVE  /\ request[w].pk \in Pks
           /\ publications[request[w].pk] \in Publication
           /\ publications[request[w].pk].output \in Outputs
           /\ publications[request[w].pk].number \in Numbers
<1>1. request[w].pk \in Pks /\ publications[request[w].pk].status # "none"
  BY DEF Busy, TypeInv, LoadedRowExists
<1>2. publications[request[w].pk] \in Publication
  BY <1>1 DEF TypeInv, TypeOK, NoRow
<1> QED
  BY <1>1, <1>2 DEF Publication

LEMMA CommitDeliverType ==
    ASSUME TypeInv, NEW w \in Operators, CommitDeliver(w)
    PROVE  TypeInv'
<1> DEFINE p == request[w].pk
           o == publications[p].output
           n == publications[p].number
<1>1. p \in Pks /\ o \in Outputs /\ n \in Numbers
  BY DeliverRow DEF CommitDeliver
<1>2. versions' \in [Outputs -> [Numbers -> VersionStates]]
  BY <1>1, VersionType DEF CommitDeliver, VersionStates
<1>3. outputState' \in [Outputs -> OutputStates]
  BY <1>1, OutputType DEF CommitDeliver, OutputStates, VersionStates
<1>4. artifact' \in Artifact
  <2> DEFINE live == n \in LiveNumbers(o)
  <2>1. live \in BOOLEAN
    OBVIOUS
  <2>2. artifact' = [output |-> o, number |-> n, draft |-> FALSE, live |-> live]
    BY DEF CommitDeliver
  <2> HIDE DEF live
  <2> QED
    BY <1>1, <2>1, <2>2 DEF Artifact
<1>5. deliveries' \subseteq Pks
  BY <1>1 DEF CommitDeliver, RecordDelivery, TypeInv, TypeOK
<1>6. /\ request[w].act # "idle"
      /\ ThenSend(w, "published copy")
      /\ publications[p].status # "none"
  BY DEF CommitDeliver, Busy, TypeInv, LoadedRowExists
<1>7. TypeOK'
  BY <1>2, <1>3, <1>4, <1>5, <1>6, SendRequest
     DEF TypeInv, TypeOK, CommitDeliver, RecordDelivery
<1>8. LoadedRowExists'
  BY <1>1, <1>6, SendRequest DEF TypeInv, LoadedRowExists, CommitDeliver, RecordDelivery
<1> QED
  BY <1>7, <1>8 DEF TypeInv

LEMMA MembershipIsBoolean == \A x, S : (x \in S) \in BOOLEAN
OBVIOUS

LEMMA RenderType ==
    ASSUME TypeInv, NEW w \in Operators, Render(w),
           request[w].act \in {"review", "export"},
           ThenSend(w, "review copy") \/ Finish(w)
    PROVE  TypeInv'
<1>1. request[w].output \in Outputs /\ request[w].number \in Numbers
  BY InFlight
<1>2. artifact' \in Artifact
  <2> DEFINE draft == Watermarked(request[w].seen)
             live == request[w].number \in LiveNumbers(request[w].output)
  <2>1. draft \in BOOLEAN
    BY DEF Watermarked
  <2>3. live \in BOOLEAN
    BY MembershipIsBoolean
  <2>2. artifact' = [output |-> request[w].output, number |-> request[w].number,
                     draft |-> draft, live |-> live]
    BY DEF Render
  <2> HIDE DEF draft, live
  <2> QED
    BY <1>1, <2>1, <2>2, <2>3 DEF Artifact
<1>3. request' \in [Operators -> Request \union {NoRequest}]
  BY FinishRequest, SendRequest
<1>4. \A v \in Operators :
        request'[v].act \in {"withdraw", "deliver", "withdrawal",
                             "published copy"}
          => request'[v] = request[v]
  BY FinishRequest, SendRequest
<1>5. TypeOK'
  BY <1>2, <1>3 DEF Render, Watermarked, TypeInv, TypeOK
<1> QED
  BY <1>4, <1>5 DEF Render, TypeInv, LoadedRowExists

LEMMA RetireIncumbentsType ==
    ASSUME TypeInv, NEW w \in Operators, RetireIncumbents(w)
    PROVE  TypeInv'
<1> DEFINE r == [request[w] EXCEPT !.act = "publishing",
                                   !.retired = Live(request[w].output)]
<1>1. request[w] \in Request
  BY InFlight DEF RetireIncumbents, Busy
<1>2. r \in Request /\ r.act = "publishing"
  <2>1. Live(request[w].output) \in SUBSET Pks
    BY DEF Live
  <2> QED
    BY <1>1, <2>1 DEF Request, Activities
<1>3. request' = [request EXCEPT ![w] = r] /\ UNCHANGED rows
  BY DEF RetireIncumbents, TypeInv, TypeOK
<1> HIDE DEF r
<1> QED
  BY <1>2, <1>3, RequestStep

LEMMA CommitsType ==
    ASSUME TypeInv, NEW w \in Operators, Commits(w)
    PROVE  TypeInv'
<1>1. CASE RefusePublish(w) \/ PublishConflict(w) \/ Send(w) \/ Abandon(w)
  BY <1>1, FinishType DEF RefusePublish, PublishConflict, Send, Abandon
<1>2. CASE CommitReview(w) \/ CommitExport(w)
  BY <1>2, RenderType DEF CommitReview, CommitExport, Busy
<1> QED
  BY <1>1, <1>2, CommitDraftType, CommitApproveType, RetireIncumbentsType,
     CommitPublishType, CommitWithdrawType, CommitDeliverType DEF Commits

LEMMA SignOffType ==
    ASSUME TypeInv, NEW w \in Operators, NEW o \in Outputs,
           NEW r \in Reviewers, SignOff(w, o, r)
    PROVE  TypeInv'
<1>1. reviews' \in [Outputs -> SUBSET Numbers]
  BY DEF SignOff, Drafted, TypeInv, TypeOK
<1> QED
  BY <1>1 DEF SignOff, TypeInv, TypeOK, LoadedRowExists

LEMMA NextTypeInv == TypeInv /\ [Next]_vars => TypeInv'
<1> SUFFICES ASSUME TypeInv, [Next]_vars PROVE TypeInv'
  OBVIOUS
<1>1. ASSUME NEW r \in Reviewers, SetActive(r) PROVE TypeInv'
  BY <1>1 DEF SetActive, TypeInv, TypeOK, LoadedRowExists
<1>2. CASE UNCHANGED vars
  BY <1>2 DEF vars, TypeInv, TypeOK, LoadedRowExists
<1> QED
  BY <1>1, <1>2, LoadsType, CommitsType, SignOffType DEF Next

\* Every request, row and file keeps its type, and a request in the middle of
\* a withdrawal or a delivery always has a row to write to.
THEOREM TypeCorrect == Spec => []TypeOK
<1>1. TypeInv => TypeOK
  BY DEF TypeInv
<1> QED
  BY <1>1, InitTypeInv, NextTypeInv, PTL DEF Spec

----------------------------------------------------------------------------
(* The gate invariant *)

\* Approval, as publish() relies on it: the state it loaded was backed by an
\* Approval row then, and Approval rows are never deleted.
ApprovalInv ==
    /\ \A o \in Outputs, n \in Numbers :
          versions[o][n] = "approved" => n \in approvals[o]
    /\ \A w \in Operators :
          /\ request[w].act \in {"publish", "publishing"}
             /\ request[w].seen = "approved"
               => request[w].number \in approvals[request[w].output]
          /\ request[w].act = "publishing" => request[w].seen = "approved"
    /\ \A p \in Pks : publications[p].status # "none"
          => publications[p].number \in approvals[publications[p].output]

\* Review, as publish() checks it between its load and its insert.
Reviewed == {o \in Outputs : ReviewSatisfied(o)}

ReviewInv ==
    /\ \A w \in Operators : request[w].act = "publishing"
          => request[w].output \in Reviewed
    /\ \A p \in Pks : publications[p].status # "none"
          => publications[p].output \in Reviewed

\* How a step may change the request v.
RequestChange(v) ==
    \/ request'[v] = request[v]
    \/ request'[v].act \in {"idle", "review copy"}
    \/ \E o \in Outputs, n \in Numbers,
          a \in {"draft", "approve", "publish", "review", "export"} :
          request'[v] = [act |-> a, output |-> o, number |-> n,
                         seen |-> versions[o][n], pk |-> 0, retired |-> {}]
    \/ /\ request'[v].act \in {"withdraw", "deliver"}
       /\ \E o \in Outputs : LoadLive(v, request'[v].act, o)
    \/ RetireIncumbents(v)
    \/ /\ CommitWithdraw(v) /\ request'[v].act = "withdrawal"
       /\ request'[v].pk = request[v].pk
    \/ /\ CommitDeliver(v) /\ request'[v].act = "published copy"
       /\ request'[v].pk = request[v].pk

LEMMA LoadsChange ==
    ASSUME TypeInv, NEW w \in Operators, NEW o \in Outputs, Loads(w, o),
           NEW v \in Operators
    PROVE  RequestChange(v)
<1> DEFINE Loaded(a, n) ==
             request' = [request EXCEPT ![w] =
                           [act |-> a, output |-> o, number |-> n,
                            seen |-> versions[o][n], pk |-> 0, retired |-> {}]]
<1>1. request \in [Operators -> Request \union {NoRequest}]
  BY DEF TypeInv, TypeOK
<1>2. CASE \E n \in Numbers,
              a \in {"draft", "approve", "publish", "review", "export"} :
              Loaded(a, n)
  BY <1>1, <1>2 DEF RequestChange
<1>3. ASSUME NEW a \in {"withdraw", "deliver"}, LoadLive(w, a, o)
      PROVE  RequestChange(v)
  <2>1. CASE v = w
    <3>1. request'[v].act = a
      BY <1>1, <1>3, <2>1 DEF LoadLive
    <3> QED
      BY <1>3, <2>1, <3>1 DEF RequestChange
  <2>2. CASE v # w
    BY <1>1, <1>3, <2>2 DEF LoadLive, RequestChange
  <2> QED
    BY <2>1, <2>2
<1>4. CASE LoadWithdraw(w, o) \/ LoadDeliver(w, o)
  BY <1>3, <1>4 DEF LoadWithdraw, LoadDeliver
<1>5. CASE LoadDraft(w, o)
  BY <1>2, <1>5 DEF LoadDraft, Load
<1>6. CASE LoadApprove(w, o)
  BY <1>2, <1>6 DEF LoadApprove, Load, Drafted
<1>7. CASE LoadPublish(w, o)
  BY <1>2, <1>7 DEF LoadPublish, Load, Drafted
<1>8. CASE LoadReview(w, o)
  BY <1>2, <1>8 DEF LoadReview, Load, Drafted
<1>9. CASE LoadExport(w, o)
  BY <1>2, <1>9 DEF LoadExport, Load, Drafted
<1> QED
  BY <1>4, <1>5, <1>6, <1>7, <1>8, <1>9 DEF Loads

LEMMA CommitsChange ==
    ASSUME TypeInv, NEW w \in Operators, Commits(w), NEW v \in Operators
    PROVE  RequestChange(v)
<1>1. CASE Finish(w)
  BY <1>1, FinishRequest DEF RequestChange
<1>2. CASE RetireIncumbents(w)
  BY <1>2 DEF RetireIncumbents, RequestChange, TypeInv, TypeOK
<1>3. CASE CommitWithdraw(w)
  <2>1. request[w].act # "idle" /\ ThenSend(w, "withdrawal")
    BY <1>3 DEF CommitWithdraw, Busy
  <2> QED
    BY <1>3, <2>1, SendRequest DEF RequestChange
<1>4. CASE CommitDeliver(w)
  <2>1. request[w].act # "idle" /\ ThenSend(w, "published copy")
    BY <1>4 DEF CommitDeliver, Busy
  <2> QED
    BY <1>4, <2>1, SendRequest DEF RequestChange
<1>5. CASE CommitReview(w)
  <2>1. request[w].act # "idle" /\ ThenSend(w, "review copy")
    BY <1>5 DEF CommitReview, Busy
  <2> QED
    BY <2>1, SendRequest DEF RequestChange
<1>6. CASE CommitDraft(w)
  BY <1>1, <1>6 DEF CommitDraft
<1>7. CASE CommitApprove(w)
  BY <1>1, <1>7 DEF CommitApprove
<1>8. CASE CommitPublish(w)
  BY <1>1, <1>8 DEF CommitPublish
<1>9. CASE RefusePublish(w) \/ PublishConflict(w) \/ CommitExport(w)
             \/ Send(w) \/ Abandon(w)
  BY <1>1, <1>9
     DEF RefusePublish, PublishConflict, CommitExport, Send, Abandon
<1> QED
  BY <1>2, <1>3, <1>4, <1>5, <1>6, <1>7, <1>8, <1>9 DEF Commits

LEMMA EveryChange ==
    ASSUME TypeInv, [Next]_vars, NEW v \in Operators
    PROVE  RequestChange(v)
<1>1. ASSUME NEW w \in Operators, NEW o \in Outputs, NEW r \in Reviewers,
             SignOff(w, o, r)
      PROVE  RequestChange(v)
  BY <1>1 DEF SignOff, RequestChange
<1>2. ASSUME NEW r \in Reviewers, SetActive(r)
      PROVE  RequestChange(v)
  BY <1>2 DEF SetActive, RequestChange
<1>3. CASE UNCHANGED vars
  BY <1>3 DEF vars, RequestChange
<1> QED
  BY <1>1, <1>2, <1>3, LoadsChange, CommitsChange DEF Next

\* How a step may change the rows of the gate.
RowChange ==
    \/ UNCHANGED publications
    \/ \E w \in Operators : CommitPublish(w)
    \/ \E w \in Operators : CommitWithdraw(w)

LEMMA RowsChange == [Next]_vars => RowChange
<1> SUFFICES ASSUME [Next]_vars PROVE RowChange
  OBVIOUS
<1> USE DEF RowChange
<1>1. ASSUME NEW w \in Operators, NEW o \in Outputs, Loads(w, o)
      PROVE  UNCHANGED publications
  BY <1>1
     DEF Loads, LoadDraft, LoadApprove, LoadPublish, LoadWithdraw,
         LoadDeliver, LoadReview, LoadExport, Load, LoadLive, rows
<1>2. ASSUME NEW w \in Operators, Commits(w)
      PROVE  RowChange
  BY <1>2
     DEF Commits, CommitDraft, CommitApprove, RefusePublish,
         RetireIncumbents, PublishConflict, CommitDeliver, RecordDelivery, CommitReview,
         CommitExport, Render, Send, Abandon, rows
<1>3. ASSUME NEW w \in Operators, NEW o \in Outputs, NEW r \in Reviewers,
             SignOff(w, o, r)
      PROVE  UNCHANGED publications
  BY <1>3 DEF SignOff
<1>4. ASSUME NEW r \in Reviewers, SetActive(r)
      PROVE  UNCHANGED publications
  BY <1>4 DEF SetActive
<1>5. CASE UNCHANGED vars
  BY <1>5 DEF vars
<1> QED
  BY <1>1, <1>2, <1>3, <1>4, <1>5 DEF Next

\* Approvals and reviews are only ever added, and a version becomes approved
\* only together with an Approval row.
LEMMA RecordsGrow ==
    ASSUME TypeInv, [Next]_vars, NEW o \in Outputs
    PROVE  /\ approvals[o] \subseteq approvals'[o]
           /\ reviews[o] # {} => reviews'[o] # {}
           /\ \A n \in Numbers :
                versions'[o][n] = "approved"
                  => versions[o][n] = "approved" \/ n \in approvals'[o]
<1> DEFINE G ==
      /\ approvals[o] \subseteq approvals'[o]
      /\ reviews[o] # {} => reviews'[o] # {}
      /\ \A n \in Numbers :
           versions'[o][n] = "approved"
             => versions[o][n] = "approved" \/ n \in approvals'[o]
<1>1. ASSUME UNCHANGED <<versions, approvals, reviews>> PROVE G
  BY <1>1
<1>2. ASSUME NEW w \in Operators, NEW q \in Outputs, Loads(w, q)
      PROVE  UNCHANGED <<versions, approvals, reviews>>
  BY <1>2
     DEF Loads, LoadDraft, LoadApprove, LoadPublish, LoadWithdraw,
         LoadDeliver, LoadReview, LoadExport, Load, LoadLive, rows
<1>3. ASSUME NEW w \in Operators, Commits(w) PROVE G
  <2>1. CASE CommitDraft(w)
    <3>1. /\ request[w].output \in Outputs /\ request[w].number \in Numbers
          /\ UNCHANGED <<approvals, reviews>>
      BY <2>1, InFlight DEF CommitDraft, Busy
    <3>2. CASE SetVersion(request[w].output, request[w].number, "draft")
      BY <3>1, <3>2 DEF SetVersion, TypeInv, TypeOK
    <3>3. CASE UNCHANGED versions
      BY <3>1, <3>3
    <3> QED
      BY <2>1, <3>2, <3>3 DEF CommitDraft
  <2>2. CASE CommitApprove(w)
    BY <2>2, InFlight DEF CommitApprove, Busy, SetVersion, TypeInv, TypeOK
  <2>3. CASE CommitPublish(w)
    BY <2>3, InFlight DEF CommitPublish, Busy, SetVersion, TypeInv, TypeOK
  <2>4. CASE CommitDeliver(w)
    BY <2>4, DeliverRow DEF CommitDeliver, RecordDelivery, SetVersion, TypeInv, TypeOK
  <2>5. CASE UNCHANGED <<versions, approvals, reviews>>
    BY <2>5, <1>1
  <2> QED
    BY <1>3, <2>1, <2>2, <2>3, <2>4, <2>5
       DEF Commits, RefusePublish, RetireIncumbents, PublishConflict,
           CommitWithdraw, CommitReview, CommitExport, Render, Send, Abandon,
           rows
<1>4. ASSUME NEW w \in Operators, NEW q \in Outputs, NEW r \in Reviewers,
             SignOff(w, q, r)
      PROVE  G
  BY <1>4 DEF SignOff, TypeInv, TypeOK
<1>5. ASSUME NEW r \in Reviewers, SetActive(r)
      PROVE  UNCHANGED <<versions, approvals, reviews>>
  BY <1>5 DEF SetActive
<1>6. CASE UNCHANGED vars
  BY <1>6 DEF vars
<1> QED
  BY <1>1, <1>2, <1>3, <1>4, <1>5, <1>6 DEF Next

LEMMA InitGate == Init => ApprovalInv /\ ReviewInv /\ OneLivePublication
BY DEF Init, ApprovalInv, ReviewInv, OneLivePublication, Live, NoRequest,
       NoRow

LEMMA NextApprovalInv ==
    ASSUME TypeInv, ApprovalInv, [Next]_vars
    PROVE  ApprovalInv'
<1>1. TypeInv'
  BY NextTypeInv
<1>2. \A o \in Outputs, n \in Numbers :
        versions'[o][n] = "approved" => n \in approvals'[o]
  BY RecordsGrow DEF ApprovalInv
<1>3. ASSUME NEW w \in Operators
      PROVE  /\ request'[w].act \in {"publish", "publishing"}
                /\ request'[w].seen = "approved"
                  => request'[w].number \in approvals'[request'[w].output]
             /\ request'[w].act = "publishing" => request'[w].seen = "approved"
  <2>1. CASE request'[w] = request[w]
    <3>1. request[w].act \in {"publish", "publishing"}
            => request[w].output \in Outputs
      BY InFlight
    <3> QED
      BY <2>1, <3>1, RecordsGrow DEF ApprovalInv
  <2>2. CASE RetireIncumbents(w)
    <3>1. /\ request[w].act = "publish" /\ request[w].seen = "approved"
          /\ request[w].output \in Outputs
      BY <2>2, InFlight DEF RetireIncumbents, Busy, GatePasses
    <3>2. /\ request'[w].number = request[w].number
          /\ request'[w].output = request[w].output
          /\ request'[w].seen = request[w].seen
      <4>1. request[w] \in Request
        BY <3>1, InFlight
      <4> QED
        BY <2>2, <4>1 DEF RetireIncumbents, Request, TypeInv, TypeOK
    <3> QED
      BY <3>1, <3>2, RecordsGrow DEF ApprovalInv
  <2>3. CASE \E o \in Outputs, n \in Numbers,
                a \in {"draft", "approve", "publish", "review", "export"} :
                request'[w] = [act |-> a, output |-> o, number |-> n,
                               seen |-> versions[o][n], pk |-> 0,
                               retired |-> {}]
    BY <2>3, RecordsGrow DEF ApprovalInv
  <2> QED
    BY <2>1, <2>2, <2>3, EveryChange DEF RequestChange
<1>4. ASSUME NEW q \in Pks, publications'[q].status # "none"
      PROVE  publications'[q].number \in approvals'[publications'[q].output]
  <2>1. ASSUME NEW p \in Pks, publications[p].status # "none"
        PROVE  /\ publications[p].output \in Outputs
               /\ publications[p].number \in approvals'[publications[p].output]
    <3>1. publications[p] \in Publication
      BY <2>1 DEF TypeInv, TypeOK, NoRow
    <3> QED
      BY <2>1, <3>1, RecordsGrow DEF ApprovalInv, Publication
  <2>2. CASE UNCHANGED publications
    BY <1>4, <2>1, <2>2
  <2>3. ASSUME NEW w \in Operators, CommitPublish(w)
        PROVE  publications'[q].number \in approvals'[publications'[q].output]
    <3>1. PICK p \in Pks : PublishedAt(w, p)
      BY <2>3, PublishRows
    <3>2. /\ request[w].output \in Outputs
          /\ request[w].number \in approvals'[request[w].output]
      BY <2>3, InFlight, RecordsGrow DEF CommitPublish, Busy, ApprovalInv
    <3>3. CASE q = p
      BY <3>1, <3>2, <3>3 DEF PublishedAt
    <3>4. CASE q # p
      <4>1. publications[q].status # "none"
        BY <1>4, <3>1, <3>4 DEF PublishedAt
      <4> QED
        BY <2>1, <3>1, <3>4, <4>1 DEF PublishedAt
    <3> QED
      BY <3>3, <3>4
  <2>4. ASSUME NEW w \in Operators, CommitWithdraw(w)
        PROVE  publications'[q].number \in approvals'[publications'[q].output]
    <3>1. publications[q].status # "none"
      BY <1>4, <2>4, WithdrawRows DEF Publication, PublicationStatus
    <3> QED
      BY <2>1, <2>4, <3>1, WithdrawRows
  <2> QED
    BY <2>2, <2>3, <2>4, RowsChange DEF RowChange
<1> QED
  BY <1>2, <1>3, <1>4 DEF ApprovalInv

LEMMA NextReviewInv ==
    ASSUME TypeInv, ReviewInv, [Next]_vars
    PROVE  ReviewInv'
<1>1. Reviewed \subseteq Reviewed'
  BY RecordsGrow DEF Reviewed, ReviewSatisfied
<1>2. ASSUME NEW w \in Operators, request'[w].act = "publishing"
      PROVE  request'[w].output \in Reviewed'
  <2>1. CASE request'[w] = request[w]
    BY <1>1, <1>2, <2>1 DEF ReviewInv
  <2>2. CASE RetireIncumbents(w)
    <3>1. /\ request[w] \in Request
          /\ request[w].output \in Reviewed
      BY <2>2, InFlight DEF RetireIncumbents, Busy, GatePasses, Reviewed
    <3>2. request'[w].output = request[w].output
      BY <2>2, <3>1 DEF RetireIncumbents, Request, TypeInv, TypeOK
    <3> QED
      BY <1>1, <3>1, <3>2
  <2>3. CASE \E o \in Outputs, n \in Numbers,
                a \in {"draft", "approve", "publish", "review", "export"} :
                request'[w] = [act |-> a, output |-> o, number |-> n,
                               seen |-> versions[o][n], pk |-> 0,
                               retired |-> {}]
    BY <1>2, <2>3
  <2> QED
    BY <1>2, <2>1, <2>2, <2>3, EveryChange DEF RequestChange
<1>3. ASSUME NEW q \in Pks, publications'[q].status # "none"
      PROVE  publications'[q].output \in Reviewed'
  <2>1. CASE UNCHANGED publications
    BY <1>1, <1>3, <2>1 DEF ReviewInv
  <2>2. ASSUME NEW w \in Operators, CommitPublish(w)
        PROVE  publications'[q].output \in Reviewed'
    <3>1. PICK p \in Pks : PublishedAt(w, p)
      BY <2>2, PublishRows
    <3>2. request[w].output \in Reviewed'
      BY <1>1, <2>2 DEF CommitPublish, Busy, ReviewInv
    <3>3. CASE q = p
      BY <3>1, <3>2, <3>3 DEF PublishedAt
    <3>4. CASE q # p
      <4>1. publications[q].status # "none"
        BY <1>3, <3>1, <3>4 DEF PublishedAt
      <4> QED
        BY <1>1, <3>1, <3>4, <4>1 DEF PublishedAt, ReviewInv
    <3> QED
      BY <3>3, <3>4
  <2>3. ASSUME NEW w \in Operators, CommitWithdraw(w)
        PROVE  publications'[q].output \in Reviewed'
    <3>1. publications[q].status # "none"
      BY <1>3, <2>3, WithdrawRows DEF Publication, PublicationStatus
    <3> QED
      BY <1>1, <2>3, <3>1, WithdrawRows DEF ReviewInv
  <2> QED
    BY <2>1, <2>2, <2>3, RowsChange DEF RowChange
<1> QED
  BY <1>2, <1>3 DEF ReviewInv

\* The unique index at the INSERT is what keeps a second version off show:
\* the incumbents that publish() retires are the only live rows there may be.
LEMMA NextOneLive ==
    ASSUME TypeInv, OneLivePublication, [Next]_vars
    PROVE  OneLivePublication'
<1> SUFFICES ASSUME NEW o \in Outputs, NEW p \in Live(o)', NEW q \in Live(o)'
             PROVE  p = q
  BY DEF OneLivePublication
<1>1. /\ p \in Pks /\ publications'[p].status = "live"
      /\ q \in Pks /\ publications'[q].status = "live"
      /\ publications'[p].output = o /\ publications'[q].output = o
  BY DEF Live
<1>2. CASE UNCHANGED publications
  BY <1>1, <1>2 DEF OneLivePublication, Live
<1>3. ASSUME NEW w \in Operators, CommitPublish(w)
      PROVE  p = q
  <2>1. PICK k \in Pks : PublishedAt(w, k)
    BY <1>3, PublishRows
  <2>2. \A r \in Live(request[w].output) : r \in request[w].retired
    BY <1>3 DEF CommitPublish, IndexAdmits
  <2>3. ASSUME NEW r \in Pks \ {k}, publications'[r].status = "live",
               publications'[r].output = o
        PROVE  r \in Live(o) /\ r \notin request[w].retired
    BY <2>1, <2>3 DEF PublishedAt, Live
  <2>4. CASE o = request[w].output
    BY <1>1, <2>2, <2>3, <2>4
  <2>5. CASE o # request[w].output
    BY <1>1, <2>1, <2>3, <2>5 DEF PublishedAt, OneLivePublication
  <2> QED
    BY <2>4, <2>5
<1>4. ASSUME NEW w \in Operators, CommitWithdraw(w)
      PROVE  p = q
  BY <1>1, <1>4, WithdrawRows DEF OneLivePublication, Live
<1> QED
  BY <1>2, <1>3, <1>4, RowsChange DEF RowChange

----------------------------------------------------------------------------
GateInv == TypeInv /\ ApprovalInv /\ ReviewInv /\ OneLivePublication

LEMMA GateInvariant == Spec => []GateInv
<1>1. Init => GateInv
  BY InitTypeInv, InitGate DEF GateInv
<1>2. GateInv /\ [Next]_vars => GateInv'
  BY NextTypeInv, NextApprovalInv, NextReviewInv, NextOneLive DEF GateInv
<1> QED
  BY <1>1, <1>2, PTL DEF Spec

\* At most one publication of an output is live, whatever requests race.
THEOREM OneLive == Spec => []OneLivePublication
<1>1. GateInv => OneLivePublication
  BY DEF GateInv
<1> QED
  BY <1>1, GateInvariant, PTL

\* Every version that is or was on show had been approved: the stale state
\* that publish() trusts was backed by an Approval row when it was loaded.
THEOREM ApprovedFirst == Spec => []PublishedWasApproved
<1>1. GateInv => PublishedWasApproved
  BY DEF GateInv, ApprovalInv, PublishedWasApproved, EverPublished
<1> QED
  BY <1>1, GateInvariant, PTL

\* No version of a health or scientific type is put on show before an expert
\* has signed the output off.
THEOREM ReviewedFirst == Spec => []ReviewBeforePublication
<1>1. GateInv => ReviewBeforePublication
  BY DEF GateInv, ReviewInv, ReviewBeforePublication, EverPublished, Reviewed,
         ReviewSatisfied
<1> QED
  BY <1>1, GateInvariant, PTL

\* No step of any request puts a publication back that was taken down.
THEOREM StaysDown == Spec => TakenDownStaysDown
<1>1. ASSUME TypeInv, [Next]_vars
      PROVE  [\A p \in Pks : Down(p) => Down(p)']_vars
  <2> SUFFICES ASSUME NEW p \in Pks, Down(p) PROVE Down(p)'
    OBVIOUS
  <2>1. CASE UNCHANGED publications
    BY <2>1 DEF Down
  <2>2. ASSUME NEW w \in Operators, CommitPublish(w) PROVE Down(p)'
    <3>1. PICK k \in Pks : PublishedAt(w, k)
      BY <1>1, <2>2, PublishRows
    <3> QED
      BY <3>1 DEF PublishedAt, Down
  <2>3. ASSUME NEW w \in Operators, CommitWithdraw(w) PROVE Down(p)'
    BY <1>1, <2>3, WithdrawRows DEF Down
  <2> QED
    BY <1>1, <2>1, <2>2, <2>3, RowsChange DEF RowChange
<1>2. GateInv => TypeInv
  BY DEF GateInv
<1> QED
  BY <1>1, <1>2, GateInvariant, PTL DEF Spec, TakenDownStaysDown

----------------------------------------------------------------------------
(* Messages, the tracker and the contract.  What is loaded, retired or sent *)
(* refers to rows, and rows stay.                                          *)

SeenWasShown ==
    /\ \A o \in Outputs, n \in Numbers :
          versions[o][n] = "published" => n \in EverPublished(o)
    /\ \A w \in Operators :
          request[w].act \in {"review", "export"} /\ request[w].seen = "published"
            => request[w].number \in EverPublished(request[w].output)

\* publish() retires rows of its own output.
RetiresItsOwn ==
    \A w \in Operators : request[w].act = "publishing"
      => \A p \in request[w].retired :
            /\ publications[p].status # "none"
            /\ publications[p].output = request[w].output

LEMMA RowsStay ==
    ASSUME TypeInv, [Next]_vars, NEW q \in Pks, publications[q].status # "none"
    PROVE  /\ publications'[q].status # "none"
           /\ publications'[q].output = publications[q].output
           /\ publications'[q].number = publications[q].number
<1>1. ASSUME NEW w \in Operators, CommitPublish(w)
      PROVE  /\ publications'[q].status # "none"
             /\ publications'[q].output = publications[q].output
             /\ publications'[q].number = publications[q].number
  <2>1. PICK p \in Pks : PublishedAt(w, p)
    BY <1>1, PublishRows
  <2>2. q # p
    BY <2>1 DEF PublishedAt
  <2> QED
    BY <2>1, <2>2 DEF PublishedAt
<1>2. ASSUME NEW w \in Operators, CommitWithdraw(w)
      PROVE  /\ publications'[q].status # "none"
             /\ publications'[q].output = publications[q].output
             /\ publications'[q].number = publications[q].number
  BY <1>2, WithdrawRows
<1> QED
  BY <1>1, <1>2, RowsChange DEF RowChange

LEMMA ReleasesStay ==
    ASSUME TypeInv, [Next]_vars, NEW o \in Outputs
    PROVE  EverPublished(o) \subseteq EverPublished(o)'
BY RowsStay DEF EverPublished

\* Only publish() makes a version published, and it adds the row as well.
LEMMA PublishReleases ==
    ASSUME TypeInv, NEW w \in Operators, CommitPublish(w),
           NEW o, o = request[w].output, NEW n, n = request[w].number
    PROVE  o \in Outputs /\ n \in Numbers /\ n \in EverPublished(o)' /\ Live(o)' # {}
<1>1. PICK p \in Pks : PublishedAt(w, p)
  BY PublishRows
<1>2. o \in Outputs /\ n \in Numbers
  BY InFlight DEF CommitPublish, Busy
<1>3. n \in EverPublished(o)'
  BY <1>1 DEF PublishedAt, EverPublished
<1>4. p \in Live(o)'
  BY <1>1 DEF PublishedAt, Live
<1> QED
  BY <1>2, <1>3, <1>4

\* Who writes the states of the versions and of the outputs.
StateChange(o) ==
    \/ /\ outputState'[o] = "published" => outputState[o] = "published"
       /\ \A n \in Numbers : versions'[o][n] = "published" => versions[o][n] = "published"
    \/ \E w \in Operators :
          /\ CommitPublish(w) /\ request[w].output = o
          /\ \A n \in Numbers \ {request[w].number} : versions'[o][n] = versions[o][n]

LEMMA StatesChange ==
    ASSUME TypeInv, [Next]_vars, NEW o \in Outputs PROVE StateChange(o)
<1>1. ASSUME UNCHANGED <<versions, outputState>> PROVE StateChange(o)
  BY <1>1 DEF StateChange
<1>2. ASSUME NEW w \in Operators, NEW q \in Outputs, Loads(w, q)
      PROVE  UNCHANGED <<versions, outputState>>
  BY <1>2
     DEF Loads, LoadDraft, LoadApprove, LoadPublish, LoadWithdraw,
         LoadDeliver, LoadReview, LoadExport, Load, LoadLive, rows
<1>3. ASSUME NEW w \in Operators, Commits(w) PROVE StateChange(o)
  <2> DEFINE q == request[w].output
             m == request[w].number
  <2>1. CASE CommitDraft(w)
    <3>1. q \in Outputs /\ m \in Numbers
      BY <2>1, InFlight DEF CommitDraft, Busy
    <3> QED
      BY <2>1, <3>1 DEF CommitDraft, SetVersion, SetOutput, StateChange, TypeInv, TypeOK
  <2>2. CASE CommitApprove(w)
    <3>1. q \in Outputs /\ m \in Numbers
      BY <2>2, InFlight DEF CommitApprove, Busy
    <3>2. CASE request[w].seen # "published"
      <4>1. /\ outputState' = [outputState EXCEPT ![q] = "approved"]
            /\ versions' = [versions EXCEPT ![q][m] = "approved"]
        BY <2>2, <3>2 DEF CommitApprove, SetVersion, SetOutput
      <4> HIDE DEF q, m
      <4> QED
        BY <3>1, <4>1 DEF StateChange, TypeInv, TypeOK
    <3>3. CASE request[w].seen = "published"
      BY <2>2, <3>3 DEF CommitApprove, StateChange
    <3> QED
      BY <3>2, <3>3
  <2>3. CASE CommitPublish(w)
    <3>1. q \in Outputs /\ m \in Numbers
      BY <2>3, InFlight DEF CommitPublish, Busy
    <3>2. /\ outputState' = [outputState EXCEPT ![q] = "published"]
          /\ versions' = [versions EXCEPT ![q][m] = "published"]
      BY <2>3 DEF CommitPublish, SetVersion, SetOutput
    <3>3. CASE q = o
      BY <2>3, <3>1, <3>2, <3>3 DEF StateChange, TypeInv, TypeOK
    <3>4. CASE q # o
      BY <3>1, <3>2, <3>4 DEF StateChange, TypeInv, TypeOK
    <3> QED
      BY <3>3, <3>4
  <2>4. CASE CommitWithdraw(w)
    BY <2>4, WithdrawRows DEF CommitWithdraw, SetOutput, StateChange, TypeInv, TypeOK,
       Publication
  <2>5. CASE CommitDeliver(w)
    BY <2>5, DeliverRow DEF CommitDeliver, SetVersion, SetOutput, StateChange, TypeInv, TypeOK
  <2>6. CASE UNCHANGED <<versions, outputState>>
    BY <2>6, <1>1
  <2> QED
    BY <1>3, <2>1, <2>2, <2>3, <2>4, <2>5, <2>6
       DEF Commits, RefusePublish, RetireIncumbents, PublishConflict,
           CommitReview, CommitExport, Render, Send, Abandon, rows
<1>4. ASSUME NEW w \in Operators, NEW q \in Outputs, NEW r \in Reviewers, SignOff(w, q, r)
      PROVE  UNCHANGED <<versions, outputState>>
  BY <1>4 DEF SignOff
<1>5. ASSUME NEW r \in Reviewers, SetActive(r)
      PROVE  UNCHANGED <<versions, outputState>>
  BY <1>5 DEF SetActive
<1>6. CASE UNCHANGED vars
  BY <1>6, <1>1 DEF vars
<1> QED
  BY <1>1, <1>2, <1>3, <1>4, <1>5, <1>6 DEF Next

LEMMA NextSeenWasShown ==
    ASSUME TypeInv, SeenWasShown, [Next]_vars PROVE SeenWasShown'
<1>1. ASSUME NEW o \in Outputs, NEW n \in Numbers, versions'[o][n] = "published"
      PROVE  n \in EverPublished(o)'
  <2>1. CASE versions[o][n] = "published"
    BY <2>1, ReleasesStay DEF SeenWasShown
  <2>2. CASE versions[o][n] # "published"
    <3>1. PICK w \in Operators : /\ CommitPublish(w) /\ request[w].output = o
                                /\ request[w].number = n
      BY <1>1, <2>2, StatesChange DEF StateChange
    <3> QED
      BY <3>1, PublishReleases
  <2> QED
    BY <2>1, <2>2
<1>2. ASSUME NEW w \in Operators, request'[w].act \in {"review", "export"},
             request'[w].seen = "published"
      PROVE  \A o : o = request'[w].output => request'[w].number \in EverPublished(o)'
  <2>1. CASE request'[w] = request[w]
    <3>1. request[w].output \in Outputs
      BY <1>2, <2>1, InFlight
    <3>2. request[w].number \in EverPublished(request[w].output)
      BY <1>2, <2>1 DEF SeenWasShown
    <3> QED
      BY <2>1, <3>1, <3>2, ReleasesStay
  <2>2. CASE \E o \in Outputs, n \in Numbers,
                a \in {"draft", "approve", "publish", "review", "export"} :
                request'[w] = [act |-> a, output |-> o, number |-> n,
                               seen |-> versions[o][n], pk |-> 0, retired |-> {}]
    BY <1>2, <2>2, ReleasesStay DEF SeenWasShown
  <2>3. CASE RetireIncumbents(w)
    BY <1>2, <2>3, InFlight DEF RetireIncumbents, TypeInv, TypeOK, Request, Busy
  <2> QED
    BY <1>2, <2>1, <2>2, <2>3, EveryChange DEF RequestChange
<1>3. ASSUME NEW w \in Operators, request'[w].act \in {"review", "export"},
             request'[w].seen = "published"
      PROVE  request'[w].number \in EverPublished(request[w].output)'
  BY <1>2, <1>3 DEF EverPublished
<1> QED
  BY <1>1, <1>3 DEF SeenWasShown

LEMMA NextRetiresItsOwn ==
    ASSUME TypeInv, RetiresItsOwn, [Next]_vars PROVE RetiresItsOwn'
<1> SUFFICES ASSUME NEW w \in Operators, request'[w].act = "publishing",
                    NEW p \in request'[w].retired
             PROVE  /\ publications'[p].status # "none"
                    /\ publications'[p].output = request'[w].output
  BY DEF RetiresItsOwn
<1>1. CASE request'[w] = request[w]
  <2>1. p \in Pks
    BY <1>1, InFlight DEF Request
  <2> QED
    BY <1>1, <2>1, RowsStay DEF RetiresItsOwn
<1>2. CASE \E o \in Outputs, n \in Numbers,
              a \in {"draft", "approve", "publish", "review", "export"} :
              request'[w] = [act |-> a, output |-> o, number |-> n,
                             seen |-> versions[o][n], pk |-> 0, retired |-> {}]
  BY <1>2
<1>3. CASE RetireIncumbents(w)
  <2>1. request[w] \in Request
    BY <1>3, InFlight DEF RetireIncumbents, Busy
  <2>2. /\ request'[w].retired = Live(request[w].output)
        /\ request'[w].output = request[w].output
    BY <1>3, <2>1 DEF RetireIncumbents, TypeInv, TypeOK, Request
  <2> QED
    BY <2>2, RowsStay DEF Live
<1> QED
  BY <1>1, <1>2, <1>3, EveryChange DEF RequestChange

LEMMA DownStays ==
    ASSUME TypeInv, [Next]_vars, NEW p \in Pks, Down(p) PROVE Down(p)'
<1>1. CASE UNCHANGED publications
  BY <1>1 DEF Down
<1>2. ASSUME NEW w \in Operators, CommitPublish(w) PROVE Down(p)'
  <2>1. PICK k \in Pks : PublishedAt(w, k)
    BY <1>2, PublishRows
  <2> QED
    BY <2>1 DEF PublishedAt, Down
<1>3. ASSUME NEW w \in Operators, CommitWithdraw(w) PROVE Down(p)'
  BY <1>3, WithdrawRows DEF Down
<1> QED
  BY <1>1, <1>2, <1>3, RowsChange DEF RowChange

LEMMA DeliveriesStay == [Next]_vars => deliveries \subseteq deliveries'
<1> SUFFICES ASSUME [Next]_vars PROVE deliveries \subseteq deliveries'
  OBVIOUS
<1>1. ASSUME NEW w \in Operators, NEW o \in Outputs, Loads(w, o)
      PROVE  UNCHANGED deliveries
  BY <1>1
     DEF Loads, LoadDraft, LoadApprove, LoadPublish, LoadWithdraw,
         LoadDeliver, LoadReview, LoadExport, Load, LoadLive, rows
<1>2. ASSUME NEW w \in Operators, Commits(w)
      PROVE  deliveries \subseteq deliveries'
  BY <1>2
     DEF Commits, CommitDraft, CommitApprove, CommitPublish, CommitWithdraw, RefusePublish,
         RetireIncumbents, PublishConflict, CommitDeliver, RecordDelivery, CommitReview,
         CommitExport, Render, Send, Abandon, rows
<1> QED
  BY <1>1, <1>2 DEF Next, SignOff, SetActive, vars

LEMMA NextMail ==
    ASSUME TypeInv, MailFollowsCommit, [Next]_vars PROVE MailFollowsCommit'
<1> SUFFICES ASSUME NEW w \in Operators
             PROVE  /\ request'[w].act = "published copy" => request'[w].pk \in deliveries'
                    /\ request'[w].act = "withdrawal"
                         => publications'[request'[w].pk].status \in {"superseded", "withdrawn"}
  BY DEF MailFollowsCommit, Busy, Down
<1>1. CASE request'[w] = request[w]
  BY <1>1, DeliveriesStay, DownStays DEF MailFollowsCommit, Busy, TypeInv, LoadedRowExists, Down
<1>2. CASE RetireIncumbents(w)
  BY <1>2, InFlight DEF RetireIncumbents, TypeInv, TypeOK, Request, Busy
<1>3. CASE /\ CommitWithdraw(w) /\ request'[w].act = "withdrawal"
           /\ request'[w].pk = request[w].pk
  BY <1>3, WithdrawRows DEF Down
<1>4. CASE /\ CommitDeliver(w) /\ request'[w].act = "published copy"
           /\ request'[w].pk = request[w].pk
  BY <1>4 DEF CommitDeliver, RecordDelivery
<1>5. CASE \E o \in Outputs, n \in Numbers,
              a \in {"draft", "approve", "publish", "review", "export"} :
              request'[w] = [act |-> a, output |-> o, number |-> n,
                             seen |-> versions[o][n], pk |-> 0, retired |-> {}]
  <2>1. request'[w].act \in {"draft", "approve", "publish", "review", "export"}
    BY <1>5
  <2> QED
    BY <2>1
<1>6. CASE request'[w].act \in {"idle", "review copy", "withdraw", "deliver"}
  BY <1>6
<1>7. RequestChange(w)
  BY EveryChange
<1> QED
  BY <1>1, <1>2, <1>3, <1>4, <1>5, <1>6, <1>7 DEF RequestChange

\* What publish() puts on show stays there until publish() or unpublish()
\* writes the same output's state again.
LEMMA NextTracker ==
    ASSUME TypeInv, RetiresItsOwn, TrackerPublishedIsShown, [Next]_vars
    PROVE  TrackerPublishedIsShown'
<1> SUFFICES ASSUME NEW o \in Outputs, outputState'[o] = "published"
             PROVE  Live(o)' # {}
  BY DEF TrackerPublishedIsShown
<1>1. CASE \E w \in Operators : CommitPublish(w) /\ request[w].output = o
  BY <1>1, PublishReleases
<1>2. CASE ~ \E w \in Operators : CommitPublish(w) /\ request[w].output = o
  <2>1. PICK p \in Live(o) : TRUE
    BY <1>2, StatesChange DEF StateChange, TrackerPublishedIsShown
  <2>2. p \in Pks /\ publications[p].status = "live" /\ publications[p].output = o
    BY <2>1 DEF Live
  <2>3. ASSUME NEW w \in Operators, CommitPublish(w) PROVE p \in Live(o)'
    <3>1. PICK k \in Pks : PublishedAt(w, k)
      BY <2>3, PublishRows
    <3>2. p \notin request[w].retired
      BY <1>2, <2>2, <2>3 DEF RetiresItsOwn, CommitPublish, Busy
    <3>3. p # k
      BY <2>2, <3>1 DEF PublishedAt
    <3> QED
      BY <2>2, <3>1, <3>2, <3>3 DEF PublishedAt, Live
  <2>4. ASSUME NEW w \in Operators, CommitWithdraw(w) PROVE p \in Live(o)'
    <3>1. request[w].pk # p
      BY <2>2, <2>4 DEF CommitWithdraw, SetOutput, TypeInv, TypeOK
    <3> QED
      BY <2>2, <2>4, <3>1, WithdrawRows DEF Live
  <2>5. p \in Live(o)'
    BY <2>2, <2>3, <2>4, RowsChange DEF RowChange, Live
  <2> QED
    BY <2>5
<1> QED
  BY <1>1, <1>2

TrackerInv ==
    GateInv /\ SeenWasShown /\ RetiresItsOwn /\ MailFollowsCommit /\ TrackerPublishedIsShown

LEMMA TrackerInvariant == Spec => []TrackerInv
<1>1. Init => TrackerInv
  <2> SUFFICES ASSUME Init PROVE TrackerInv
    OBVIOUS
  <2>1. GateInv
    BY InitTypeInv, InitGate DEF GateInv
  <2>2. SeenWasShown /\ RetiresItsOwn /\ MailFollowsCommit /\ TrackerPublishedIsShown
    BY DEF Init, SeenWasShown, RetiresItsOwn, MailFollowsCommit, TrackerPublishedIsShown,
           Busy, NoRequest
  <2> QED
    BY <2>1, <2>2 DEF TrackerInv
<1>2. TrackerInv /\ [Next]_vars => TrackerInv'
  BY NextTypeInv, NextApprovalInv, NextReviewInv, NextOneLive, NextSeenWasShown,
     NextRetiresItsOwn, NextMail, NextTracker DEF TrackerInv, GateInv
<1> QED
  BY <1>1, <1>2, PTL DEF Spec

\* An email goes out for what is committed: a published copy for a Delivery
\* row, a withdrawal notice for a publication that is down.
THEOREM MailAfterCommit == Spec => []MailFollowsCommit
<1>1. TrackerInv => MailFollowsCommit
  BY DEF TrackerInv
<1> QED
  BY <1>1, TrackerInvariant, PTL

\* The tracker never reads "published" of an output with nothing on show.
THEOREM TrackerIsRight == Spec => []TrackerPublishedIsShown
<1>1. TrackerInv => TrackerPublishedIsShown
  BY DEF TrackerInv
<1> QED
  BY <1>1, TrackerInvariant, PTL

----------------------------------------------------------------------------
(* The refinement: each step is one of the contract's, or none.            *)

LEMMA NothingShown ==
    ASSUME UNCHANGED <<approvals, reviews, publications, artifact>>
    PROVE  UNCHANGED Contract!contract
BY DEF Contract!contract, LiveNumbers, Live, EverPublished

LEMMA SameRowsShow ==
    ASSUME UNCHANGED publications, NEW o
    PROVE  LiveNumbers(o)' = LiveNumbers(o) /\ EverPublished(o)' = EverPublished(o)
BY DEF LiveNumbers, Live, EverPublished

LEMMA ApproveShown ==
    ASSUME TypeInv, NEW w \in Operators, CommitApprove(w)
    PROVE  Contract!Next \/ UNCHANGED Contract!contract
<1> DEFINE o == request[w].output
           n == request[w].number
<1>1. o \in Outputs /\ n \in Numbers
  BY InFlight DEF CommitApprove, Busy
<1>2. CASE request[w].seen # "published"
  <2>1. /\ approvals' = [approvals EXCEPT ![o] = @ \union {n}]
        /\ UNCHANGED <<reviews, publications, artifact>>
    BY <1>2 DEF CommitApprove
  <2>2. Contract!Approve(o, n)
    <3> HIDE DEF o, n
    <3> QED
      BY <2>1, SameRowsShow DEF Contract!Approve
  <2> QED
    BY <1>1, <2>2 DEF Contract!Next
<1>3. CASE request[w].seen = "published"
  BY <1>3, NothingShown DEF CommitApprove
<1> QED
  BY <1>2, <1>3

\* publish(): the version comes on show in place of the one there was.
LEMMA PublishShown ==
    ASSUME TypeInv, ApprovalInv, ReviewInv, RetiresItsOwn, NEW w \in Operators,
           CommitPublish(w)
    PROVE  Contract!Next
<1>a. PICK gone : gone = request[w].retired
  OBVIOUS
<1>b. PICK o \in Outputs, n \in Numbers : o = request[w].output /\ n = request[w].number
  BY InFlight DEF CommitPublish, Busy
<1>0. o = request[w].output /\ n = request[w].number /\ gone = request[w].retired
  BY <1>a, <1>b
<1>1. n \in approvals[o] /\ o \in Reviewed
  BY <1>0 DEF CommitPublish, Busy, ApprovalInv, ReviewInv
<1>2. PICK p \in Pks : PublishedAt(w, p)
  BY PublishRows
<1>3. Live(o) \subseteq gone /\ \A q \in gone : publications[q].output = o
  BY <1>0 DEF CommitPublish, IndexAdmits, Busy, RetiresItsOwn
<1>4. /\ publications[p].status = "none"
      /\ publications'[p] = [status |-> "live", output |-> o, number |-> n]
      /\ \A q \in Pks \ {p} :
            /\ publications'[q].output = publications[q].output
            /\ publications'[q].number = publications[q].number
            /\ publications'[q].status =
                 IF q \in gone /\ publications[q].status = "live"
                 THEN "superseded" ELSE publications[q].status
  BY <1>0, <1>2 DEF PublishedAt
<1>5. UNCHANGED <<approvals, reviews, artifact>>
  BY DEF CommitPublish
<1>6. LiveNumbers(o)' = {n} /\ EverPublished(o)' = EverPublished(o) \union {n}
  <2>1. Live(o)' = {p}
    BY <1>3, <1>4 DEF Live
  <2>2. {q \in Pks : publications'[q].status # "none" /\ publications'[q].output = o}
          = {q \in Pks : publications[q].status # "none" /\ publications[q].output = o} \union {p}
    BY <1>4
  <2> QED
    BY <1>4, <2>1, <2>2 DEF LiveNumbers, EverPublished
<1>7. ASSUME NEW r \in Outputs, r # o
      PROVE  LiveNumbers(r)' = LiveNumbers(r) /\ EverPublished(r)' = EverPublished(r)
  <2>1. Live(r)' = Live(r) /\ p \notin Live(r)
    BY <1>3, <1>4, <1>7 DEF Live
  <2>2. {q \in Pks : publications'[q].status # "none" /\ publications'[q].output = r}
          = {q \in Pks : publications[q].status # "none" /\ publications[q].output = r}
    BY <1>4, <1>7
  <2>3. \A q \in Pks : publications[q].status # "none" => publications'[q].number = publications[q].number
    BY <1>4
  <2>4. LiveNumbers(r)' = LiveNumbers(r)
    BY <2>1, <2>3 DEF LiveNumbers, Live
  <2> QED
    BY <2>2, <2>3, <2>4 DEF EverPublished
<1>8. Contract!Show(o, n)
  <2>1. o \in ExpertOutputs => reviews[o] # {}
    BY <1>1 DEF Reviewed, ReviewSatisfied
  <2>2. [q \in Outputs |-> LiveNumbers(q)]' = [[q \in Outputs |-> LiveNumbers(q)] EXCEPT ![o] = {n}]
    BY <1>1, <1>6, <1>7
  <2>3. [q \in Outputs |-> EverPublished(q)]'
          = [[q \in Outputs |-> EverPublished(q)] EXCEPT ![o] = @ \union {n}]
    BY <1>1, <1>6, <1>7
  <2> QED
    BY <1>1, <1>5, <2>1, <2>2, <2>3 DEF Contract!Show
<1> QED
  BY <1>1, <1>8 DEF Contract!Next

\* unpublish(): what is on show goes, or what was down has been taken down
\* again.
LEMMA WithdrawShown ==
    ASSUME TypeInv, OneLivePublication, NEW w \in Operators, CommitWithdraw(w)
    PROVE  Contract!Next \/ UNCHANGED Contract!contract
<1>0. PICK p \in Pks, o \in Outputs : p = request[w].pk /\ o = publications[p].output
  BY WithdrawRows DEF Publication
<1>1. /\ publications[p].status # "none" /\ publications'[p].status = "withdrawn"
      /\ \A q \in Pks :
           /\ publications'[q].output = publications[q].output
           /\ publications'[q].number = publications[q].number
           /\ q # p => publications'[q] = publications[q]
  BY <1>0, WithdrawRows DEF Publication, PublicationStatus
<1>2. UNCHANGED <<approvals, reviews, artifact>>
  BY DEF CommitWithdraw
<1>3. ASSUME NEW r \in Outputs PROVE EverPublished(r)' = EverPublished(r)
  <2>1. {q \in Pks : publications'[q].status # "none" /\ publications'[q].output = r}
          = {q \in Pks : publications[q].status # "none" /\ publications[q].output = r}
    BY <1>1
  <2> QED
    BY <1>1, <2>1 DEF EverPublished
<1>4. ASSUME NEW r \in Outputs, p \notin Live(r)
      PROVE  LiveNumbers(r)' = LiveNumbers(r)
  <2>1. Live(r)' = Live(r)
    BY <1>1, <1>4 DEF Live
  <2> QED
    BY <1>1, <2>1 DEF LiveNumbers, Live
<1>5. CASE publications[p].status = "live"
  <2>1. Live(o) = {p} /\ Live(o)' = {}
    BY <1>0, <1>1, <1>5 DEF OneLivePublication, Live
  <2>2. LiveNumbers(o)' = {}
    BY <2>1 DEF LiveNumbers
  <2>3. \A r \in Outputs : r # o => p \notin Live(r)
    BY <1>0 DEF Live
  <2>4. [q \in Outputs |-> LiveNumbers(q)]' = [[q \in Outputs |-> LiveNumbers(q)] EXCEPT ![o] = {}]
    BY <1>1, <1>4, <2>2, <2>3
  <2>5. Contract!TakeDown(o)
    BY <1>2, <1>3, <2>4 DEF Contract!TakeDown
  <2> QED
    BY <1>1, <2>5 DEF Contract!Next
<1>6. CASE publications[p].status # "live"
  <2>1. \A r \in Outputs : p \notin Live(r)
    BY <1>6 DEF Live
  <2> QED
    BY <1>2, <1>3, <1>4, <2>1 DEF Contract!contract
<1> QED
  BY <1>5, <1>6

\* A file without the watermark is of a version that is or was on show.
LEMMA FileShown ==
    ASSUME UNCHANGED <<approvals, reviews, publications>>,
           NEW o \in Outputs, NEW n \in Numbers, NEW draft \in BOOLEAN, NEW live,
           artifact' = [output |-> o, number |-> n, draft |-> draft, live |-> live],
           draft \/ n \in EverPublished(o)
    PROVE  Contract!Next
<1>1. Contract!Render(o, n, draft)
  BY SameRowsShow DEF Contract!Render
<1> QED
  BY <1>1 DEF Contract!Next

LEMMA DeliverShown ==
    ASSUME TypeInv, NEW w \in Operators, CommitDeliver(w)
    PROVE  Contract!Next
<1> DEFINE p == request[w].pk
           o == publications[p].output
           n == publications[p].number
<1>1. p \in Pks /\ o \in Outputs /\ n \in Numbers /\ publications[p].status # "none"
  BY DeliverRow DEF CommitDeliver, Busy, TypeInv, LoadedRowExists
<1>2. n \in EverPublished(o)
  BY <1>1 DEF EverPublished
<1>3. /\ UNCHANGED <<approvals, reviews, publications>>
      /\ artifact' = [output |-> o, number |-> n, draft |-> FALSE,
                      live |-> n \in LiveNumbers(o)]
  BY DEF CommitDeliver, RecordDelivery
<1> HIDE DEF o, n
<1> QED
  BY <1>1, <1>2, <1>3, FileShown

LEMMA RenderShown ==
    ASSUME TypeInv, SeenWasShown, NEW w \in Operators, Render(w),
           request[w].act \in {"review", "export"}
    PROVE  Contract!Next
<1> DEFINE o == request[w].output
           n == request[w].number
           draft == Watermarked(request[w].seen)
<1>1. o \in Outputs /\ n \in Numbers /\ draft \in BOOLEAN
  BY InFlight DEF Watermarked
<1>2. draft \/ n \in EverPublished(o)
  BY DEF SeenWasShown, Watermarked
<1>3. /\ UNCHANGED <<approvals, reviews, publications>>
      /\ artifact' = [output |-> o, number |-> n, draft |-> draft,
                      live |-> n \in LiveNumbers(o)]
  BY DEF Render
<1> HIDE DEF o, n, draft
<1> QED
  BY <1>1, <1>2, <1>3, FileShown

LEMMA SignOffShown ==
    ASSUME TypeInv, NEW w \in Operators, NEW o \in Outputs, NEW r \in Reviewers,
           SignOff(w, o, r)
    PROVE  Contract!Next
<1>1. /\ UNCHANGED <<approvals, publications, artifact>>
      /\ reviews'[o] # {} /\ \A q \in Outputs : q # o => reviews'[q] = reviews[q]
  BY DEF SignOff, TypeInv, TypeOK
<1>2. [q \in Outputs |-> reviews[q] # {}]' = [[q \in Outputs |-> reviews[q] # {}] EXCEPT ![o] = TRUE]
  BY <1>1
<1>3. Contract!Review(o)
  BY <1>1, <1>2, SameRowsShow DEF Contract!Review
<1> QED
  BY <1>3 DEF Contract!Next

LEMMA StepMeetsContract ==
    ASSUME TrackerInv, [Next]_vars
    PROVE  Contract!Next \/ UNCHANGED Contract!contract
<1> USE DEF TrackerInv, GateInv
<1>1. ASSUME NEW w \in Operators, NEW o \in Outputs, Loads(w, o)
      PROVE  UNCHANGED <<approvals, reviews, publications, artifact>>
  BY <1>1
     DEF Loads, LoadDraft, LoadApprove, LoadPublish, LoadWithdraw,
         LoadDeliver, LoadReview, LoadExport, Load, LoadLive, rows
<1>2. ASSUME NEW w \in Operators, Commits(w)
      PROVE  Contract!Next \/ UNCHANGED Contract!contract
  <2>1. CASE CommitReview(w) \/ CommitExport(w)
    BY <2>1, RenderShown DEF CommitReview, CommitExport, Busy
  <2>2. CASE UNCHANGED <<approvals, reviews, publications, artifact>>
    BY <2>2, NothingShown
  <2> QED
    BY <1>2, <2>1, <2>2, ApproveShown, PublishShown, WithdrawShown, DeliverShown
       DEF Commits, CommitDraft, RefusePublish, RetireIncumbents, PublishConflict, Send,
           Abandon, rows
<1>3. ASSUME NEW r \in Reviewers, SetActive(r)
      PROVE  UNCHANGED <<approvals, reviews, publications, artifact>>
  BY <1>3 DEF SetActive
<1>4. CASE UNCHANGED vars
  BY <1>4, NothingShown DEF vars
<1> QED
  BY <1>1, <1>2, <1>3, <1>4, NothingShown, SignOffShown DEF Next

\* Whatever requests race, what the client's side sees is a behaviour of the
\* contract: one approved and, where it must be, reviewed version at a time,
\* and no unmarked file of a version that was never on show.
THEOREM GateMeetsContract == Spec => MeetsContract
<1>1. Init => Contract!Init
  <2> SUFFICES ASSUME Init PROVE Contract!Init
    OBVIOUS
  <2>1. \A o \in Outputs : LiveNumbers(o) = {} /\ EverPublished(o) = {}
    BY DEF Init, LiveNumbers, Live, EverPublished, NoRow
  <2>2. [o \in Outputs |-> reviews[o] # {}] = [o \in Outputs |-> FALSE]
    BY DEF Init
  <2>3. artifact.draft
    BY DEF Init, NoArtifact
  <2> QED
    BY <2>1, <2>2, <2>3 DEF Init, Contract!Init
<1>2. TrackerInv /\ [Next]_vars => [Contract!Next]_(Contract!contract)
  BY StepMeetsContract
<1> QED
  BY <1>1, <1>2, TrackerInvariant, PTL DEF Spec, MeetsContract, Contract!Spec

----------------------------------------------------------------------------
(* What the two findings about delivery and the watermark rest on.         *)

\* Delivering and withdrawing work on a row of the output they were asked for.
HoldsItsOwn ==
    \A w \in Operators : request[w].act \in {"withdraw", "deliver"}
      => publications[request[w].pk].output = request[w].output

\* While a delivery is rendered nobody is about to take its output down, by
\* withdrawing it or by publishing another version over it.
DeliveriesUndisturbed ==
    \A v, w \in Operators :
        Busy(w, "deliver") /\ request[v].act \in {"withdraw", "publishing"}
          => request[v].output # request[w].output

DeliveringLive ==
    \A w \in Operators : Busy(w, "deliver") => publications[request[w].pk].status = "live"

LEMMA NextHoldsItsOwn ==
    ASSUME TypeInv, HoldsItsOwn, [Next]_vars PROVE HoldsItsOwn'
<1> SUFFICES ASSUME NEW w \in Operators, request'[w].act \in {"withdraw", "deliver"}
             PROVE  publications'[request'[w].pk].output = request'[w].output
  BY DEF HoldsItsOwn
<1>1. CASE request'[w] = request[w]
  BY <1>1, RowsStay DEF HoldsItsOwn, TypeInv, LoadedRowExists
<1>2. CASE \E o \in Outputs : LoadLive(w, request'[w].act, o)
  <2>1. PICK o \in Outputs : \E p \in Live(o) :
            request'[w].pk = p /\ request'[w].output = o /\ UNCHANGED publications
    BY <1>2 DEF LoadLive, rows, TypeInv, TypeOK
  <2> QED
    BY <2>1 DEF Live
<1>3. CASE RetireIncumbents(w)
  BY <1>3, InFlight DEF RetireIncumbents, TypeInv, TypeOK, Request, Busy
<1>4. ASSUME NEW o \in Outputs, NEW n \in Numbers,
             NEW a \in {"draft", "approve", "publish", "review", "export"},
             request'[w] = [act |-> a, output |-> o, number |-> n,
                            seen |-> versions[o][n], pk |-> 0, retired |-> {}]
      PROVE  FALSE
  <2>1. request'[w].act = a
    BY <1>4
  <2> QED
    BY <2>1
<1>5. RequestChange(w)
  BY EveryChange
<1> QED
  BY <1>1, <1>2, <1>3, <1>4, <1>5 DEF RequestChange

LEMMA NextDeliveringLive ==
    ASSUME TypeInv, RetiresItsOwn, HoldsItsOwn, DeliveriesUndisturbed, DeliveringLive,
           [Next]_vars
    PROVE  DeliveringLive'
<1> SUFFICES ASSUME NEW w \in Operators, request'[w].act = "deliver"
             PROVE  publications'[request'[w].pk].status = "live"
  BY DEF DeliveringLive, Busy
<1>1. CASE request'[w] = request[w]
  <2> DEFINE p == request[w].pk
  <2>1. /\ p \in Pks /\ publications[p].status = "live"
        /\ publications[p].output = request[w].output
    BY <1>1 DEF DeliveringLive, HoldsItsOwn, Busy, TypeInv, LoadedRowExists
  <2>2. ASSUME NEW v \in Operators, CommitPublish(v) PROVE publications'[p].status = "live"
    <3>1. PICK k \in Pks : PublishedAt(v, k)
      BY <2>2, PublishRows
    <3>2. request[v].output # request[w].output
      BY <1>1, <2>2 DEF CommitPublish, Busy, DeliveriesUndisturbed
    <3>3. p \notin request[v].retired
      BY <2>1, <2>2, <3>2 DEF RetiresItsOwn, CommitPublish, Busy
    <3>4. p # k
      BY <2>1, <3>1 DEF PublishedAt
    <3> QED
      BY <2>1, <3>1, <3>3, <3>4 DEF PublishedAt
  <2>3. ASSUME NEW v \in Operators, CommitWithdraw(v) PROVE publications'[p].status = "live"
    <3>1. request[v].output # request[w].output
      BY <1>1, <2>3 DEF CommitWithdraw, Busy, DeliveriesUndisturbed
    <3>2. request[v].pk # p
      BY <2>1, <2>3, <3>1 DEF CommitWithdraw, Busy, HoldsItsOwn
    <3> QED
      BY <2>1, <2>3, <3>2, WithdrawRows
  <2> QED
    BY <1>1, <2>1, <2>2, <2>3, RowsChange DEF RowChange
<1>2. CASE \E o \in Outputs : LoadLive(w, request'[w].act, o)
  <2>1. PICK o \in Outputs : \E p \in Live(o) :
            request'[w].pk = p /\ UNCHANGED publications
    BY <1>2 DEF LoadLive, rows, TypeInv, TypeOK
  <2> QED
    BY <2>1 DEF Live
<1>3. CASE RetireIncumbents(w)
  BY <1>3, InFlight DEF RetireIncumbents, TypeInv, TypeOK, Request, Busy
<1>4. ASSUME NEW o \in Outputs, NEW n \in Numbers,
             NEW a \in {"draft", "approve", "publish", "review", "export"},
             request'[w] = [act |-> a, output |-> o, number |-> n,
                            seen |-> versions[o][n], pk |-> 0, retired |-> {}]
      PROVE  FALSE
  <2>1. request'[w].act = a
    BY <1>4
  <2> QED
    BY <2>1
<1>5. RequestChange(w)
  BY EveryChange
<1> QED
  BY <1>1, <1>2, <1>3, <1>4, <1>5 DEF RequestChange

LEMMA OnlyDeliverRecords ==
    ASSUME [Next]_vars, NEW p \in Pks, p \in deliveries', p \notin deliveries
    PROVE  \E w \in Operators : CommitDeliver(w) /\ request[w].pk = p
<1>1. ASSUME NEW w \in Operators, NEW o \in Outputs, Loads(w, o)
      PROVE  UNCHANGED deliveries
  BY <1>1
     DEF Loads, LoadDraft, LoadApprove, LoadPublish, LoadWithdraw,
         LoadDeliver, LoadReview, LoadExport, Load, LoadLive, rows
<1>2. ASSUME NEW w \in Operators, Commits(w), ~CommitDeliver(w)
      PROVE  UNCHANGED deliveries
  BY <1>2
     DEF Commits, CommitDraft, CommitApprove, CommitPublish, CommitWithdraw, RefusePublish,
         RetireIncumbents, PublishConflict, CommitReview,
         CommitExport, Render, Send, Abandon, rows
<1>3. PICK w \in Operators : CommitDeliver(w)
  BY <1>1, <1>2 DEF Next, SignOff, SetActive, vars
<1> QED
  BY <1>3 DEF CommitDeliver, RecordDelivery

\* "DELIVERY REQUIRES A LIVE PUBLICATION" holds of every behaviour in which no
\* request takes an output down while another is rendering its delivery: that
\* overlap, and nothing else a request can do, breaks it.
THEOREM UndisturbedDeliveryIsOfLive ==
    Spec /\ []DeliveriesUndisturbed => DeliveryIsOfLive
<1>1. Init => HoldsItsOwn /\ DeliveringLive
  BY DEF Init, HoldsItsOwn, DeliveringLive, Busy, NoRequest
<1>2. TrackerInv => TypeInv /\ RetiresItsOwn
  BY DEF TrackerInv, GateInv
<1>3. TrackerInv /\ HoldsItsOwn /\ DeliveringLive /\ DeliveriesUndisturbed /\ [Next]_vars
        => HoldsItsOwn' /\ DeliveringLive'
  BY <1>2, NextHoldsItsOwn, NextDeliveringLive
<1>4. DeliveringLive /\ [Next]_vars
        => [\A p \in Pks : p \in deliveries' \ deliveries => publications[p].status = "live"]_vars
  BY OnlyDeliverRecords DEF DeliveringLive, CommitDeliver
<1> QED
  BY <1>1, <1>3, <1>4, TrackerInvariant, PTL DEF Spec, DeliveryIsOfLive

\* Nothing is taken down: no withdrawal, and no version published over another.
NothingDown == \A p \in Pks : ~Down(p)

LEMMA ShownIsLive ==
    ASSUME TypeInv, NothingDown, NEW o PROVE EverPublished(o) = LiveNumbers(o)
<1>1. \A p \in Pks : publications[p].status # "none" <=> publications[p].status = "live"
  <2> SUFFICES ASSUME NEW p \in Pks
               PROVE  publications[p].status # "none" <=> publications[p].status = "live"
    OBVIOUS
  <2>1. publications[p] \in Publication \union {NoRow}
    BY DEF TypeInv, TypeOK
  <2>2. publications[p].status \in PublicationStatus
    BY <2>1 DEF Publication, NoRow, PublicationStatus
  <2> QED
    BY <2>2 DEF NothingDown, Down, PublicationStatus
<1> QED
  BY <1>1 DEF EverPublished, LiveNumbers, Live

LEMMA NextFileIsMarked ==
    ASSUME TypeInv, SeenWasShown, NothingDown, UnpublishedFileIsMarked, [Next]_vars
    PROVE  UnpublishedFileIsMarked'
<1>a. artifact' = artifact => UnpublishedFileIsMarked'
  BY DEF UnpublishedFileIsMarked
<1>1. ASSUME NEW w \in Operators, NEW o \in Outputs, Loads(w, o)
      PROVE  UNCHANGED artifact
  BY <1>1
     DEF Loads, LoadDraft, LoadApprove, LoadPublish, LoadWithdraw,
         LoadDeliver, LoadReview, LoadExport, Load, LoadLive, rows
<1>2. ASSUME NEW w \in Operators, CommitDeliver(w) PROVE UnpublishedFileIsMarked'
  <2> DEFINE p == request[w].pk
             o == publications[p].output
             n == publications[p].number
  <2>1. p \in Pks /\ publications[p].status # "none"
    BY <1>2 DEF CommitDeliver, Busy, TypeInv, LoadedRowExists
  <2>2. n \in EverPublished(o)
    BY <2>1 DEF EverPublished
  <2>3. n \in LiveNumbers(o)
    BY <2>2, ShownIsLive
  <2>4. artifact' = [output |-> o, number |-> n, draft |-> FALSE, live |-> n \in LiveNumbers(o)]
    BY <1>2 DEF CommitDeliver
  <2> HIDE DEF o, n
  <2> QED
    BY <2>3, <2>4 DEF UnpublishedFileIsMarked
<1>3. ASSUME NEW w \in Operators, CommitReview(w) \/ CommitExport(w)
      PROVE  UnpublishedFileIsMarked'
  <2> DEFINE o == request[w].output
             n == request[w].number
  <2>1. /\ artifact' = [output |-> o, number |-> n, draft |-> Watermarked(request[w].seen),
                        live |-> n \in LiveNumbers(o)]
        /\ request[w].act \in {"review", "export"}
    BY <1>3 DEF CommitReview, CommitExport, Render, Busy
  <2>2. ~Watermarked(request[w].seen) => n \in LiveNumbers(o)
    BY <2>1, ShownIsLive DEF SeenWasShown, Watermarked
  <2> HIDE DEF o, n
  <2> QED
    BY <2>1, <2>2 DEF UnpublishedFileIsMarked
<1>4. ASSUME NEW w \in Operators, Commits(w),
             ~CommitDeliver(w), ~CommitReview(w), ~CommitExport(w)
      PROVE  UNCHANGED artifact
  BY <1>4
     DEF Commits, CommitDraft, CommitApprove, CommitPublish, CommitWithdraw, RefusePublish,
         RetireIncumbents, PublishConflict, Send, Abandon, rows
<1> QED
  BY <1>a, <1>1, <1>2, <1>3, <1>4 DEF Next, SignOff, SetActive, vars

\* "An unpublished export is watermarked DRAFT" holds of every behaviour in
\* which nothing is taken down: a version whose publication came down keeps
\* the state "published" the watermark goes by, and that alone breaks it.
THEOREM FileIsMarkedWhileNothingComesDown ==
    Spec /\ []NothingDown => []UnpublishedFileIsMarked
<1>1. Init => UnpublishedFileIsMarked
  BY DEF Init, UnpublishedFileIsMarked, NoArtifact
<1>2. TrackerInv => TypeInv /\ SeenWasShown
  BY DEF TrackerInv, GateInv
<1>3. TrackerInv /\ NothingDown /\ UnpublishedFileIsMarked /\ [Next]_vars
        => UnpublishedFileIsMarked'
  BY <1>2, NextFileIsMarked
<1> QED
  BY <1>1, <1>3, TrackerInvariant, PTL DEF Spec
=============================================================================
