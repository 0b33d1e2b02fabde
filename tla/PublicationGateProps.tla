------------------------ MODULE PublicationGateProps ------------------------
(***************************************************************************)
(* What the publication gate promises, and what its documentation says     *)
(* beyond that.                                                            *)
(***************************************************************************)
EXTENDS PublicationGate

TypeOK ==
    /\ outputState \in [Outputs -> OutputStates]
    /\ versions \in [Outputs -> [Numbers -> VersionStates]]
    /\ approvals \in [Outputs -> SUBSET Numbers]
    /\ reviews \in [Outputs -> SUBSET Numbers]
    /\ active \subseteq Reviewers
    /\ publications \in [Pks -> Publication \union {NoRow}]
    /\ deliveries \subseteq Pks
    /\ artifact \in Artifact \union {NoArtifact}
    /\ request \in [Operators -> Request \union {NoRequest}]

\* PRD 6.9 as models.py puts it: only one published version per output is
\* visible at a time, whatever requests race.
OneLivePublication ==
    \A o \in Outputs : \A p, q \in Live(o) : p = q

\* What is on show, or was, had an Approval of that exact version, although
\* publish() trusts the state it loaded some time before.
PublishedWasApproved ==
    \A o \in Outputs : EverPublished(o) \subseteq approvals[o]

\* Health and scientific types never reach the client before a sign-off.
ReviewBeforePublication ==
    \A o \in ExpertOutputs : EverPublished(o) # {} => reviews[o] # {}

\* A publication that was taken down stays down: no stale save of deliver(),
\* publish() or unpublish() puts unpublished_at back to NULL.
Down(p) == publications[p].status \in {"superseded", "withdrawn"}
TakenDownStaysDown ==
    [][\A p \in Pks : Down(p) => Down(p)']_vars

\* An email never announces what may still roll back: a published copy goes
\* out for a committed Delivery, a withdrawal notice for a publication that is
\* down.
MailFollowsCommit ==
    \A w \in Operators :
        /\ Busy(w, "published copy") => request[w].pk \in deliveries
        /\ Busy(w, "withdrawal") => Down(request[w].pk)

\* The delivery tracker reads "published" only while a version is on show,
\* although publish() and unpublish() write Output.state and the publication
\* rows from separate requests.
TrackerPublishedIsShown ==
    \A o \in Outputs : outputState[o] = "published" => Live(o) # {}

\* The gate as the client's side sees it (models.py: the portal resolves
\* content exclusively through a Publication).
Contract == INSTANCE ClientContract WITH
    approved <- approvals,
    reviewed <- [o \in Outputs |-> reviews[o] # {}],
    shown <- [o \in Outputs |-> LiveNumbers(o)],
    released <- [o \in Outputs |-> EverPublished(o)],
    lastFile <- [output |-> artifact.output, number |-> artifact.number,
                 draft |-> artifact.draft]

\* Every request, however it interleaves with others, is to the client one of
\* the contract's steps or nothing.
MeetsContract == Contract!Spec

----------------------------------------------------------------------------
(* What the documentation says and the code does not do *)

\* delivery.py: DELIVERY REQUIRES A LIVE PUBLICATION.
DeliveryIsOfLive ==
    [][\A p \in Pks : p \in deliveries' \ deliveries
                        => publications[p].status = "live"]_vars

\* views.py, OutputExportView: an unpublished export is watermarked DRAFT.
UnpublishedFileIsMarked == ~artifact.draft => artifact.live
=============================================================================
