---------------------------- MODULE CollectionProps ----------------------------
(***************************************************************************)
(* What collecting promises, whatever polls overlap, are lost or are tried *)
(* again.                                                                  *)
(***************************************************************************)
EXTENDS Collection

\* Every table holds rows of its kind, and a poll belongs to a run.
CollectionTypeOK ==
    /\ source \in [Sources -> SourceRow \cup {NoSource}]
    /\ due \subseteq Sources /\ live \subseteq Bases
    /\ waiting \subseteq Delivery
    /\ texts \in Nat /\ reading \subseteq Readers /\ unseen \in Nat
    /\ \A r \in DOMAIN run : run[r] \in RunRow
    /\ DOMAIN screened = DOMAIN run
    /\ \A i \in row : i.run \in DOMAIN run
    /\ \A w \in Collectors : ~ At(w, "free") => poll[w].run \in DOMAIN run

\* A run that succeeded says what it did: the rows that carry its number are
\* the ones it counts as created, each of them was sent to the gate by this run
\* and by no other, and the rest of what it collected was held already or came
\* without an id; a run that failed made none ("the created ones are not a
\* prefix", services/ingest.py).
RunsAccountForRows ==
    \A r \in DOMAIN run :
        LET made == {i \in row : i.run = r} IN
        /\ run[r].status = "succeeded" =>
              /\ run[r].created = Cardinality(made)
              /\ run[r].collected = run[r].created + run[r].seen + run[r].blank
              /\ screened[r] = {[post |-> i.post, wording |-> i.wording] : i \in made}
        /\ run[r].status = "failed" => made = {}

\* An item is governed by the policy it was collected under, which was live
\* when the vendor was asked, though an operator saves another, or it is
\* withdrawn, while the vendor answers (sources/models.py,
\* ProviderPolicyVersion).
RecordedBasis ==
    \A i \in row : i.basis = run[i.run].basis /\ run[i.run].covered

\* A source is as an operator last saved it: a poll that loaded it before does
\* not undo a pause or a new policy when it ends (sources/models.py,
\* mark_polled).
OperatorDecides == source = wish

\* What a run spent is recorded, also when it fails part-way (collection.py,
\* _social).  What is recorded stays below the month's cap, one poll of every
\* process and one call of every reader, which may all have seen the same
\* remainder, and what the ledger left out when it let one of them through
\* (services/spend.py counts a run by the policy its source has now).
SpendIsBounded ==
    /\ \A r \in DOMAIN run : run[r].status # "running" => run[r].cost = run[r].made
    /\ Recorded < MonthCap + Cardinality(Collectors) * PollCalls + Cardinality(Readers) + unseen

=============================================================================
