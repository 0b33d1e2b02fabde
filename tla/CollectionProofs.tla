--------------------------- MODULE CollectionProofs ---------------------------
(***************************************************************************)
(* Proofs about the two spend caps.  Collecting: any number of sources,    *)
(* processes, polls and rows.  Calls of a model: any number of callers and *)
(* any amounts.                                                            *)
(***************************************************************************)
EXTENDS CollectionProps, CostGuard, Inductions, SequenceTheorems

(* The steps of a poll, and what it holds in each.                         *)
Collecting ==
    [step : {"collect", "asked"}, delivery : Delivery, run : Nat, source : SourceRow]
Storing ==
    [step : {"look", "store"}, delivery : Delivery, run : Nat, source : SourceRow,
     calls : Nat, known : BOOLEAN, rows : Nat, left : Seq(Arrival), items : Seq(Arrival),
     created : Seq(Arrival)]
Ended ==
    [step : {"finish", "mark"}, delivery : Delivery, run : Nat, source : SourceRow,
     outcome : Outcomes, calls : Nat, rows : Nat, items : Seq(Arrival), created : Seq(Arrival)]
Polls == Collecting \cup Storing \cup Ended

Row == [source : Sources, post : Posts, wording : Wordings \cup {NoWording}, run : Nat,
        basis : Bases]

Exists(s) == source[s] # NoSource

Types ==
    /\ source \in [Sources -> SourceRow \cup {NoSource}]
    /\ due \subseteq Sources /\ live \subseteq Bases
    /\ waiting \subseteq Delivery /\ \A d \in waiting : Exists(d.source)
    /\ run \in Seq(RunRow)
    /\ row \subseteq Row /\ IsFiniteSet(row)
    /\ DOMAIN screened = DOMAIN run
    /\ poll \in [Collectors -> Polls \cup {Free}]
    /\ texts \in Nat /\ reading \subseteq Readers /\ unseen \in Nat

RowsOf(rows, r) == {i \in rows : i.run = r}
Keys(rows) == {[post |-> i.post, wording |-> i.wording] : i \in rows}

(* No two processes are in polls of one run.                               *)
OwnRuns ==
    \A v, w \in Collectors :
        poll[v] # Free /\ poll[w] # Free /\ poll[v].run = poll[w].run => v = w

(* What a poll p holds is what its run r, the rows of that run and the     *)
(* items it sent to the gate say.                                          *)
Agrees(p, r, rows, sent) ==
    /\ r.source = p.delivery.source /\ r.basis = p.source.basis
    /\ r.status = "running" <=> p.step # "mark"
    /\ p.step \in {"collect", "asked"} => rows = {} /\ r.made = 0
    /\ p.step \in {"asked", "look", "store"} => r.covered
    /\ p.step \in {"look", "store", "finish", "mark"} =>
          /\ r.made = p.calls /\ p.calls <= Calls(p.delivery.source)
          /\ Keys(rows) = ToSet(p.created)
          /\ Cardinality(rows) = Len(p.created) /\ Len(p.created) <= Len(p.items)
    /\ p.step \in {"look", "store"} =>
          p.rows + Cardinality(Blanks(p.left)) = Len(p.items) + Len(p.left) + r.blank
    /\ p.step = "store" => p.left # <<>> /\ Head(p.left).post # NoPost
    /\ p.step = "finish" =>
          IF p.outcome = "succeeded"
          THEN sent = ToSet(p.created) /\ p.rows = Len(p.items) + r.blank
          ELSE p.created = <<>>

PollOK(w) ==
    /\ poll[w].run \in DOMAIN run /\ Exists(poll[w].delivery.source)
    /\ Agrees(poll[w], run[poll[w].run], RowsOf(row, poll[w].run), screened[poll[w].run])
PollsOK == \A w \in Collectors : poll[w] # Free => PollOK(w)

(* What a run says when it has ended.                                      *)
Closed(r, rows, sent) ==
    /\ r.cost = IF r.status = "running" THEN 0 ELSE r.made
    /\ r.status = "succeeded" =>
          /\ r.created = Cardinality(rows)
          /\ r.collected = r.created + r.seen + r.blank
          /\ sent = Keys(rows)
    /\ r.status = "failed" => rows = {}
RunsOK == \A r \in DOMAIN run : Closed(run[r], RowsOf(row, r), screened[r])

RowOK(i) ==
    /\ i.run \in DOMAIN run
    /\ i.source = run[i.run].source /\ i.basis = run[i.run].basis /\ run[i.run].covered
RowsOK == \A i \in row : RowOK(i)

(* Polls that were let through and are yet to be recorded: each may still  *)
(* add a whole poll's calls, and each reader one.                          *)
Charged(p) ==
    /\ p.step \in {"asked", "look", "store", "finish"}
    /\ p.delivery.source \in OnVirlo
    /\ p.step # "asked" => p.calls > 0
Charging == {w \in Collectors : Charged(poll[w])}
Coming(polls, reads) == PollCalls * Cardinality(polls) + Cardinality(reads)
SpendOK ==
    Recorded + Coming(Charging, reading) < MonthCap + Coming(Collectors, Readers) + unseen

IInv == Types /\ OwnRuns /\ PollsOK /\ RunsOK /\ RowsOK /\ OperatorDecides /\ SpendOK

-----------------------------------------------------------------------------
LEMMA StepsAre ==
    ASSUME Types, NEW w \in Collectors
    PROVE  /\ poll[w] \in Polls \cup {Free} /\ (poll[w] = Free <=> At(w, "free"))
           /\ At(w, "collect") \/ At(w, "asked") => poll[w] \in Collecting
           /\ At(w, "look") \/ At(w, "store") => poll[w] \in Storing
           /\ At(w, "finish") \/ At(w, "mark") => poll[w] \in Ended
<1>1. poll[w] \in Polls \cup {Free}
  BY DEF Types
<1>2. CASE poll[w] \in Collecting
  BY <1>1, <1>2 DEF Collecting, Free, At
<1>3. CASE poll[w] \in Storing
  BY <1>1, <1>3 DEF Storing, Free, At
<1>4. CASE poll[w] \in Ended
  BY <1>1, <1>4 DEF Ended, Free, At
<1>5. CASE poll[w] = Free
  BY <1>1, <1>5 DEF Free, At
<1> QED
  BY <1>1, <1>2, <1>3, <1>4, <1>5 DEF Polls

\* A step of one poll, which may write its own run, add rows to it, and
\* replace what it holds.
StepOf(w, k, p, x) ==
    /\ k = poll[w].run /\ poll[w] # Free
    /\ p \in Polls \cup {Free} /\ (p # Free => p.run = k)
    /\ poll' = [poll EXCEPT ![w] = p]
    /\ x \in RunRow /\ run' = [run EXCEPT ![k] = x]
    /\ x.source = run[k].source /\ x.basis = run[k].basis
    /\ run[k].covered => x.covered
    /\ row \subseteq row' /\ row' \subseteq Row /\ IsFiniteSet(row')
    /\ \A i \in row' \ row : i.run = k /\ i.source = x.source /\ i.basis = x.basis /\ x.covered
    /\ DOMAIN screened' = DOMAIN screened
    /\ \A r \in DOMAIN run : r # k => screened'[r] = screened[r]
    /\ source' = source /\ live' = live /\ due' \subseteq Sources
    /\ waiting' \subseteq Delivery /\ \A d \in waiting' : Exists(d.source)
    /\ texts' = texts /\ reading' = reading /\ unseen' \in Nat

LEMMA PollStep ==
    ASSUME IInv, NEW w \in Collectors, NEW k, NEW p, NEW x, StepOf(w, k, p, x),
           p # Free => Agrees(p, x, RowsOf(row', k), screened'[k]),
           p # Free => p.delivery = poll[w].delivery,
           Closed(x, RowsOf(row', k), screened'[k])
    PROVE  (Types /\ OwnRuns /\ PollsOK /\ RunsOK /\ RowsOK)'
<1> USE DEF IInv
<1>1. /\ k \in DOMAIN run /\ run \in Seq(RunRow) /\ DOMAIN run' = DOMAIN run /\ run'[k] = x
      /\ \A r \in DOMAIN run : r # k => run'[r] = run[r]
      /\ run' \in Seq(RunRow)
  BY DEF StepOf, PollsOK, PollOK, Types
<1>2. /\ poll' \in [Collectors -> Polls \cup {Free}] /\ poll'[w] = p
      /\ \A v \in Collectors : v # w => poll'[v] = poll[v]
  BY DEF StepOf, Types
<1>3. Types'
  BY <1>1, <1>2 DEF StepOf, Types, Exists
<1>4. OwnRuns'
  BY <1>2 DEF StepOf, OwnRuns
<1>5. \A r : r # k => RowsOf(row', r) = RowsOf(row, r)
  BY DEF StepOf, RowsOf
<1>6. RunsOK'
  BY <1>1, <1>5 DEF RunsOK, StepOf
<1>7. RowsOK'
  <2> SUFFICES ASSUME NEW i \in row' PROVE RowOK(i)'
    BY DEF RowsOK
  <2>1. CASE i \in row
    BY <1>1, <2>1 DEF RowsOK, RowOK, StepOf
  <2>2. CASE i \notin row
    BY <1>1, <2>2 DEF RowOK, StepOf
  <2> QED
    BY <2>1, <2>2
<1>8. PollsOK'
  <2> SUFFICES ASSUME NEW v \in Collectors, poll'[v] # Free PROVE PollOK(v)'
    BY DEF PollsOK
  <2>1. CASE v = w
    BY <1>1, <1>2, <2>1 DEF PollsOK, PollOK, StepOf, Exists
  <2>2. CASE v # w
    <3>1. poll'[v] = poll[v] /\ PollOK(v) /\ poll[v].run # k
      BY <1>2, <2>2 DEF PollsOK, OwnRuns, StepOf
    <3>2. poll[v].run \in DOMAIN run /\ run'[poll[v].run] = run[poll[v].run]
      BY <1>1, <3>1 DEF PollOK
    <3> QED
      BY <1>1, <1>5, <3>1, <3>2 DEF PollOK, StepOf, Exists
  <2> QED
    BY <2>1, <2>2
<1> QED
  BY <1>3, <1>4, <1>6, <1>7, <1>8

-----------------------------------------------------------------------------
(* The ledger.                                                             *)

LEMMA RunsAreRows ==
    ASSUME NEW s \in Seq(RunRow)
    PROVE  /\ IsFiniteSet(DOMAIN s)
           /\ \A r \in DOMAIN s : s[r] \in RunRow /\ s[r].cost \in Nat /\ s[r].made \in Nat
<1>1. DOMAIN s = 1 .. Len(s) /\ Len(s) \in Nat
  OBVIOUS
<1>2. IsFiniteSet(DOMAIN s)
  BY <1>1, FS_Interval
<1>3. \A r \in DOMAIN s : s[r] \in RunRow
  BY ElementOfSeq
<1>4. \A x \in RunRow : x.cost \in Nat /\ x.made \in Nat
  BY DEF RunRow
<1> QED
  BY <1>2, <1>3, <1>4

LEMMA Appending ==
    ASSUME NEW T, NEW s \in Seq(T), NEW x \in T, NEW t, t = Append(s, x)
    PROVE  /\ t \in Seq(T) /\ Len(s) + 1 \in DOMAIN t /\ Len(s) + 1 \notin DOMAIN s
           /\ DOMAIN t = DOMAIN s \cup {Len(s) + 1} /\ t[Len(s) + 1] = x
           /\ \A r \in DOMAIN s : t[r] = s[r]
           /\ Len(t) = Len(s) + 1
<1>1. t \in Seq(T) /\ Len(t) = Len(s) + 1 /\ t[Len(s) + 1] = x
  OBVIOUS
<1>2. DOMAIN s = 1 .. Len(s) /\ DOMAIN t = 1 .. (Len(s) + 1) /\ Len(s) \in Nat
  BY <1>1
<1>3. \A r \in 1 .. Len(s) : t[r] = s[r]
  OBVIOUS
<1> QED
  BY <1>1, <1>2, <1>3

LEMMA RecordedIsNat == Types => Recorded \in Nat /\ Spent \in Nat
<1> SUFFICES ASSUME Types PROVE Recorded \in Nat /\ Spent \in Nat
  OBVIOUS
<1> DEFINE f == [r \in DOMAIN run |-> run[r].cost]
           L == {r \in DOMAIN run : OnLedger(r)}
<1>1. IsFiniteSet(DOMAIN run) /\ \A r \in DOMAIN run : f[r] \in Nat
  BY RunsAreRows DEF Types
<1>2. Recorded = SumFunctionOnSet(f, DOMAIN run) + texts /\ Spent = SumFunctionOnSet(f, L) + texts
  BY DEF Recorded, Spent, RunCosts
<1>3. L \subseteq DOMAIN run /\ IsFiniteSet(L) /\ texts \in Nat
  BY <1>1, FS_Subset DEF Types
<1> HIDE DEF f, L
<1>4. SumFunctionOnSet(f, DOMAIN run) \in Nat
  BY <1>1, SumIsNat
<1>5. SumFunctionOnSet(f, L) \in Nat
  BY <1>1, <1>3, SumIsNat
<1> QED
  BY <1>2, <1>3, <1>4, <1>5

LEMMA RecordedMoves ==
    ASSUME Types, NEW k \in DOMAIN run, NEW x \in RunRow, run' = [run EXCEPT ![k] = x],
           texts' = texts
    PROVE  Recorded' = Recorded - run[k].cost + x.cost
<1> DEFINE f == [r \in DOMAIN run |-> run[r].cost]
           e == [r \in DOMAIN run |-> run'[r].cost]
<1>1. DOMAIN run' = DOMAIN run /\ run' \in Seq(RunRow) /\ run \in Seq(RunRow)
  BY DEF Types
<1>2. \A r \in DOMAIN run : f[r] \in Nat /\ e[r] \in Nat
  BY <1>1, RunsAreRows
<1>3. \A r \in DOMAIN run \ {k} : e[r] = f[r]
  OBVIOUS
<1>4. f[k] = run[k].cost /\ e[k] = x.cost
  OBVIOUS
<1>5. IsFiniteSet(DOMAIN run)
  BY <1>1, RunsAreRows
<1>6. /\ Recorded = SumFunctionOnSet(f, DOMAIN run) + texts
      /\ Recorded' = SumFunctionOnSet(e, DOMAIN run) + texts
  BY <1>1 DEF Recorded, RunCosts
<1>7. x.cost \in Nat /\ run[k].cost \in Nat
  BY <1>2, <1>4
<1> HIDE DEF f, e
<1>8. SumFunctionOnSet(e, DOMAIN run) = SumFunctionOnSet(f, DOMAIN run) - f[k] + e[k]
  BY <1>2, <1>3, <1>5, SumOfChanged
<1>9. SumFunctionOnSet(f, DOMAIN run) \in Nat /\ texts \in Nat
  BY <1>2, <1>5, SumIsNat DEF Types
<1> QED
  BY <1>4, <1>6, <1>7, <1>8, <1>9

\* A new run has cost nothing yet.
LEMMA RecordedStays ==
    ASSUME Types, NEW x \in RunRow, x.cost = 0, run' = Append(run, x), texts' = texts
    PROVE  Recorded' = Recorded
<1> DEFINE n == Len(run)
           D == DOMAIN run'
           f == [r \in DOMAIN run |-> run[r].cost]
           e == [r \in D |-> run'[r].cost]
<1>1. /\ run \in Seq(RunRow) /\ run' \in Seq(RunRow) /\ n + 1 \in D
      /\ D \ {n + 1} = DOMAIN run /\ run'[n + 1] = x
      /\ \A r \in DOMAIN run : r \in D /\ run'[r] = run[r]
  <2>1. run \in Seq(RunRow)
    BY DEF Types
  <2>2. /\ run' \in Seq(RunRow) /\ n + 1 \in D /\ n + 1 \notin DOMAIN run
        /\ D = DOMAIN run \cup {n + 1} /\ run'[n + 1] = x
        /\ \A r \in DOMAIN run : run'[r] = run[r]
    BY <2>1, Appending
  <2> QED
    BY <2>1, <2>2
<1>2. IsFiniteSet(D) /\ IsFiniteSet(DOMAIN run) /\ \A r \in D : e[r] \in Nat
  BY <1>1, RunsAreRows
<1>3. e[n + 1] = 0 /\ \A r \in DOMAIN run : f[r] = e[r] /\ f[r] \in Nat
  BY <1>1, <1>2
<1>4. Recorded = SumFunctionOnSet(f, DOMAIN run) + texts /\ Recorded' = SumFunctionOnSet(e, D) + texts
  BY DEF Recorded, RunCosts
<1> HIDE DEF n, D, f, e
<1>5. SumFunctionOnSet(e, D) = e[n + 1] + SumFunctionOnSet(e, D \ {n + 1})
  BY <1>1, <1>2, SumOfOne
<1>6. SumFunctionOnSet(e, DOMAIN run) = SumFunctionOnSet(f, DOMAIN run)
  BY <1>2, <1>3, SumOfSame
<1>7. SumFunctionOnSet(f, DOMAIN run) \in Nat
  BY <1>2, <1>3, SumIsNat
<1> QED
  BY <1>1, <1>3, <1>4, <1>5, <1>6, <1>7

LEMMA Allowance ==
    /\ IsFiniteSet(Collectors) /\ Cardinality(Collectors) \in Nat \ {0}
    /\ IsFiniteSet(Readers) /\ Cardinality(Readers) \in Nat
    /\ PollCalls \in Nat \ {0} /\ MonthCap \in Nat
BY CollectionAssumption, FS_CardinalityType, FS_EmptySet

LEMMA Fewer ==
    ASSUME NEW S, IsFiniteSet(S), NEW R \in SUBSET S
    PROVE  /\ Cardinality(R) \in Nat /\ Cardinality(S) \in Nat
           /\ PollCalls * Cardinality(R) <= PollCalls * Cardinality(S)
           /\ PollCalls * Cardinality(R) \in Nat /\ PollCalls * Cardinality(S) \in Nat
<1> DEFINE r == Cardinality(R)
           s == Cardinality(S)
<1>1. r \in Nat /\ s \in Nat /\ r <= s
  BY FS_Subset, FS_CardinalityType
<1> HIDE DEF r, s
<1>2. PICK d \in Nat : s = r + d
  BY <1>1
<1>3. PollCalls * s = PollCalls * r + PollCalls * d /\ PollCalls * r \in Nat /\ PollCalls * d \in Nat
  BY <1>1, <1>2, Allowance
<1> QED
  BY <1>1, <1>3 DEF r, s

LEMMA ComingIsBounded ==
    ASSUME NEW A \in SUBSET Collectors, NEW B \in SUBSET A,
           NEW R \in SUBSET Readers, NEW Q \in SUBSET R
    PROVE  /\ Coming(B, Q) \in Nat /\ Coming(A, R) \in Nat
           /\ Coming(B, Q) <= Coming(A, R)
<1>1. IsFiniteSet(A) /\ IsFiniteSet(R)
  BY Allowance, FS_Subset
<1>2. /\ PollCalls * Cardinality(B) <= PollCalls * Cardinality(A)
      /\ PollCalls * Cardinality(B) \in Nat /\ PollCalls * Cardinality(A) \in Nat
  BY <1>1, Fewer
<1>3. Cardinality(Q) \in Nat /\ Cardinality(R) \in Nat /\ Cardinality(Q) <= Cardinality(R)
  BY <1>1, FS_Subset, FS_CardinalityType
<1> DEFINE a == PollCalls * Cardinality(A)
           b == PollCalls * Cardinality(B)
<1>4. a \in Nat /\ b \in Nat /\ b <= a /\ Coming(A, R) = a + Cardinality(R)
      /\ Coming(B, Q) = b + Cardinality(Q)
  BY <1>2 DEF Coming
<1> HIDE DEF a, b
<1> QED
  BY <1>3, <1>4

\* Nothing is recorded and nobody else is let through.
LEMMA SpendKeeps ==
    ASSUME Types, SpendOK, Recorded' = Recorded, Charging' \subseteq Charging,
           reading' \subseteq reading, unseen' = unseen
    PROVE  SpendOK'
<1>1. Charging \in SUBSET Collectors /\ reading \in SUBSET Readers
  BY DEF Charging, Types
<1>2. /\ Coming(Charging', reading') <= Coming(Charging, reading)
      /\ Coming(Charging', reading') \in Nat /\ Coming(Charging, reading) \in Nat
  BY <1>1, ComingIsBounded
<1>3. Coming(Collectors, Readers) \in Nat
  BY ComingIsBounded
<1>4. Recorded \in Nat /\ unseen \in Nat /\ MonthCap \in Nat
  BY RecordedIsNat, Allowance DEF Types
<1> QED
  BY <1>2, <1>3, <1>4 DEF SpendOK

\* Somebody is let through while the ledger is below the cap, and what it does
\* not show is remembered.
LEMMA LetThrough ==
    ASSUME Types, Recorded' = Recorded, CallsLeft >= 1, unseen' = Unseen,
           reading' \subseteq Readers
    PROVE  SpendOK'
<1>1. /\ Recorded \in Nat /\ Spent \in Nat /\ unseen \in Nat /\ MonthCap \in Nat
  BY RecordedIsNat, Allowance DEF Types
<1>2. Spent < MonthCap
  BY <1>1 DEF CallsLeft
<1>3. unseen' \in Nat /\ unseen' >= Recorded - Spent
  BY <1>1 DEF Unseen
<1>4. Charging' \in SUBSET Collectors
  BY DEF Charging
<1>5. /\ Coming(Charging', reading') <= Coming(Collectors, Readers)
      /\ Coming(Charging', reading') \in Nat /\ Coming(Collectors, Readers) \in Nat
  BY <1>4, ComingIsBounded
<1>6. Recorded' + Coming(Charging', reading') < MonthCap + Coming(Collectors, Readers) + unseen'
  BY <1>1, <1>2, <1>3, <1>5
<1> QED
  BY <1>6 DEF SpendOK

-----------------------------------------------------------------------------
(* The steps of a poll.                                                    *)

LEMMA Owned ==
    ASSUME IInv, NEW w \in Collectors, poll[w] # Free, NEW k, k = poll[w].run
    PROVE  /\ k \in DOMAIN run /\ run[k] \in RunRow /\ run = [run EXCEPT ![k] = run[k]]
           /\ Exists(poll[w].delivery.source) /\ poll[w] \in Polls
           /\ poll[w].delivery \in Delivery /\ SourceOf(w) \in Sources
           /\ Agrees(poll[w], run[k], RowsOf(row, k), screened[k])
           /\ Closed(run[k], RowsOf(row, k), screened[k])
<1>1. PollOK(w) /\ poll[w] \in Polls /\ run \in Seq(RunRow)
  BY DEF IInv, PollsOK, Types
<1>2. k \in DOMAIN run /\ run[k] \in RunRow /\ run = [run EXCEPT ![k] = run[k]]
  BY <1>1, RunsAreRows DEF PollOK
<1>3. poll[w].delivery \in Delivery /\ SourceOf(w) \in Sources
  BY <1>1 DEF Polls, Collecting, Storing, Ended, Delivery, SourceOf
<1>4. Closed(run[k], RowsOf(row, k), screened[k])
  BY <1>2 DEF IInv, RunsOK
<1> QED
  BY <1>1, <1>2, <1>3, <1>4 DEF PollOK

LEMMA PollKeeps ==
    ASSUME IInv, NEW w \in Collectors, NEW k, NEW p, NEW x, StepOf(w, k, p, x),
           p # Free => /\ Agrees(p, x, RowsOf(row', k), screened'[k])
                       /\ p.delivery = poll[w].delivery,
           Closed(x, RowsOf(row', k), screened'[k]),
           x.cost = run[k].cost, wish' = wish, virlo' = virlo,
           p # Free /\ Charged(p) => Charged(poll[w])
    PROVE  IInv'
<1>1. (Types /\ OwnRuns /\ PollsOK /\ RunsOK /\ RowsOK)'
  BY PollStep
<1>2. OperatorDecides'
  BY DEF IInv, OperatorDecides, StepOf
<1>3. Recorded' = Recorded
  <2>1. k \in DOMAIN run /\ run[k] \in RunRow /\ run[k].cost \in Nat
    BY Owned, RunsAreRows DEF StepOf, IInv, Types
  <2>2. Recorded' = Recorded - run[k].cost + x.cost
    BY <2>1, RecordedMoves DEF StepOf, IInv
  <2> QED
    BY <2>1, <2>2, RecordedIsNat DEF IInv
<1>4. Charging' \subseteq Charging
  <2>1. ~ Charged(Free)
    BY DEF Charged, Free
  <2> QED
    BY <2>1 DEF Charging, StepOf, IInv, Types
<1>5. SpendOK'
  BY <1>3, <1>4, SpendKeeps DEF IInv, virlo
<1> QED
  BY <1>1, <1>2, <1>5 DEF IInv

\* The poll ends, whatever becomes of its delivery.
LEMMA FreeKeeps ==
    ASSUME IInv, NEW w \in Collectors, poll[w] # Free, poll' = [poll EXCEPT ![w] = Free],
           UNCHANGED <<source, live, run, row, screened, virlo, wish>>, due' \subseteq Sources,
           waiting' \subseteq Delivery, \A d \in waiting' : Exists(d.source)
    PROVE  IInv'
<1> PICK k : k = poll[w].run
  OBVIOUS
<1>1. /\ k \in DOMAIN run /\ run[k] \in RunRow /\ run = [run EXCEPT ![k] = run[k]]
      /\ Closed(run[k], RowsOf(row, k), screened[k])
  BY Owned
<1>2. StepOf(w, k, Free, run[k])
  BY <1>1 DEF StepOf, IInv, Types, virlo
<1> QED
  BY <1>1, <1>2, PollKeeps

LEMMA MarkPolledKeeps == ASSUME IInv, NEW w \in Collectors, MarkPolled(w) PROVE IInv'
<1>1. poll[w] # Free /\ poll[w].delivery \in Delivery /\ Exists(poll[w].delivery.source)
  BY Owned DEF MarkPolled, At, Free
<1> DEFINE again == [poll[w].delivery EXCEPT !.tries = @ + 1]
<1>2. poll[w].delivery.tries < PollRetries => again \in Delivery
  BY <1>1, CollectionAssumption DEF Delivery
<1>3. again.source = poll[w].delivery.source
  BY <1>1 DEF Delivery
<1>4. waiting' \subseteq waiting \cup {again}
      /\ (again \in waiting' \ waiting => poll[w].delivery.tries < PollRetries)
  BY DEF MarkPolled
<1>5. waiting' \subseteq Delivery /\ \A d \in waiting' : Exists(d.source)
  <2> HIDE DEF again
  <2> QED
    BY <1>1, <1>2, <1>3, <1>4 DEF IInv, Types
<1>6. /\ poll' = [poll EXCEPT ![w] = Free] /\ due' \subseteq Sources
      /\ UNCHANGED <<source, live, run, row, screened, virlo, wish>>
  BY DEF MarkPolled, Marked, IInv, Types
<1> QED
  BY <1>1, <1>5, <1>6, FreeKeeps

LEMMA LostKeeps == ASSUME IInv, NEW w \in Collectors, Lost(w) \/ Broken(w) PROVE IInv'
<1>1. poll[w] # Free /\ poll[w].delivery \in Delivery /\ Exists(poll[w].delivery.source)
  BY Owned DEF Lost, Broken, At, Free
<1>2. waiting' \subseteq waiting \cup {poll[w].delivery}
  BY DEF Lost, Broken
<1>3. waiting' \subseteq Delivery /\ \A d \in waiting' : Exists(d.source)
  BY <1>1, <1>2 DEF IInv, Types
<1>4. /\ poll' = [poll EXCEPT ![w] = Free] /\ due' \subseteq Sources
      /\ UNCHANGED <<source, live, run, row, screened, virlo, wish>>
  BY DEF Lost, Broken, IInv, Types
<1> QED
  BY <1>1, <1>3, <1>4, FreeKeeps

\* Nothing collected, nothing created.
LEMMA NothingYet ==
    ASSUME NEW p, p.created = <<>>, p.items = <<>>
    PROVE  /\ Keys({}) = ToSet(p.created)
           /\ Cardinality({}) = Len(p.created) /\ Len(p.created) <= Len(p.items)
<1>1. Keys({}) = {} /\ ToSet(<<>>) = {} /\ Cardinality({}) = 0 /\ Len(<<>>) = 0
  BY FS_EmptySet DEF Keys, ToSet
<1>2. Keys({}) = ToSet(p.created)
  BY <1>1
<1>3. Cardinality({}) = Len(p.created)
  BY <1>1
<1>4. Len(p.created) <= Len(p.items)
  BY <1>1
<1> QED
  BY <1>2, <1>3, <1>4

\* A poll that ends without an answer has made no rows.
LEMMA EndsEmpty ==
    ASSUME NEW p, NEW r, NEW sent, p.step = "finish", p.created = <<>>, p.items = <<>>,
           p.outcome # "succeeded", r.source = p.delivery.source, r.basis = p.source.basis,
           r.status = "running", r.made = p.calls, p.calls <= Calls(p.delivery.source)
    PROVE  Agrees(p, r, {}, sent)
<1>1. Keys({}) = ToSet(p.created) /\ Cardinality({}) = Len(p.created) /\ Len(p.created) <= Len(p.items)
  BY NothingYet
<1> QED
  BY <1>1 DEF Agrees

LEMMA RefusedKeeps == ASSUME IInv, NEW w \in Collectors, Refused(w) PROVE IInv'
<1> PICK k : k = poll[w].run
  OBVIOUS
<1> DEFINE p == Ending(w, "blocked", 0)
<1>1. poll[w] \in Collecting /\ poll[w] # Free /\ poll[w].step = "collect"
  BY StepsAre DEF Refused, At, IInv
<1>2. /\ k \in DOMAIN run /\ run[k] \in RunRow /\ run = [run EXCEPT ![k] = run[k]]
      /\ Agrees(poll[w], run[k], RowsOf(row, k), screened[k])
      /\ Closed(run[k], RowsOf(row, k), screened[k]) /\ SourceOf(w) \in Sources
  BY <1>1, Owned
<1>3. /\ p \in Ended /\ p.run = k /\ p # Free /\ p.delivery = poll[w].delivery
      /\ p.source = poll[w].source /\ p.step = "finish" /\ p.outcome = "blocked"
      /\ p.calls = 0 /\ p.created = <<>> /\ p.items = <<>>
  BY <1>1 DEF Ending, Ended, Outcomes, Collecting, Free
<1>4. poll' = [poll EXCEPT ![w] = p] /\ UNCHANGED <<source, due, live, waiting, run, row, screened, virlo, wish>>
  BY DEF Refused
<1> HIDE DEF p
<1>5. StepOf(w, k, p, run[k])
  BY <1>1, <1>2, <1>3, <1>4 DEF StepOf, IInv, Types, Polls, virlo
<1>6. Agrees(p, run[k], RowsOf(row, k), screened[k])
  <2>1. 0 <= Calls(p.delivery.source)
    BY CollectionAssumption DEF Calls
  <2>2. /\ RowsOf(row, k) = {} /\ run[k].made = 0 /\ run[k].status = "running"
        /\ run[k].source = poll[w].delivery.source /\ run[k].basis = poll[w].source.basis
    BY <1>1, <1>2 DEF Agrees
  <2> QED
    BY <1>3, <2>1, <2>2, EndsEmpty
<1>7. ~ Charged(p)
  BY <1>3 DEF Charged
<1> QED
  BY <1>2, <1>3, <1>4, <1>5, <1>6, <1>7, PollKeeps

LEMMA VendorFailedKeeps ==
    ASSUME IInv, NEW w \in Collectors, NEW outcome \in {"failed", "blocked"},
           NEW calls \in Charges(SourceOf(w)), VendorFailed(w, outcome, calls)
    PROVE  IInv'
<1> PICK k : k = poll[w].run
  OBVIOUS
<1> DEFINE p == Ending(w, outcome, calls)
           x == [run[k] EXCEPT !.made = calls]
<1>1. poll[w] \in Collecting /\ poll[w] # Free /\ poll[w].step = "asked"
  BY StepsAre DEF VendorFailed, At, IInv
<1>2. /\ k \in DOMAIN run /\ run[k] \in RunRow
      /\ Agrees(poll[w], run[k], RowsOf(row, k), screened[k])
      /\ Closed(run[k], RowsOf(row, k), screened[k])
  BY <1>1, Owned
<1>3. calls \in Nat /\ calls <= Calls(poll[w].delivery.source)
  BY CollectionAssumption DEF Charges, Calls, SourceOf
<1>4. /\ p \in Ended /\ p.run = k /\ p # Free /\ p.delivery = poll[w].delivery
      /\ p.source = poll[w].source /\ p.step = "finish" /\ p.outcome = outcome
      /\ p.calls = calls /\ p.created = <<>> /\ p.items = <<>>
  BY <1>1, <1>3 DEF Ending, Ended, Outcomes, Collecting, Free
<1>5. /\ x \in RunRow /\ x.source = run[k].source /\ x.basis = run[k].basis /\ x.made = calls
      /\ x.covered = run[k].covered /\ x.cost = run[k].cost /\ x.status = run[k].status
  BY <1>2, <1>3 DEF RunRow
<1>6. /\ poll' = [poll EXCEPT ![w] = p] /\ run' = [run EXCEPT ![k] = x]
      /\ UNCHANGED <<source, due, live, waiting, row, screened, virlo, wish>>
  BY DEF VendorFailed
<1> HIDE DEF p, x
<1>7. StepOf(w, k, p, x)
  BY <1>1, <1>2, <1>4, <1>5, <1>6 DEF StepOf, IInv, Types, Polls, virlo
<1>8. Agrees(p, x, RowsOf(row, k), screened[k])
  <2>1. /\ RowsOf(row, k) = {} /\ run[k].status = "running"
        /\ run[k].source = poll[w].delivery.source /\ run[k].basis = poll[w].source.basis
    BY <1>1, <1>2 DEF Agrees
  <2> QED
    BY <1>3, <1>4, <1>5, <2>1, EndsEmpty
<1>9. x.status = "running" /\ Closed(x, RowsOf(row, k), screened[k])
  BY <1>1, <1>2, <1>5 DEF Closed, Agrees
<1>10. Charged(p) => Charged(poll[w])
  BY <1>1, <1>4 DEF Charged
<1> QED
  BY <1>4, <1>5, <1>6, <1>7, <1>8, <1>9, <1>10, PollKeeps

LEMMA KeyedIsTyped ==
    ASSUME NEW s, NEW arrivals \in Answers
    PROVE  /\ Keyed(s, arrivals) \in Seq(Arrival)
           /\ Len(Keyed(s, arrivals)) = Len(arrivals)
           /\ Blanks(Keyed(s, arrivals)) = Blanks(arrivals)
<1> DEFINE K == Keyed(s, arrivals)
<1>1. arrivals \in Seq([post : Posts \cup {NoPost}, wording : Wordings])
  BY CollectionAssumption
<1>2. DOMAIN arrivals = 1 .. Len(arrivals) /\ Len(arrivals) \in Nat
  BY <1>1
<1>3. ASSUME NEW n \in 1 .. Len(arrivals)
      PROVE  K[n] \in Arrival /\ K[n].post = arrivals[n].post
  <2>1. arrivals[n] \in [post : Posts \cup {NoPost}, wording : Wordings]
    BY <1>1, ElementOfSeq
  <2> QED
    BY <1>2, <2>1 DEF Keyed, Arrival
<1>4. K = [n \in 1 .. Len(arrivals) |-> K[n]] /\ DOMAIN K = DOMAIN arrivals
  BY <1>2 DEF Keyed
<1> HIDE DEF K
<1>5. K \in Seq(Arrival) /\ Len(K) = Len(arrivals)
  BY <1>2, <1>3, <1>4, IsASeq
<1>6. Blanks(K) = Blanks(arrivals)
  BY <1>2, <1>3, <1>4 DEF Blanks
<1> QED
  BY <1>5, <1>6 DEF K

LEMMA BlanksAreFew ==
    ASSUME NEW T, NEW s \in Seq(T)
    PROVE  IsFiniteSet(Blanks(s)) /\ Cardinality(Blanks(s)) \in Nat
<1>1. DOMAIN s = 1 .. Len(s) /\ Len(s) \in Nat
  OBVIOUS
<1>2. IsFiniteSet(DOMAIN s) /\ Blanks(s) \in SUBSET DOMAIN s
  BY <1>1, FS_Interval DEF Blanks
<1> QED
  BY <1>2, FS_Subset, FS_CardinalityType

\* Taking the first row away takes a row without an id away, or none.
LEMMA OneFewer ==
    ASSUME NEW T, NEW s \in Seq(T), s # <<>>
    PROVE  /\ Tail(s) \in Seq(T) /\ Len(s) = Len(Tail(s)) + 1 /\ Len(Tail(s)) \in Nat
           /\ Cardinality(Blanks(s)) = Cardinality(Blanks(Tail(s)))
                  + (IF Head(s).post = NoPost THEN 1 ELSE 0)
<1> PICK t : t = Tail(s)
  OBVIOUS
<1>1. /\ t \in Seq(T) /\ Len(s) \in Nat \ {0} /\ Len(t) = Len(s) - 1
      /\ \A n \in 1 .. Len(t) : t[n] = s[n + 1]
      /\ DOMAIN t = 1 .. Len(t) /\ DOMAIN s = 1 .. Len(s) /\ Head(s) = s[1]
  OBVIOUS
<1> DEFINE B == Blanks(t)
           C == {n + 1 : n \in B}
           f == [n \in B |-> n + 1]
<1>2. f \in Bijection(B, C)
  <2>1. f \in Injection(B, C)
    BY <1>1 DEF Injection, IsInjective, Blanks
  <2>2. f \in Surjection(B, C)
    BY DEF Surjection
  <2> QED
    BY <2>1, <2>2 DEF Bijection
<1>3. IsFiniteSet(B) /\ Cardinality(B) \in Nat
  BY <1>1, BlanksAreFew
<1>4. IsFiniteSet(C) /\ Cardinality(C) = Cardinality(B)
  <2>1. ExistsBijection(B, C)
    BY <1>2 DEF ExistsBijection
  <2> HIDE DEF B, C
  <2> QED
    BY <1>3, <2>1, FS_Bijection
<1>5. C = {n \in DOMAIN s : n # 1 /\ s[n].post = NoPost}
  <2>1. ASSUME NEW n \in DOMAIN s, n # 1, s[n].post = NoPost PROVE n \in C
    <3>1. n - 1 \in 1 .. Len(t) /\ t[n - 1] = s[n] /\ n = (n - 1) + 1
      BY <1>1, <2>1
    <3> QED
      BY <1>1, <2>1, <3>1 DEF Blanks
  <2>2. ASSUME NEW n \in B PROVE n + 1 \in DOMAIN s /\ n + 1 # 1 /\ s[n + 1].post = NoPost
    BY <1>1 DEF Blanks
  <2> QED
    BY <2>1, <2>2
<1>6. CASE Head(s).post = NoPost
  <2>1. Blanks(s) = C \cup {1} /\ 1 \notin C
    BY <1>1, <1>5, <1>6 DEF Blanks
  <2>2. Cardinality(C \cup {1}) = Cardinality(C) + 1
    BY <1>4, <2>1, FS_AddElement
  <2> QED
    BY <1>1, <1>4, <1>6, <2>1, <2>2
<1>7. CASE Head(s).post # NoPost
  <2>1. Blanks(s) = C
    BY <1>1, <1>5, <1>7 DEF Blanks
  <2> QED
    BY <1>1, <1>3, <1>4, <1>7, <2>1
<1> QED
  BY <1>6, <1>7

LEMMA AnsweredKeeps ==
    ASSUME IInv, NEW w \in Collectors, NEW arrivals \in Answers,
           NEW calls \in Searched(SourceOf(w)), Answered(w, arrivals, calls)
    PROVE  IInv'
<1> PICK k : k = poll[w].run
  OBVIOUS
<1> DEFINE p == poll'[w]
           blank == Cardinality(Blanks(arrivals))
           x == [run[k] EXCEPT !.made = calls, !.blank = blank]
           left == Keyed(SourceOf(w), arrivals)
<1>1. poll[w] \in Collecting /\ poll[w] # Free /\ poll[w].step = "asked"
  BY StepsAre DEF Answered, At, IInv
<1>2. /\ k \in DOMAIN run /\ run[k] \in RunRow
      /\ Agrees(poll[w], run[k], RowsOf(row, k), screened[k])
      /\ Closed(run[k], RowsOf(row, k), screened[k])
  BY <1>1, Owned
<1>3. calls \in Nat /\ calls <= Calls(poll[w].delivery.source)
  BY CollectionAssumption DEF Searched, Charges, Calls, SourceOf
<1>4. left \in Seq(Arrival) /\ Len(left) = Len(arrivals) /\ Len(left) \in Nat
      /\ Cardinality(Blanks(left)) = blank /\ blank \in Nat
  <2>1. left \in Seq(Arrival) /\ Len(left) = Len(arrivals) /\ Blanks(left) = Blanks(arrivals)
    BY KeyedIsTyped
  <2> QED
    BY <2>1, BlanksAreFew
<1>5. p = [step |-> "look", delivery |-> poll[w].delivery, run |-> poll[w].run,
           source |-> poll[w].source, calls |-> calls, known |-> FALSE,
           rows |-> Len(arrivals), left |-> left, items |-> <<>>, created |-> <<>>]
  BY DEF Answered, IInv, Types
<1> HIDE DEF left, blank
<1>6. p \in Storing
  BY <1>1, <1>3, <1>4, <1>5 DEF Storing, Collecting
<1>7. /\ p.run = k /\ p # Free /\ p.delivery = poll[w].delivery
      /\ p.source = poll[w].source /\ p.step = "look"
      /\ p.rows = Len(left) /\ p.left = left
      /\ p.calls = calls /\ p.created = <<>> /\ p.items = <<>>
  BY <1>1, <1>4, <1>5 DEF Free
<1>8. /\ x \in RunRow /\ x.source = run[k].source /\ x.basis = run[k].basis /\ x.made = calls
      /\ x.covered = run[k].covered /\ x.cost = run[k].cost /\ x.status = run[k].status
      /\ x.blank = blank
  BY <1>2, <1>3, <1>4 DEF RunRow
<1>9. /\ poll' = [poll EXCEPT ![w] = p] /\ run' = [run EXCEPT ![k] = x]
      /\ UNCHANGED <<source, due, live, waiting, row, screened, virlo, wish>>
  BY <1>5 DEF Answered, left, blank
<1>10. PICK q, y : q = p /\ y = x
  OBVIOUS
<1> HIDE DEF p, x
<1>11. StepOf(w, k, q, y)
  BY <1>1, <1>2, <1>6, <1>7, <1>8, <1>9, <1>10 DEF StepOf, IInv, Types, Polls, virlo
<1>12. Agrees(q, y, RowsOf(row, k), screened[k])
  <2>1. /\ RowsOf(row, k) = {} /\ run[k].status = "running" /\ run[k].covered
        /\ run[k].source = poll[w].delivery.source /\ run[k].basis = poll[w].source.basis
    BY <1>1, <1>2 DEF Agrees
  <2>2. /\ Keys(RowsOf(row, k)) = ToSet(q.created) /\ Cardinality(RowsOf(row, k)) = Len(q.created)
        /\ Len(q.created) <= Len(q.items)
    <3>1. q.created = <<>> /\ q.items = <<>>
      BY <1>7, <1>10
    <3> QED
      BY <2>1, <3>1, NothingYet
  <2>3. q.rows + Cardinality(Blanks(q.left)) = Len(q.items) + Len(q.left) + y.blank
    <3>1. Len(q.items) = 0 /\ q.left = left /\ q.rows = Len(left) /\ y.blank = blank
      BY <1>7, <1>8, <1>10
    <3> QED
      BY <1>4, <3>1
  <2> QED
    BY <1>3, <1>7, <1>8, <1>10, <2>1, <2>2, <2>3 DEF Agrees
<1>13. Closed(y, RowsOf(row, k), screened[k])
  BY <1>1, <1>2, <1>8, <1>10 DEF Closed, Agrees
<1>14. Charged(q) => Charged(poll[w])
  BY <1>1, <1>7, <1>10 DEF Charged
<1> QED
  BY <1>7, <1>8, <1>9, <1>10, <1>11, <1>12, <1>13, <1>14, PollKeeps

LEMMA LookUpKeeps == ASSUME IInv, NEW w \in Collectors, LookUp(w) PROVE IInv'
<1> PICK k : k = poll[w].run
  OBVIOUS
<1> DEFINE known == SourceOf(w) \in Social /\ HeldBySocial(Head(poll[w].left).post)
           p == [poll[w] EXCEPT !.step = "store", !.known = known]
<1>1. /\ poll[w] \in Storing /\ poll[w] # Free /\ poll[w].step = "look" /\ poll[w].left # <<>>
      /\ Head(poll[w].left).post # NoPost
  BY StepsAre DEF LookUp, At, IInv
<1>2. /\ k \in DOMAIN run /\ run[k] \in RunRow /\ run = [run EXCEPT ![k] = run[k]]
      /\ Agrees(poll[w], run[k], RowsOf(row, k), screened[k])
      /\ Closed(run[k], RowsOf(row, k), screened[k])
  BY <1>1, Owned
<1>3. poll' = [poll EXCEPT ![w] = p] /\ UNCHANGED <<source, due, live, waiting, run, row, screened, virlo, wish>>
  BY DEF LookUp, IInv, Types
<1>4. known \in BOOLEAN
  OBVIOUS
<1> HIDE DEF known
<1>5. /\ p \in Storing /\ p.run = k /\ p # Free /\ p.delivery = poll[w].delivery
      /\ p.source = poll[w].source /\ p.step = "store" /\ p.left = poll[w].left
      /\ p.calls = poll[w].calls /\ p.created = poll[w].created /\ p.items = poll[w].items
      /\ p.rows = poll[w].rows
  BY <1>1, <1>4 DEF Storing, Free
<1> HIDE DEF p
<1>6. StepOf(w, k, p, run[k])
  BY <1>1, <1>2, <1>3, <1>5 DEF StepOf, IInv, Types, Polls, virlo
<1>7. Agrees(p, run[k], RowsOf(row, k), screened[k])
  BY <1>1, <1>2, <1>5 DEF Agrees
<1>8. Charged(p) => Charged(poll[w])
  BY <1>1, <1>5 DEF Charged
<1> QED
  BY <1>2, <1>3, <1>5, <1>6, <1>7, <1>8, PollKeeps

LEMMA SkipKeeps == ASSUME IInv, NEW w \in Collectors, Skip(w) PROVE IInv'
<1> PICK k : k = poll[w].run
  OBVIOUS
<1> DEFINE p == [poll[w] EXCEPT !.left = Tail(@)]
<1>1. /\ poll[w] \in Storing /\ poll[w] # Free /\ poll[w].step = "look" /\ poll[w].left # <<>>
      /\ Head(poll[w].left).post = NoPost
  BY StepsAre DEF Skip, At, IInv
<1>2. /\ k \in DOMAIN run /\ run[k] \in RunRow /\ run = [run EXCEPT ![k] = run[k]]
      /\ Agrees(poll[w], run[k], RowsOf(row, k), screened[k])
      /\ Closed(run[k], RowsOf(row, k), screened[k])
  BY <1>1, Owned
<1>3. poll' = [poll EXCEPT ![w] = p] /\ UNCHANGED <<source, due, live, waiting, run, row, screened, virlo, wish>>
  BY DEF Skip, IInv, Types
<1>4. /\ Tail(poll[w].left) \in Seq(Arrival) /\ Len(poll[w].left) = Len(Tail(poll[w].left)) + 1
      /\ Len(Tail(poll[w].left)) \in Nat
      /\ Cardinality(Blanks(poll[w].left)) = Cardinality(Blanks(Tail(poll[w].left))) + 1
      /\ Cardinality(Blanks(Tail(poll[w].left))) \in Nat
  <2>1. poll[w].left \in Seq(Arrival)
    BY <1>1 DEF Storing
  <2>2. Tail(poll[w].left) \in Seq(Arrival)
    BY <1>1, <2>1, OneFewer
  <2> QED
    BY <1>1, <2>1, <2>2, OneFewer, BlanksAreFew
<1>5. /\ p \in Storing /\ p.run = k /\ p # Free /\ p.delivery = poll[w].delivery
      /\ p.source = poll[w].source /\ p.step = "look" /\ p.left = Tail(poll[w].left)
      /\ p.calls = poll[w].calls /\ p.created = poll[w].created /\ p.items = poll[w].items
      /\ p.rows = poll[w].rows
  BY <1>1, <1>4 DEF Storing, Free
<1> HIDE DEF p
<1>6. StepOf(w, k, p, run[k])
  BY <1>1, <1>2, <1>3, <1>5 DEF StepOf, IInv, Types, Polls, virlo
<1>7. p.rows + Cardinality(Blanks(p.left)) = Len(p.items) + Len(p.left) + run[k].blank
  <2>1. poll[w].rows \in Nat /\ Len(poll[w].items) \in Nat /\ run[k].blank \in Nat
    BY <1>1, <1>2 DEF Storing, RunRow
  <2>2. poll[w].rows + Cardinality(Blanks(poll[w].left))
            = Len(poll[w].items) + Len(poll[w].left) + run[k].blank
    BY <1>1, <1>2 DEF Agrees
  <2> DEFINE rows == poll[w].rows
             blank == run[k].blank
             items == Len(poll[w].items)
             left == Len(Tail(poll[w].left))
             blanks == Cardinality(Blanks(Tail(poll[w].left)))
  <2>3. rows \in Nat /\ blank \in Nat /\ items \in Nat /\ left \in Nat /\ blanks \in Nat
    BY <1>4, <2>1
  <2>4. rows + (blanks + 1) = items + (left + 1) + blank
    BY <1>4, <2>2
  <2> HIDE DEF rows, blank, items, left, blanks
  <2>5. rows + blanks = items + left + blank
    BY <2>3, <2>4
  <2> QED
    BY <1>5, <2>5 DEF rows, blank, items, left, blanks
<1>8. Agrees(p, run[k], RowsOf(row, k), screened[k])
  BY <1>1, <1>2, <1>5, <1>7 DEF Agrees
<1>9. Charged(p) => Charged(poll[w])
  BY <1>1, <1>5 DEF Charged
<1> QED
  BY <1>2, <1>3, <1>5, <1>6, <1>8, <1>9, PollKeeps

LEMMA ScreenKeeps == ASSUME IInv, NEW w \in Collectors, Screen(w) PROVE IInv'
<1> PICK k : k = poll[w].run
  OBVIOUS
<1> DEFINE p == [step |-> "finish", delivery |-> poll[w].delivery, run |-> poll[w].run,
                 source |-> poll[w].source, outcome |-> "succeeded", calls |-> poll[w].calls,
                 rows |-> poll[w].rows, items |-> poll[w].items, created |-> poll[w].created]
<1>1. poll[w] \in Storing /\ poll[w] # Free /\ poll[w].step = "look" /\ poll[w].left = <<>>
  BY StepsAre DEF Screen, At, IInv
<1>2. /\ k \in DOMAIN run /\ run[k] \in RunRow /\ run = [run EXCEPT ![k] = run[k]]
      /\ Agrees(poll[w], run[k], RowsOf(row, k), screened[k])
      /\ Closed(run[k], RowsOf(row, k), screened[k])
  BY <1>1, Owned
<1>3. /\ poll' = [poll EXCEPT ![w] = p] /\ UNCHANGED <<source, due, live, waiting, run, row, virlo, wish>>
      /\ screened' = [screened EXCEPT ![k] = ToSet(poll[w].created)]
  BY DEF Screen, ToScreen
<1>4. /\ p \in Ended /\ p.run = k /\ p # Free /\ p.delivery = poll[w].delivery
      /\ p.source = poll[w].source /\ p.step = "finish" /\ p.outcome = "succeeded"
      /\ p.calls = poll[w].calls /\ p.created = poll[w].created /\ p.items = poll[w].items
      /\ p.rows = poll[w].rows
  BY <1>1 DEF Storing, Ended, Free, Outcomes
<1> HIDE DEF p
<1>5. /\ screened'[k] = ToSet(poll[w].created) /\ DOMAIN screened' = DOMAIN screened
      /\ \A r \in DOMAIN run : r # k => screened'[r] = screened[r]
  BY <1>2, <1>3 DEF IInv, Types
<1>6. StepOf(w, k, p, run[k])
  BY <1>1, <1>2, <1>3, <1>4, <1>5 DEF StepOf, IInv, Types, Polls, virlo
<1>7. Agrees(p, run[k], RowsOf(row, k), screened'[k])
  <2>1. Cardinality(Blanks(poll[w].left)) = 0 /\ Len(poll[w].left) = 0
    BY <1>1, FS_EmptySet DEF Blanks
  <2>2. poll[w].rows \in Nat /\ Len(poll[w].items) \in Nat /\ run[k].blank \in Nat
    BY <1>1, <1>2 DEF Storing, RunRow
  <2>3. poll[w].rows + Cardinality(Blanks(poll[w].left))
            = Len(poll[w].items) + Len(poll[w].left) + run[k].blank
    BY <1>1, <1>2 DEF Agrees
  <2>4. p.rows = Len(p.items) + run[k].blank
    BY <1>4, <2>1, <2>2, <2>3
  <2> QED
    BY <1>1, <1>2, <1>4, <1>5, <2>4 DEF Agrees
<1>8. Closed(run[k], RowsOf(row, k), screened'[k])
  BY <1>1, <1>2 DEF Closed, Agrees
<1>9. Charged(p) => Charged(poll[w])
  BY <1>1, <1>4 DEF Charged
<1> QED
  BY <1>2, <1>3, <1>4, <1>6, <1>7, <1>8, <1>9, PollKeeps

LEMMA OneMore ==
    ASSUME NEW T, NEW s \in Seq(T), NEW x \in T
    PROVE  ToSet(Append(s, x)) = ToSet(s) \cup {x} /\ Len(Append(s, x)) = Len(s) + 1
           /\ Append(s, x) \in Seq(T)
<1> PICK t : t = Append(s, x)
  OBVIOUS
<1>1. /\ DOMAIN t = DOMAIN s \cup {Len(s) + 1} /\ t[Len(s) + 1] = x
      /\ \A r \in DOMAIN s : t[r] = s[r] /\ Len(t) = Len(s) + 1 /\ t \in Seq(T)
  BY Appending
<1>2. ToSet(t) = ToSet(s) \cup {x}
  BY <1>1 DEF ToSet
<1> QED
  BY <1>2

LEMMA StoreKeeps == ASSUME IInv, NEW w \in Collectors, Store(w) PROVE IInv'
<1> PICK k : k = poll[w].run
  OBVIOUS
<1> PICK s, a : s = SourceOf(w) /\ a = Head(poll[w].left)
  OBVIOUS
<1> PICK item : item = [source |-> s, post |-> a.post, wording |-> a.wording, run |-> k,
                        basis |-> poll[w].source.basis]
  OBVIOUS
<1> DEFINE p == [poll[w] EXCEPT !.step = "look", !.known = FALSE, !.left = Tail(@),
                                !.items = Append(@, a)]
           q == [p EXCEPT !.created = Append(@, a)]
<1>1. poll[w] \in Storing /\ poll[w] # Free /\ poll[w].step = "store"
  BY StepsAre DEF Store, At, IInv
<1>2. /\ k \in DOMAIN run /\ run[k] \in RunRow /\ run = [run EXCEPT ![k] = run[k]]
      /\ Agrees(poll[w], run[k], RowsOf(row, k), screened[k])
      /\ Closed(run[k], RowsOf(row, k), screened[k]) /\ s \in Sources
  BY <1>1, Owned
<1>3. /\ a \in Arrival /\ a.post \in Posts
      /\ Tail(poll[w].left) \in Seq(Arrival) /\ Len(Tail(poll[w].left)) \in Nat
      /\ Len(poll[w].left) = Len(Tail(poll[w].left)) + 1
      /\ Cardinality(Blanks(Tail(poll[w].left))) = Cardinality(Blanks(poll[w].left))
      /\ Cardinality(Blanks(poll[w].left)) \in Nat
  <2>1. poll[w].left \in Seq(Arrival) /\ poll[w].left # <<>> /\ a.post # NoPost
    BY <1>1, <1>2 DEF Agrees, Storing
  <2>2. a \in Arrival
    BY <2>1
  <2>3. a.post \in Posts
    BY <2>1, <2>2 DEF Arrival
  <2>4. Cardinality(Blanks(poll[w].left)) \in Nat
    BY <2>1, BlanksAreFew
  <2>5. /\ Tail(poll[w].left) \in Seq(Arrival) /\ Len(poll[w].left) = Len(Tail(poll[w].left)) + 1
        /\ Len(Tail(poll[w].left)) \in Nat
        /\ Cardinality(Blanks(poll[w].left)) = Cardinality(Blanks(Tail(poll[w].left)))
               + (IF Head(poll[w].left).post = NoPost THEN 1 ELSE 0)
    BY <2>1, OneFewer
  <2>6. Cardinality(Blanks(Tail(poll[w].left))) \in Nat
    BY <2>5, BlanksAreFew
  <2> QED
    BY <2>1, <2>2, <2>3, <2>4, <2>5, <2>6
<1>4. UNCHANGED <<source, due, live, waiting, run, screened, virlo, wish>>
  BY DEF Store
<1>5. /\ p \in Storing /\ p.run = k /\ p # Free /\ p.delivery = poll[w].delivery
      /\ p.source = poll[w].source /\ p.step = "look"
      /\ p.calls = poll[w].calls /\ p.created = poll[w].created
      /\ p.items = Append(poll[w].items, a)
      /\ p.rows = poll[w].rows /\ p.left = Tail(poll[w].left)
  <2>1. Append(poll[w].items, a) \in Seq(Arrival)
    BY <1>1, <1>3, OneMore DEF Storing
  <2> QED
    BY <1>1, <1>3, <2>1 DEF Storing, Free
<1>6. /\ run[k].status = "running" /\ run[k].covered
      /\ run[k].source = s /\ run[k].basis = poll[w].source.basis
      /\ run[k].made = poll[w].calls /\ poll[w].calls <= Calls(poll[w].delivery.source)
      /\ Keys(RowsOf(row, k)) = ToSet(poll[w].created)
      /\ Cardinality(RowsOf(row, k)) = Len(poll[w].created)
      /\ Len(poll[w].created) <= Len(poll[w].items)
  BY <1>1, <1>2 DEF Agrees, SourceOf
<1>7. /\ Len(Append(poll[w].items, a)) = Len(poll[w].items) + 1 /\ Len(poll[w].items) \in Nat
      /\ Len(Append(poll[w].created, a)) = Len(poll[w].created) + 1 /\ Len(poll[w].created) \in Nat
      /\ ToSet(Append(poll[w].created, a)) = ToSet(poll[w].created) \cup {a}
      /\ Append(poll[w].created, a) \in Seq(Arrival)
      /\ poll[w].rows + Cardinality(Blanks(Tail(poll[w].left)))
             = Len(Append(poll[w].items, a)) + Len(Tail(poll[w].left)) + run[k].blank
  <2>1. /\ poll[w].items \in Seq(Arrival) /\ poll[w].created \in Seq(Arrival)
        /\ poll[w].rows \in Nat /\ run[k].blank \in Nat
    BY <1>1, <1>2 DEF Storing, RunRow
  <2>2. poll[w].rows + Cardinality(Blanks(poll[w].left))
            = Len(poll[w].items) + Len(poll[w].left) + run[k].blank
    BY <1>1, <1>2 DEF Agrees
  <2>3. /\ Len(Append(poll[w].items, a)) = Len(poll[w].items) + 1 /\ Len(poll[w].items) \in Nat
        /\ Len(Append(poll[w].created, a)) = Len(poll[w].created) + 1 /\ Len(poll[w].created) \in Nat
        /\ ToSet(Append(poll[w].created, a)) = ToSet(poll[w].created) \cup {a}
        /\ Append(poll[w].created, a) \in Seq(Arrival)
    BY <1>3, <2>1, OneMore
  <2>4. poll[w].rows + Cardinality(Blanks(Tail(poll[w].left)))
            = Len(Append(poll[w].items, a)) + Len(Tail(poll[w].left)) + run[k].blank
    <3> DEFINE rows == poll[w].rows
               blank == run[k].blank
               items == Len(poll[w].items)
               left == Len(Tail(poll[w].left))
               blanks == Cardinality(Blanks(Tail(poll[w].left)))
    <3>1. rows \in Nat /\ blank \in Nat /\ items \in Nat /\ left \in Nat /\ blanks \in Nat
      BY <1>3, <2>1, <2>3
    <3>2. rows + blanks = items + (left + 1) + blank
      BY <1>3, <2>2
    <3> HIDE DEF rows, blank, items, left, blanks
    <3>3. rows + blanks = (items + 1) + left + blank
      BY <3>1, <3>2
    <3> QED
      BY <2>3, <3>3 DEF rows, blank, items, left, blanks
  <2> QED
    BY <2>3, <2>4
<1>8. CASE poll' = [poll EXCEPT ![w] = p] /\ row' = row
  <2> HIDE DEF p
  <2>1. StepOf(w, k, p, run[k])
    BY <1>1, <1>2, <1>4, <1>5, <1>8 DEF StepOf, IInv, Types, Polls, virlo
  <2>2. Len(p.created) <= Len(p.items)
    BY <1>5, <1>6, <1>7
  <2>3. Agrees(p, run[k], RowsOf(row, k), screened[k])
    BY <1>5, <1>6, <1>7, <2>2 DEF Agrees, SourceOf
  <2>4. Charged(p) => Charged(poll[w])
    BY <1>1, <1>5 DEF Charged
  <2> QED
    BY <1>2, <1>4, <1>5, <1>8, <2>1, <2>3, <2>4, PollKeeps
<1>9. CASE /\ poll' = [poll EXCEPT ![w] = q] /\ row' = row \cup {item}
           /\ \A i \in row : ~ SameKey(i, s, a)
  <2>1. item \notin row
    BY <1>9 DEF SameKey
  <2>2. item \in Row
    BY <1>1, <1>2, <1>3 DEF Storing, SourceRow, Row, Arrival
  <2>3. /\ q \in Storing /\ q.run = k /\ q # Free /\ q.delivery = poll[w].delivery
        /\ q.source = poll[w].source /\ q.step = "look"
        /\ q.calls = poll[w].calls /\ q.created = Append(poll[w].created, a)
        /\ q.items = Append(poll[w].items, a)
        /\ q.rows = poll[w].rows /\ q.left = Tail(poll[w].left)
    <3> HIDE DEF p
    <3> QED
      BY <1>5, <1>7 DEF Storing, Free
  <2> HIDE DEF q
  <2>4. IsFiniteSet(row') /\ row' \subseteq Row
    BY <1>9, <2>2, FS_AddElement DEF IInv, Types
  <2>5. StepOf(w, k, q, run[k])
    BY <1>1, <1>2, <1>4, <1>6, <1>9, <2>3, <2>4 DEF StepOf, IInv, Types, Polls, virlo
  <2>6. RowsOf(row', k) = RowsOf(row, k) \cup {item} /\ item \notin RowsOf(row, k)
    BY <1>9, <2>1 DEF RowsOf
  <2>7. Keys(RowsOf(row', k)) = ToSet(q.created)
    <3>1. [post |-> item.post, wording |-> item.wording] = a
      BY <1>3 DEF Arrival
    <3>2. Keys(RowsOf(row', k)) = Keys(RowsOf(row, k)) \cup {a}
      BY <2>6, <3>1 DEF Keys
    <3> QED
      BY <1>6, <1>7, <2>3, <3>2
  <2>8. Cardinality(RowsOf(row', k)) = Len(q.created)
    <3>1. IsFiniteSet(RowsOf(row, k))
      BY FS_Subset DEF RowsOf, IInv, Types
    <3>2. \A R : IsFiniteSet(R) /\ item \notin R =>
              Cardinality(R \cup {item}) = Cardinality(R) + 1
      BY FS_AddElement, FS_CardinalityType
    <3>3. Cardinality(RowsOf(row', k)) = Cardinality(RowsOf(row, k)) + 1
      BY <2>6, <3>1, <3>2
    <3> QED
      BY <1>6, <1>7, <2>3, <3>3
  <2>9. Len(q.created) <= Len(q.items)
    BY <1>6, <1>7, <2>3
  <2>10. Agrees(q, run[k], RowsOf(row', k), screened[k])
    BY <1>6, <1>7, <2>3, <2>7, <2>8, <2>9 DEF Agrees, SourceOf
  <2>11. Closed(run[k], RowsOf(row', k), screened[k])
    BY <1>2, <1>6 DEF Closed
  <2>12. Charged(q) => Charged(poll[w])
    BY <1>1, <2>3 DEF Charged
  <2> QED
    BY <1>4, <2>3, <2>5, <2>10, <2>11, <2>12, PollKeeps
<1>10. \/ poll' = [poll EXCEPT ![w] = p] /\ row' = row
       \/ /\ poll' = [poll EXCEPT ![w] = q] /\ row' = row \cup {item}
          /\ \A i \in row : ~ SameKey(i, s, a)
  BY DEF Store, BasisUsed
<1> QED
  BY <1>8, <1>9, <1>10

LEMMA FinishKeeps == ASSUME IInv, NEW w \in Collectors, Finish(w) PROVE IInv'
<1> PICK k : k = poll[w].run
  OBVIOUS
<1> DEFINE p == [poll[w] EXCEPT !.step = "mark"]
           x == [run[k] EXCEPT
                   !.status = IF poll[w].outcome = "succeeded" THEN "succeeded" ELSE "failed",
                   !.blocking = (poll[w].outcome = "blocked"),
                   !.collected = poll[w].rows, !.created = Len(poll[w].created),
                   !.seen = Len(poll[w].items) - Len(poll[w].created),
                   !.cost = poll[w].calls]
<1>1. poll[w] \in Ended /\ poll[w] # Free /\ poll[w].step = "finish"
  BY StepsAre DEF Finish, At, IInv
<1>2. /\ k \in DOMAIN run /\ run[k] \in RunRow
      /\ Agrees(poll[w], run[k], RowsOf(row, k), screened[k])
      /\ Closed(run[k], RowsOf(row, k), screened[k])
  BY <1>1, Owned
<1>3. /\ poll' = [poll EXCEPT ![w] = p] /\ run' = [run EXCEPT ![k] = x]
      /\ UNCHANGED <<source, due, live, waiting, row, screened, virlo, wish>>
  BY DEF Finish, CostOf, IInv, Types
<1>4. /\ p \in Ended /\ p.run = k /\ p # Free /\ p.delivery = poll[w].delivery
      /\ p.source = poll[w].source /\ p.step = "mark" /\ p.outcome = poll[w].outcome
      /\ p.calls = poll[w].calls /\ p.created = poll[w].created /\ p.items = poll[w].items
  BY <1>1 DEF Ended, Free
<1>5. /\ Len(poll[w].items) \in Nat /\ Len(poll[w].created) \in Nat /\ poll[w].calls \in Nat
      /\ poll[w].rows \in Nat /\ run[k].blank \in Nat
      /\ Len(poll[w].created) <= Len(poll[w].items)
  <2>1. /\ poll[w].items \in Seq(Arrival) /\ poll[w].created \in Seq(Arrival)
        /\ poll[w].calls \in Nat /\ poll[w].rows \in Nat /\ run[k].blank \in Nat
    BY <1>1, <1>2 DEF Ended, RunRow
  <2> QED
    BY <1>1, <1>2, <2>1 DEF Agrees
<1>6. Len(poll[w].items) - Len(poll[w].created) \in Nat
  BY <1>5
<1>7. /\ x \in RunRow /\ x.source = run[k].source /\ x.basis = run[k].basis
      /\ x.made = run[k].made /\ x.covered = run[k].covered /\ x.cost = poll[w].calls
      /\ x.status = IF poll[w].outcome = "succeeded" THEN "succeeded" ELSE "failed"
      /\ x.collected = poll[w].rows /\ x.blank = run[k].blank /\ x.created = Len(poll[w].created)
      /\ x.seen = Len(poll[w].items) - Len(poll[w].created)
  BY <1>2, <1>5, <1>6 DEF RunRow
<1> HIDE DEF p, x
<1>8. StepOf(w, k, p, x)
  BY <1>1, <1>2, <1>3, <1>4, <1>7 DEF StepOf, IInv, Types, Polls, virlo
<1>9. Agrees(p, x, RowsOf(row, k), screened[k])
  BY <1>1, <1>2, <1>4, <1>7 DEF Agrees
<1>10. Closed(x, RowsOf(row, k), screened[k])
  <2>1. /\ Keys(RowsOf(row, k)) = ToSet(poll[w].created)
        /\ Cardinality(RowsOf(row, k)) = Len(poll[w].created) /\ run[k].made = poll[w].calls
        /\ poll[w].outcome = "succeeded" =>
              screened[k] = ToSet(poll[w].created) /\ poll[w].rows = Len(poll[w].items) + run[k].blank
        /\ poll[w].outcome # "succeeded" => poll[w].created = <<>>
    BY <1>1, <1>2 DEF Agrees
  <2>2. CASE poll[w].outcome = "succeeded"
    BY <1>5, <1>7, <2>1, <2>2 DEF Closed
  <2>3. CASE poll[w].outcome # "succeeded"
    <3>1. Len(poll[w].created) = 0
      BY <2>1, <2>3
    <3>2. RowsOf(row, k) = {}
      BY <2>1, <3>1, FS_EmptySet, FS_Subset DEF RowsOf, IInv, Types
    <3> QED
      BY <1>7, <2>1, <2>3, <3>2 DEF Closed
  <2> QED
    BY <2>2, <2>3
<1>11. (Types /\ OwnRuns /\ PollsOK /\ RunsOK /\ RowsOK)'
  BY <1>3, <1>4, <1>8, <1>9, <1>10, PollStep
<1>12. SpendOK'
  <2> DEFINE R == Charging'
             n == PollCalls * Cardinality(R)
             m == PollCalls * Cardinality(Charging)
  <2>1. run[k].cost = 0 /\ reading' = reading /\ unseen' = unseen /\ texts' = texts
    BY <1>1, <1>2, <1>3 DEF Agrees, Closed, virlo
  <2>2. Recorded' = Recorded + poll[w].calls
    <3>1. Recorded' = Recorded - run[k].cost + x.cost
      BY <1>2, <1>3, <1>7, <2>1, RecordedMoves DEF IInv
    <3>2. Recorded \in Nat
      BY RecordedIsNat DEF IInv
    <3> QED
      BY <1>5, <1>7, <2>1, <3>1, <3>2
  <2>3. R \subseteq Charging /\ w \notin R
    BY <1>3, <1>4 DEF Charging, Charged, IInv, Types
  <2>4. CASE poll[w].calls = 0
    BY <2>1, <2>2, <2>3, <2>4, SpendKeeps, RecordedIsNat DEF IInv
  <2>5. CASE poll[w].calls # 0
    <3>1. poll[w].calls <= PollCalls /\ w \in Charging
      BY <1>1, <1>2, <1>5, <2>5, CollectionAssumption DEF Agrees, Calls, Charging, Charged
    <3>2. IsFiniteSet(Charging) /\ IsFiniteSet(R) /\ R \cup {w} \subseteq Charging
      BY <2>3, <3>1, Allowance, FS_Subset DEF Charging
    <3>3. Cardinality(R \cup {w}) = Cardinality(R) + 1 /\ Cardinality(R) \in Nat
      BY <2>3, <3>2, FS_AddElement, FS_CardinalityType
    <3>4. PollCalls * Cardinality(R \cup {w}) <= m /\ m \in Nat /\ n \in Nat
      BY <3>2, Fewer
    <3>5. PollCalls * Cardinality(R \cup {w}) = n + PollCalls
      <4> PICK c : c = Cardinality(R)
        OBVIOUS
      <4>1. c \in Nat /\ PollCalls * (c + 1) = PollCalls * c + PollCalls
        BY <3>3, Allowance
      <4> QED
        BY <3>3, <4>1
    <3>6. /\ Cardinality(reading) \in Nat /\ Coming(Collectors, Readers) \in Nat
          /\ Recorded \in Nat /\ unseen \in Nat
      BY Allowance, FS_Subset, FS_CardinalityType, ComingIsBounded, RecordedIsNat DEF IInv, Types
    <3>7. /\ Coming(Charging, reading) = m + Cardinality(reading)
          /\ Coming(Charging', reading') = n + Cardinality(reading)
      BY <2>1 DEF Coming
    <3>8. Recorded + Coming(Charging, reading) < MonthCap + Coming(Collectors, Readers) + unseen
      BY DEF IInv, SpendOK
    <3> HIDE DEF n, m, R
    <3>9. Recorded' + Coming(Charging', reading') < MonthCap + Coming(Collectors, Readers) + unseen'
      <4> PICK c, reads, all, past : /\ c = poll[w].calls /\ reads = Cardinality(reading)
                                     /\ all = Coming(Collectors, Readers) /\ past = Recorded
        OBVIOUS
      <4>1. c \in Nat /\ reads \in Nat /\ all \in Nat /\ past \in Nat /\ c <= PollCalls
        BY <1>5, <3>1, <3>6
      <4>2. n + PollCalls <= m
        BY <3>4, <3>5
      <4>3. past + (m + reads) < MonthCap + all + unseen
        BY <3>7, <3>8
      <4>4. past + c + (n + reads) < MonthCap + all + unseen
        BY <3>4, <3>6, <4>1, <4>2, <4>3, Allowance
      <4> QED
        BY <2>1, <2>2, <3>7, <4>4
    <3> QED
      BY <3>9 DEF SpendOK
  <2> QED
    BY <2>4, <2>5
<1> QED
  BY <1>3, <1>11, <1>12 DEF IInv, OperatorDecides

\* A poll is let through when the rest of the month holds the whole of it, by
\* the ledger: what the others have under way is not in it.
LEMMA AskKeeps == ASSUME IInv, NEW w \in Collectors, Ask(w) PROVE IInv'
<1> PICK k : k = poll[w].run
  OBVIOUS
<1> DEFINE p == [poll[w] EXCEPT !.step = "asked"]
           x == [run[k] EXCEPT !.covered = TRUE]
<1>1. poll[w] \in Collecting /\ poll[w] # Free /\ poll[w].step = "collect"
  BY StepsAre DEF Ask, At, IInv
<1>2. /\ k \in DOMAIN run /\ run[k] \in RunRow
      /\ Agrees(poll[w], run[k], RowsOf(row, k), screened[k])
      /\ Closed(run[k], RowsOf(row, k), screened[k])
  BY <1>1, Owned
<1>3. /\ poll' = [poll EXCEPT ![w] = p] /\ run' = [run EXCEPT ![k] = x]
      /\ UNCHANGED <<source, due, live, waiting, row, screened, texts, reading, wish>>
      /\ unseen' = IF SourceOf(w) \in OnVirlo THEN Unseen ELSE unseen
  BY DEF Ask, IInv, Types
<1>4. /\ p \in Collecting /\ p.run = k /\ p # Free /\ p.delivery = poll[w].delivery
      /\ p.source = poll[w].source /\ p.step = "asked"
  BY <1>1 DEF Collecting, Free
<1>5. /\ x \in RunRow /\ x.source = run[k].source /\ x.basis = run[k].basis /\ x.covered
      /\ x.made = run[k].made /\ x.cost = run[k].cost /\ x.status = run[k].status
      /\ x.created = run[k].created /\ x.collected = run[k].collected /\ x.seen = run[k].seen
      /\ x.blank = run[k].blank
  BY <1>2 DEF RunRow
<1> HIDE DEF p, x
<1>6. StepOf(w, k, p, x)
  <2>1. unseen' \in Nat
    <3>1. Recorded \in Nat /\ Spent \in Nat /\ unseen \in Nat
      BY RecordedIsNat DEF IInv, Types
    <3> QED
      BY <1>3, <3>1 DEF Unseen
  <2> QED
    BY <1>1, <1>2, <1>3, <1>4, <1>5, <2>1 DEF StepOf, IInv, Types, Polls
<1>7. Agrees(p, x, RowsOf(row, k), screened[k])
  BY <1>1, <1>2, <1>4, <1>5 DEF Agrees
<1>8. Closed(x, RowsOf(row, k), screened[k])
  BY <1>2, <1>5 DEF Closed
<1>9. (Types /\ OwnRuns /\ PollsOK /\ RunsOK /\ RowsOK)'
  BY <1>3, <1>4, <1>6, <1>7, <1>8, PollStep
<1>10. OperatorDecides'
  BY <1>3 DEF IInv, OperatorDecides
<1>11. Recorded' = Recorded
  <2>1. Recorded' = Recorded - run[k].cost + x.cost
    BY <1>2, <1>3, <1>5, RecordedMoves DEF IInv
  <2>2. Recorded \in Nat /\ run[k].cost \in Nat
    BY <1>2, RecordedIsNat DEF IInv, RunRow
  <2> QED
    BY <1>5, <2>1, <2>2
<1>12. SpendOK'
  <2>1. \A v \in Collectors : v # w => poll'[v] = poll[v]
    BY <1>3 DEF IInv, Types
  <2>2. CASE poll[w].delivery.source \notin OnVirlo
    <3>1. Charging' \subseteq Charging
      BY <1>3, <1>4, <2>1, <2>2 DEF Charging, Charged, IInv, Types
    <3> QED
      BY <1>3, <1>11, <2>2, <3>1, SpendKeeps DEF IInv, SourceOf
  <2>3. CASE poll[w].delivery.source \in OnVirlo
    <3>1. CallsLeft >= PollCalls
      BY <2>3 DEF Ask, Affordable, Calls, SourceOf
    <3>2. CallsLeft \in Int
      BY RecordedIsNat, Allowance DEF CallsLeft, IInv
    <3>3. CallsLeft >= 1
      BY <3>1, <3>2, Allowance
    <3> QED
      BY <1>3, <1>11, <2>3, <3>3, LetThrough DEF IInv, Types, SourceOf
  <2> QED
    BY <2>2, <2>3
<1> QED
  BY <1>9, <1>10, <1>12 DEF IInv

\* A delivery is taken, and a run begun for it.
LEMMA TakeKeeps == ASSUME IInv, NEW w \in Collectors, NEW d \in waiting, Take(w, d) PROVE IInv'
<1> PICK n : n = Len(run) + 1
  OBVIOUS
<1> PICK x : x = [source |-> d.source, status |-> "running", blocking |-> FALSE,
                  collected |-> 0, created |-> 0, seen |-> 0, cost |-> 0,
                  basis |-> source[d.source].basis, covered |-> FALSE, made |-> 0, blank |-> 0]
  OBVIOUS
<1> PICK p : p = [step |-> "collect", delivery |-> d, run |-> n, source |-> source[d.source]]
  OBVIOUS
<1>1. /\ run \in Seq(RunRow) /\ poll[w] = Free /\ d \in Delivery /\ d.source \in Sources
      /\ Exists(d.source) /\ source[d.source] \in SourceRow
  <2>1. d \in Delivery /\ d.source \in Sources
    BY DEF IInv, Types, Delivery
  <2> QED
    BY <2>1, StepsAre DEF Take, IInv, Types, Exists
<1>2. x \in RunRow
  BY <1>1 DEF RunRow, SourceRow
<1>3. /\ poll' = [poll EXCEPT ![w] = p] /\ run' = Append(run, x)
      /\ screened' = Append(screened, {}) /\ waiting' \subseteq waiting
      /\ UNCHANGED <<source, due, live, row, virlo, wish>>
  BY DEF Take
<1>4. /\ run' \in Seq(RunRow) /\ n \in DOMAIN run' /\ n \notin DOMAIN run
      /\ DOMAIN run' = DOMAIN run \cup {n} /\ run'[n] = x
      /\ \A r \in DOMAIN run : run'[r] = run[r]
  BY <1>1, <1>2, <1>3, Appending
<1>5. n \in Nat
  BY <1>1
<1>6. p \in Collecting /\ p # Free /\ p.step = "collect" /\ p.run = n
  BY <1>1, <1>5 DEF Collecting, Free
<1>7. /\ poll' \in [Collectors -> Polls \cup {Free}] /\ poll'[w] = p
      /\ \A v \in Collectors : v # w => poll'[v] = poll[v]
  BY <1>3, <1>6 DEF IInv, Types, Polls
<1>8. /\ DOMAIN screened' = DOMAIN run' /\ \A r \in DOMAIN run : screened'[r] = screened[r]
  <2>1. Len(screened) = Len(run) /\ DOMAIN screened = 1 .. Len(run)
    BY <1>1 DEF IInv, Types
  <2> QED
    BY <1>1, <1>3, <1>4, <2>1
<1>9. RowsOf(row, n) = {}
  BY <1>4 DEF RowsOf, IInv, RowsOK, RowOK
<1>10. Types'
  BY <1>3, <1>4, <1>7, <1>8 DEF IInv, Types, Exists, virlo
<1>11. OwnRuns'
  BY <1>4, <1>6, <1>7 DEF IInv, OwnRuns, PollsOK, PollOK
<1>12. PollsOK'
  <2> SUFFICES ASSUME NEW v \in Collectors, poll'[v] # Free PROVE PollOK(v)'
    BY DEF PollsOK
  <2>1. CASE v = w
    <3>1. Agrees(p, x, {}, screened'[n])
      BY <1>6 DEF Agrees
    <3> QED
      BY <1>1, <1>3, <1>4, <1>6, <1>7, <1>9, <2>1, <3>1 DEF PollOK, Exists
  <2>2. CASE v # w
    <3>1. poll'[v] = poll[v] /\ PollOK(v) /\ poll[v].run \in DOMAIN run
      BY <1>7, <2>2 DEF IInv, PollsOK, PollOK
    <3> QED
      BY <1>3, <1>4, <1>8, <3>1 DEF PollOK, Exists
  <2> QED
    BY <2>1, <2>2
<1>13. RunsOK'
  <2> SUFFICES ASSUME NEW r \in DOMAIN run'
               PROVE  Closed(run'[r], RowsOf(row', r), screened'[r])
    BY DEF RunsOK
  <2>1. CASE r = n
    BY <1>4, <2>1 DEF Closed
  <2>2. CASE r # n
    <3>1. r \in DOMAIN run /\ Closed(run[r], RowsOf(row, r), screened[r])
      BY <1>4, <2>2 DEF IInv, RunsOK
    <3> QED
      BY <1>3, <1>4, <1>8, <3>1
  <2> QED
    BY <2>1, <2>2
<1>14. RowsOK'
  BY <1>3, <1>4 DEF IInv, RowsOK, RowOK
<1>15. SpendOK'
  <2>1. Recorded' = Recorded
    BY <1>2, <1>3, RecordedStays DEF IInv, virlo
  <2>2. Charging' \subseteq Charging
    BY <1>6, <1>7 DEF Charging, Charged
  <2> QED
    BY <1>3, <2>1, <2>2, SpendKeeps DEF IInv, virlo
<1>16. OperatorDecides'
  BY <1>3 DEF IInv, OperatorDecides
<1> QED
  BY <1>10, <1>11, <1>12, <1>13, <1>14, <1>15, <1>16 DEF IInv

\* Operators and the clock leave the runs, their rows and the polls alone.
LEMMA ManagingKeeps ==
    ASSUME IInv, UNCHANGED <<run, row, screened, poll, virlo>>,
           source' \in [Sources -> SourceRow \cup {NoSource}], wish' = source',
           \A s \in Sources : Exists(s) => source'[s] # NoSource,
           due' \subseteq Sources, live' \subseteq Bases, waiting' \subseteq Delivery,
           \A d \in waiting' : source'[d.source] # NoSource
    PROVE  IInv'
<1>1. Types' /\ OwnRuns' /\ RunsOK' /\ RowsOK' /\ OperatorDecides'
  BY DEF IInv, Types, OwnRuns, RunsOK, RowsOK, RowOK, Exists, OperatorDecides, virlo
<1>2. PollsOK'
  <2> SUFFICES ASSUME NEW v \in Collectors, poll[v] # Free PROVE PollOK(v)'
    BY DEF PollsOK
  <2>1. PollOK(v) /\ poll[v].delivery.source \in Sources
    BY Owned DEF IInv, PollsOK, SourceOf
  <2> QED
    BY <2>1 DEF PollOK, Exists
<1>3. Recorded' = Recorded /\ Charging' = Charging
  BY DEF Recorded, RunCosts, Charging, virlo
<1>4. SpendOK'
  BY <1>3, SpendKeeps DEF IInv, virlo
<1> QED
  BY <1>1, <1>2, <1>4 DEF IInv

LEMMA SavingKeeps ==
    ASSUME IInv, NEW s \in Sources, NEW b \in Bases,
           \/ AddSource(s, b) \/ SaveSource(s, b)
           \/ \E status \in {"active", "failed"} : SetStatus(s, status)
    PROVE  IInv'
<1>1. /\ source \in [Sources -> SourceRow \cup {NoSource}] /\ wish = source
      /\ \A d \in waiting : d.source \in Sources /\ Exists(d.source)
  BY DEF IInv, Types, OperatorDecides, Delivery
<1>2. PICK new : new = source'[s]
  OBVIOUS
<1>3. source' = [source EXCEPT ![s] = new] /\ wish' = source' /\ new \in SourceRow
  <2>1. CASE AddSource(s, b)
    <3>1. [status |-> "active", basis |-> b] \in SourceRow
      BY DEF SourceRow
    <3> QED
      BY <1>1, <1>2, <2>1, <3>1 DEF AddSource
  <2>2. CASE SaveSource(s, b)
    <3>1. source[s] \in SourceRow
      BY <1>1, <2>2 DEF SaveSource
    <3>2. [source[s] EXCEPT !.basis = b] \in SourceRow
      BY <3>1 DEF SourceRow
    <3>3. source' = [source EXCEPT ![s] = [source[s] EXCEPT !.basis = b]]
      BY <1>1, <2>2 DEF SaveSource
    <3> QED
      BY <1>1, <1>2, <2>2, <3>2, <3>3 DEF SaveSource
  <2>3. ASSUME NEW status \in {"active", "failed"}, SetStatus(s, status)
        PROVE  source' = [source EXCEPT ![s] = new] /\ wish' = source' /\ new \in SourceRow
    <3>1. source[s] \in SourceRow
      BY <1>1, <2>3 DEF SetStatus
    <3>2. [source[s] EXCEPT !.status = status] \in SourceRow
      BY <3>1 DEF SourceRow
    <3>3. source' = [source EXCEPT ![s] = [source[s] EXCEPT !.status = status]]
      BY <1>1, <2>3 DEF SetStatus
    <3> QED
      BY <1>1, <1>2, <2>3, <3>2, <3>3 DEF SetStatus
  <2> QED
    BY <2>1, <2>2, <2>3
<1>4. new # NoSource
  BY <1>3 DEF SourceRow, NoSource
<1>5. /\ UNCHANGED <<live, waiting, run, row, screened, poll, virlo>>
      /\ due' \subseteq due \cup {s}
  BY DEF AddSource, SaveSource, SetStatus
<1>6. /\ source' \in [Sources -> SourceRow \cup {NoSource}]
      /\ \A t \in Sources : Exists(t) => source'[t] # NoSource
  BY <1>1, <1>3, <1>4 DEF Exists
<1>7. due' \subseteq Sources /\ live' \subseteq Bases /\ waiting' \subseteq Delivery
  BY <1>5 DEF IInv, Types
<1> QED
  BY <1>1, <1>3, <1>5, <1>6, <1>7, ManagingKeeps

LEMMA QueueingKeeps ==
    ASSUME IInv,
           \/ Tick \/ \E b \in Bases : Withdraw(b)
           \/ \E s \in Sources : Elapse(s) \/ PollNow(s)
    PROVE  IInv'
<1>1. /\ UNCHANGED <<source, run, row, screened, poll, virlo, wish>> /\ source' = source /\ wish' = source
      /\ due' \subseteq Sources /\ live' \subseteq Bases
  BY DEF Tick, Withdraw, Elapse, PollNow, IInv, Types, OperatorDecides
<1>2. \A d \in waiting' \ waiting : d \in Delivery /\ d.source \in Sources /\ CanCollect(d.source)
  <2>1. \A s \in Sources : [source |-> s, tries |-> 0] \in Delivery
    BY CollectionAssumption DEF Delivery
  <2>2. CASE Tick
    <3>1. \A d \in waiting' \ waiting : \E s \in Sources : IsDue(s) /\ d = [source |-> s, tries |-> 0]
      BY <2>2 DEF Tick
    <3>2. \A s \in Sources : IsDue(s) => CanCollect(s)
      BY DEF IsDue
    <3> QED
      BY <2>1, <3>1, <3>2
  <2>3. ASSUME NEW s \in Sources, PollNow(s)
        PROVE  \A d \in waiting' \ waiting : d \in Delivery /\ d.source \in Sources /\ CanCollect(d.source)
    BY <2>1, <2>3 DEF PollNow
  <2>4. CASE ~ Tick /\ ~ \E s \in Sources : PollNow(s)
    BY <2>4 DEF Withdraw, Elapse
  <2> QED
    BY <2>2, <2>3, <2>4
<1>3. \A s \in Sources : CanCollect(s) => Exists(s)
  BY DEF CanCollect, Exists, NoSource
<1>4. waiting' \subseteq Delivery /\ \A d \in waiting' : source'[d.source] # NoSource
  BY <1>1, <1>2, <1>3 DEF IInv, Types, Exists
<1>5. \A s \in Sources : Exists(s) => source'[s] # NoSource
  BY <1>1 DEF Exists
<1> QED
  BY <1>1, <1>4, <1>5, ManagingKeeps DEF IInv, Types

-----------------------------------------------------------------------------
\* Reading leaves everything of a poll alone.
LEMMA ReadingKeeps ==
    ASSUME IInv, NEW x \in Readers,
           StartReading(x) \/ \E calls \in 0 .. 1 : EndReading(x, calls)
    PROVE  IInv'
<1>1. /\ UNCHANGED <<source, due, live, waiting, run, row, screened, poll, wish>>
      /\ reading' \subseteq Readers
  BY DEF StartReading, EndReading, IInv, Types
<1>2. /\ Recorded \in Nat /\ Spent \in Nat /\ unseen \in Nat /\ texts \in Nat
      /\ MonthCap \in Nat /\ IsFiniteSet(reading)
  BY RecordedIsNat, Allowance, FS_Subset DEF IInv, Types
<1>3. Charging' = Charging /\ Charging \in SUBSET Collectors
  BY <1>1 DEF Charging
<1>4. SpendOK' /\ texts' \in Nat /\ unseen' \in Nat
  <2>1. CASE StartReading(x)
    <3>1. Recorded' = Recorded
      BY <1>1, <2>1 DEF StartReading, Recorded, RunCosts
    <3>2. SpendOK'
      BY <1>1, <2>1, <3>1, LetThrough DEF StartReading, IInv
    <3> QED
      BY <1>2, <2>1, <3>2 DEF StartReading, Unseen
  <2>2. ASSUME NEW calls \in 0 .. 1, EndReading(x, calls) PROVE SpendOK' /\ texts' \in Nat /\ unseen' \in Nat
    <3>1. Recorded' = Recorded + calls
      <4>1. /\ Recorded = RunCosts(DOMAIN run) + texts
            /\ Recorded' = RunCosts(DOMAIN run) + (texts + calls)
        BY <1>1, <2>2 DEF EndReading, Recorded, RunCosts
      <4>2. RunCosts(DOMAIN run) \in Nat
        <5>1. IsFiniteSet(DOMAIN run) /\ \A r \in DOMAIN run : run[r].cost \in Nat
          BY RunsAreRows DEF IInv, Types
        <5> QED
          BY <5>1, SumIsNat DEF RunCosts
      <4> QED
        BY <1>2, <4>1, <4>2
    <3>2. Cardinality(reading') = Cardinality(reading) - 1 /\ Cardinality(reading) \in Nat
      BY <1>2, <2>2, FS_RemoveElement, FS_CardinalityType DEF EndReading
    <3>3. PollCalls * Cardinality(Charging) \in Nat
      BY <1>3, Allowance, Fewer
    <3> PICK m \in Nat : m = PollCalls * Cardinality(Charging)
      BY <3>3
    <3>4. /\ Coming(Charging, reading) = m + Cardinality(reading)
          /\ Coming(Charging', reading') = m + Cardinality(reading')
      BY <1>3 DEF Coming
    <3>5. Recorded + Coming(Charging, reading) < MonthCap + Coming(Collectors, Readers) + unseen
      BY DEF IInv, SpendOK
    <3>6. Coming(Collectors, Readers) \in Nat
      BY ComingIsBounded
    <3>7. unseen' = unseen /\ texts' = texts + calls
      BY <2>2 DEF EndReading
    <3>8. Recorded' + Coming(Charging', reading') < MonthCap + Coming(Collectors, Readers) + unseen'
      BY <1>2, <3>1, <3>2, <3>4, <3>5, <3>6, <3>7
    <3> QED
      BY <1>2, <3>7, <3>8 DEF SpendOK
  <2> QED
    BY <2>1, <2>2
<1>5. Types' /\ OwnRuns' /\ RunsOK' /\ RowsOK' /\ OperatorDecides' /\ PollsOK'
  BY <1>1, <1>4 DEF IInv, Types, OwnRuns, RunsOK, RowsOK, RowOK, Exists, OperatorDecides, PollsOK, PollOK
<1> QED
  BY <1>4, <1>5 DEF IInv

LEMMA InvariantBegins == CollectionInit => IInv
<1> SUFFICES ASSUME CollectionInit PROVE IInv
  OBVIOUS
<1>1. run = <<>> /\ row = {} /\ DOMAIN run = {} /\ \A w \in Collectors : poll[w] = Free
  BY DEF CollectionInit
<1>2. Types
  BY <1>1, FS_EmptySet DEF CollectionInit, Types
<1>3. OwnRuns /\ PollsOK /\ RunsOK /\ RowsOK /\ OperatorDecides
  BY <1>1 DEF CollectionInit, OwnRuns, PollsOK, RunsOK, RowsOK, OperatorDecides
<1>4. Recorded = 0
  <2>1. RunCosts({}) = 0
    BY SumOfNone DEF RunCosts
  <2> QED
    BY <1>1, <2>1 DEF Recorded, CollectionInit
<1>5. Charging = {}
  BY <1>1 DEF Charging, Charged, Free
<1>6. SpendOK
  <2>1. PollCalls * Cardinality(Charging) = 0
    BY <1>5, FS_EmptySet, Allowance
  <2>2. Coming(Charging, reading) = 0 /\ unseen = 0
    BY <2>1, FS_EmptySet DEF Coming, CollectionInit
  <2>3. PollCalls * Cardinality(Collectors) \in Nat /\ PollCalls * Cardinality(Collectors) > 0
    BY Allowance
  <2>4. Coming(Collectors, Readers) \in Nat /\ Coming(Collectors, Readers) > 0
    <3> PICK m \in Nat : m = PollCalls * Cardinality(Collectors)
      BY <2>3
    <3> QED
      BY <2>3, Allowance DEF Coming
  <2> QED
    BY <1>4, <2>2, <2>4, Allowance DEF SpendOK
<1> QED
  BY <1>2, <1>3, <1>6 DEF IInv

LEMMA InvariantKeeps == IInv /\ [CollectionNext]_collectionVars => IInv'
<1> SUFFICES ASSUME IInv, [CollectionNext]_collectionVars PROVE IInv'
  OBVIOUS
<1>1. CASE UNCHANGED collectionVars
  <2>1. UNCHANGED <<source, due, live, waiting, run, row, screened, poll, virlo, wish>>
    BY <1>1 DEF collectionVars
  <2> QED
    BY <2>1, ManagingKeeps DEF IInv, Types, OperatorDecides, Exists
<1>2. CASE Tick
  BY <1>2, QueueingKeeps
<1>3. ASSUME NEW b \in Bases, Withdraw(b) PROVE IInv'
  BY <1>3, QueueingKeeps
<1>4. ASSUME NEW s \in Sources, Managing(s) PROVE IInv'
  <2>1. CASE \E b \in Bases : AddSource(s, b) \/ SaveSource(s, b)
    BY <2>1, SavingKeeps
  <2>2. CASE \E status \in {"active", "failed"} : SetStatus(s, status)
    <3>1. PICK b \in Bases : TRUE
      BY <2>2 DEF SetStatus, IInv, Types, SourceRow
    <3> QED
      BY <2>2, <3>1, SavingKeeps
  <2>3. CASE Elapse(s) \/ PollNow(s)
    BY <2>3, QueueingKeeps
  <2> QED
    BY <1>4, <2>1, <2>2, <2>3 DEF Managing
<1>5. ASSUME NEW w \in Collectors, Polling(w) PROVE IInv'
  <2>1. CASE \E d \in waiting : Take(w, d)
    BY <2>1, TakeKeeps
  <2>2. CASE Ask(w)
    BY <2>2, AskKeeps
  <2>3. CASE Refused(w)
    BY <2>3, RefusedKeeps
  <2>4. CASE \E outcome \in {"failed", "blocked"}, calls \in Charges(SourceOf(w)) :
                 VendorFailed(w, outcome, calls)
    BY <2>4, VendorFailedKeeps
  <2>5. CASE \E arrivals \in Answers, calls \in Searched(SourceOf(w)) :
                 Answered(w, arrivals, calls)
    BY <2>5, AnsweredKeeps
  <2>6. CASE LookUp(w) \/ Skip(w)
    BY <2>6, LookUpKeeps, SkipKeeps
  <2>7. CASE Store(w)
    BY <2>7, StoreKeeps
  <2>8. CASE Screen(w)
    BY <2>8, ScreenKeeps
  <2>9. CASE Finish(w)
    BY <2>9, FinishKeeps
  <2>10. CASE MarkPolled(w)
    BY <2>10, MarkPolledKeeps
  <2>11. CASE Lost(w) \/ Broken(w)
    BY <2>11, LostKeeps
  <2> QED
    BY <1>5, <2>1, <2>2, <2>3, <2>4, <2>5, <2>6, <2>7, <2>8, <2>9, <2>10, <2>11 DEF Polling
<1>6. ASSUME NEW x \in Readers, Reading(x) PROVE IInv'
  BY <1>6, ReadingKeeps DEF Reading
<1> QED
  BY <1>1, <1>2, <1>3, <1>4, <1>5, <1>6 DEF CollectionNext

LEMMA InvariantHolds == CollectionSpec => []IInv
BY InvariantBegins, InvariantKeeps, PTL DEF CollectionSpec

-----------------------------------------------------------------------------
\* Every table holds rows of its kind, and a poll belongs to a run, whatever
\* polls overlap, are lost or are tried again.
THEOREM CollectionTypesHold == CollectionSpec => []CollectionTypeOK
<1>1. IInv => CollectionTypeOK
  <2> SUFFICES ASSUME IInv PROVE CollectionTypeOK
    OBVIOUS
  <2>1. \A r \in DOMAIN run : run[r] \in RunRow
    BY RunsAreRows DEF IInv, Types
  <2>2. \A w \in Collectors : ~ At(w, "free") => poll[w].run \in DOMAIN run
    BY StepsAre, Owned DEF IInv
  <2> QED
    BY <2>1, <2>2 DEF IInv, Types, RowsOK, RowOK, CollectionTypeOK
<1> QED
  BY <1>1, InvariantHolds, PTL

\* A run that succeeded counts the rows that carry its number, the items it
\* held already and the rows that came without an id, and has sent each of the
\* rows to the gate; one that failed has left none (services/ingest.py).
THEOREM RunsAccount == CollectionSpec => []RunsAccountForRows
<1>1. IInv => RunsAccountForRows
  <2> SUFFICES ASSUME IInv, NEW r \in DOMAIN run
               PROVE  LET made == {i \in row : i.run = r} IN
                      /\ run[r].status = "succeeded" =>
                            /\ run[r].created = Cardinality(made)
                            /\ run[r].collected = run[r].created + run[r].seen + run[r].blank
                            /\ screened[r] = {[post |-> i.post, wording |-> i.wording] : i \in made}
                      /\ run[r].status = "failed" => made = {}
    BY DEF RunsAccountForRows
  <2> QED
    BY DEF IInv, RunsOK, Closed, RowsOf, Keys
<1> QED
  BY <1>1, InvariantHolds, PTL

\* An item carries the policy its source had when the poll began, and that was
\* live when the vendor was asked, whatever an operator saves or withdraws
\* while the vendor answers (sources/models.py, ProviderPolicyVersion).
THEOREM BasisIsRecorded == CollectionSpec => []RecordedBasis
<1>1. IInv => RecordedBasis
  BY DEF IInv, RowsOK, RowOK, RecordedBasis
<1> QED
  BY <1>1, InvariantHolds, PTL

\* No poll undoes what an operator saved of its source meanwhile
\* (sources/models.py, mark_polled).
THEOREM OperatorHasTheSay == CollectionSpec => []OperatorDecides
<1>1. IInv => OperatorDecides
  BY DEF IInv
<1> QED
  BY <1>1, InvariantHolds, PTL

\* Every ended run has recorded the calls it made, and all that is recorded
\* stays below the month's cap, a poll of every process, a call of every reader
\* and what was outside the ledger when one of them was let through: which is
\* nothing while no source that was charged has been put under the policy of
\* another vendor (services/spend.py).
THEOREM SpendStaysBounded == CollectionSpec => []SpendIsBounded
<1>1. IInv => SpendIsBounded
  <2> SUFFICES ASSUME IInv PROVE SpendIsBounded
    OBVIOUS
  <2>1. \A r \in DOMAIN run : run[r].status # "running" => run[r].cost = run[r].made
    BY DEF IInv, RunsOK, Closed
  <2>2. Charging \in SUBSET Collectors /\ reading \in SUBSET Readers
    BY DEF Charging, IInv, Types
  <2>3. Coming(Charging, reading) \in Nat /\ Recorded \in Nat /\ unseen \in Nat /\ MonthCap \in Nat
    BY <2>2, ComingIsBounded, RecordedIsNat, Allowance DEF IInv, Types
  <2>4. Coming(Collectors, Readers) \in Nat
    BY ComingIsBounded
  <2>5. Recorded < MonthCap + Coming(Collectors, Readers) + unseen
    BY <2>3, <2>4 DEF IInv, SpendOK
  <2>6. Coming(Collectors, Readers) = Cardinality(Collectors) * PollCalls + Cardinality(Readers)
    BY Allowance DEF Coming
  <2> PICK c \in Nat : c = Cardinality(Collectors) * PollCalls
    BY Allowance
  <2>7. Recorded < MonthCap + c + Cardinality(Readers) + unseen
    BY <2>3, <2>5, <2>6, Allowance
  <2> QED
    BY <2>1, <2>7 DEF SpendIsBounded
<1> QED
  BY <1>1, InvariantHolds, PTL

-----------------------------------------------------------------------------
(* The cap on models.                                                      *)
(*                                                                         *)
(* LedgerBounded is not inductive: what is under way must be counted too.  *)
(* Every open call may add MaxCost to the ledger once, so the sum of the   *)
(* ledger and MaxCost for each open call is what stays below the bound: a  *)
(* check opens a call while the ledger is within the cap, a record moves   *)
(* at most MaxCost from the second part to the first.  The bill is the     *)
(* ledger, what answered calls have yet to record, and what was lost.      *)

Opened(calls) == [c \in Callers |-> IF calls[c] = NoCall THEN 0 ELSE MaxCost]
Due(calls) == [c \in Callers |-> calls[c].cost]
Under(f) == SumFunctionOnSet(f, Callers)

CapInv ==
    /\ \A c \in Callers : call[c].step = "asked" => call[c].cost = 0
    /\ Cap > 0 => ledger + Under(Opened(call)) <= Cap + Slack
    /\ billed <= ledger + Under(Due(call)) + MaxCost * losses

\* The types hold in every state.
THEOREM CostTypeCorrect == CostSpec => []CostTypeOK
<1>1. CostInit => CostTypeOK
  BY CostAssumption DEF CostInit, CostTypeOK, Call, Costs, NoCall
<1>2. CostTypeOK /\ [CostNext]_costVars => CostTypeOK'
  <2> SUFFICES ASSUME CostTypeOK, [CostNext]_costVars PROVE CostTypeOK'
    OBVIOUS
  <2> USE CostAssumption DEF CostTypeOK, Call, Costs, NoCall
  <2>1. CASE \E c \in Callers, e \in Estimates : Check(c, e)
    BY <2>1 DEF Check
  <2>2. CASE \E c \in Callers, cost \in Costs : Answer(c, cost)
    BY <2>2 DEF Answer
  <2>3. CASE \E c \in Callers, bill, guess \in Costs : Raised(c, bill, guess)
    BY <2>3 DEF Raised
  <2>4. CASE \E c \in Callers : Note(c)
    BY <2>4 DEF Note
  <2>5. CASE \E c \in Callers : RecordCost(c)
    BY <2>5 DEF RecordCost
  <2>6. CASE \E c \in Callers, bill \in Costs : Crash(c, bill)
    BY <2>6 DEF Crash
  <2>7. CASE NewMonth
    BY <2>7 DEF NewMonth
  <2>8. CASE UNCHANGED costVars
    BY <2>8 DEF costVars
  <2> QED
    BY <2>1, <2>2, <2>3, <2>4, <2>5, <2>6, <2>7, <2>8 DEF CostNext
<1> QED
  BY <1>1, <1>2, PTL DEF CostSpec

\* What is under way is counted by numbers, and what is pending is at most what is
\* open.
LEMMA UnderIsNat ==
    ASSUME NEW calls \in [Callers -> Call \cup {NoCall}]
    PROVE  /\ Under(Due(calls)) \in Nat /\ Under(Opened(calls)) \in Nat /\ Slack \in Nat
           /\ Under(Opened(calls)) <= Slack /\ Under(Due(calls)) <= Under(Opened(calls))
<1> PICK d, o : d = Due(calls) /\ o = Opened(calls)
  OBVIOUS
<1>1. IsFiniteSet(Callers) /\ MaxCost \in Nat /\ Cardinality(Callers) \in Nat
  BY CostAssumption, FS_CardinalityType
<1>2. \A c \in Callers : d[c] \in Nat /\ o[c] \in 0 .. MaxCost /\ o[c] \in Nat /\ d[c] <= o[c]
  BY <1>1 DEF Call, Costs, NoCall, Due, Opened
<1>3. SumFunctionOnSet(d, Callers) \in Nat
  BY <1>1, <1>2, SumIsNat
<1>4. SumFunctionOnSet(o, Callers) \in Nat
  BY <1>1, <1>2, SumIsNat
<1>5. SumFunctionOnSet(o, Callers) <= Slack
  BY <1>1, <1>2, SumIsBounded DEF Slack
<1>6. SumFunctionOnSet(d, Callers) <= SumFunctionOnSet(o, Callers)
  BY <1>1, <1>2, SumIsMonotone
<1>7. Slack \in Nat
  BY <1>1 DEF Slack
<1> QED
  BY <1>3, <1>4, <1>5, <1>6, <1>7 DEF Under

\* When one call comes further, what is under way changes by that call.
LEMMA OneCall ==
    ASSUME CostTypeOK, CostTypeOK', NEW c \in Callers,
           \A b \in Callers \ {c} : call'[b] = call[b]
    PROVE  /\ Under(Due(call')) = Under(Due(call)) - Due(call)[c] + Due(call')[c]
           /\ Under(Opened(call')) = Under(Opened(call)) - Opened(call)[c] + Opened(call')[c]
<1>1. IsFiniteSet(Callers) /\ MaxCost \in Nat
  BY CostAssumption
<1>2. PICK d, e, o, p : d = Due(call) /\ e = Due(call') /\ o = Opened(call) /\ p = Opened(call')
  OBVIOUS
<1>3. \A b \in Callers : d[b] \in Nat /\ e[b] \in Nat /\ o[b] \in Nat /\ p[b] \in Nat
  BY <1>1, <1>2 DEF CostTypeOK, Call, Costs, NoCall, Due, Opened
<1>4. \A b \in Callers \ {c} : e[b] = d[b] /\ p[b] = o[b]
  BY <1>2 DEF Due, Opened
<1>5. SumFunctionOnSet(e, Callers) = SumFunctionOnSet(d, Callers) - d[c] + e[c]
  BY <1>1, <1>3, <1>4, SumOfChanged
<1>6. SumFunctionOnSet(p, Callers) = SumFunctionOnSet(o, Callers) - o[c] + p[c]
  BY <1>1, <1>3, <1>4, SumOfChanged
<1>7. /\ Under(Due(call')) = SumFunctionOnSet(e, Callers) /\ Under(Due(call)) = SumFunctionOnSet(d, Callers)
      /\ Under(Opened(call')) = SumFunctionOnSet(p, Callers)
      /\ Under(Opened(call)) = SumFunctionOnSet(o, Callers)
  BY <1>2 DEF Under
<1> QED
  BY <1>2, <1>5, <1>6, <1>7

\* A call under way comes further: what is added to the bill is recorded, pending
\* or lost, and what is added to the ledger was open.
LEMMA CallKeeps ==
    ASSUME CostTypeOK, CostTypeOK', CapInv, NEW c \in Callers, call[c] # NoCall,
           \A b \in Callers \ {c} : call'[b] = call[b],
           call'[c].step = "asked" => call'[c].cost = 0,
           NEW cost \in Costs, NEW bill \in Nat,
           cost = IF call'[c] = NoCall THEN MaxCost ELSE 0,
           ledger' <= ledger + cost, losses <= losses', billed' = billed + bill,
           bill + ledger + call[c].cost + MaxCost * losses
               <= ledger' + call'[c].cost + MaxCost * losses'
    PROVE  CapInv'
<1>1. /\ ledger \in Nat /\ ledger' \in Nat /\ billed \in Nat /\ billed' \in Nat /\ MaxCost \in Nat
      /\ losses \in Nat /\ losses' \in Nat /\ call[c].cost \in Nat /\ call'[c].cost \in Nat
      /\ cost \in Nat /\ Cap \in Nat
  BY CostAssumption DEF CostTypeOK, Call, NoCall, Costs
<1>2. /\ Under(Due(call)) \in Nat /\ Under(Opened(call)) \in Nat /\ Slack \in Nat /\ Under(Due(call')) \in Nat
      /\ Under(Opened(call')) \in Nat
  BY UnderIsNat DEF CostTypeOK
<1>3. /\ Due(call)[c] = call[c].cost /\ Due(call')[c] = call'[c].cost
      /\ Opened(call)[c] = MaxCost /\ Opened(call')[c] = MaxCost - cost
  BY <1>1 DEF Due, Opened
<1>4. Under(Due(call')) = Under(Due(call)) - call[c].cost + call'[c].cost
  BY <1>3, OneCall
<1>5. Under(Opened(call')) = Under(Opened(call)) - cost
  BY <1>1, <1>2, <1>3, OneCall
<1>6. MaxCost * losses \in Nat /\ MaxCost * losses' \in Nat
  <2>1. \A m, n \in Nat : m * n \in Nat
    OBVIOUS
  <2> QED
    BY <1>1, <2>1
<1> DEFINE pending == Under(Due(call))
           pending1 == Under(Due(call'))
           lost == MaxCost * losses
           lost1 == MaxCost * losses'
           opened == Under(Opened(call))
           opened1 == Under(Opened(call'))
<1>7. billed <= ledger + pending + lost
  BY DEF CapInv
<1>8. Cap > 0 => ledger + opened <= Cap + Slack
  BY DEF CapInv
<1>9. billed' <= ledger' + pending1 + lost1
  <2> HIDE DEF pending, pending1, lost, lost1
  <2> QED
    BY <1>1, <1>2, <1>4, <1>6, <1>7 DEF pending, pending1, lost, lost1
<1>10. Cap > 0 => ledger' + opened1 <= Cap + Slack
  <2> HIDE DEF opened, opened1
  <2> QED
    BY <1>1, <1>2, <1>5, <1>8 DEF opened, opened1
<1>11. \A b \in Callers : call'[b].step = "asked" => call'[b].cost = 0
  BY DEF CapInv
<1>12. Slack' = Slack
  BY DEF Slack
<1> QED
  BY <1>9, <1>10, <1>11, <1>12 DEF CapInv

LEMMA CheckKeeps ==
    ASSUME CostTypeOK, CostTypeOK', CapInv, NEW c \in Callers, NEW e \in Estimates, Check(c, e)
    PROVE  CapInv'
<1>1. /\ call[c] = NoCall /\ call' = [call EXCEPT ![c].step = "asked"]
      /\ ledger' = ledger /\ billed' = billed /\ losses' = losses
  BY DEF Check
<1>2. /\ call'[c].step = "asked" /\ call'[c].cost = 0 /\ call[c].cost = 0
      /\ \A b \in Callers \ {c} : call'[b] = call[b]
  BY <1>1 DEF CostTypeOK, NoCall
<1>3. Under(Due(call')) = Under(Due(call))
  <2>1. Under(Due(call')) = Under(Due(call)) - Due(call)[c] + Due(call')[c]
    BY <1>2, OneCall
  <2>2. Due(call)[c] = 0 /\ Due(call')[c] = 0 /\ Under(Due(call)) \in Nat
    BY <1>2, UnderIsNat DEF Due, CostTypeOK
  <2> QED
    BY <2>1, <2>2
<1>4. Cap > 0 => ledger' <= Cap
  BY <1>1, CostAssumption DEF Check, Passes, CostTypeOK
<1>5. Under(Opened(call')) <= Slack /\ Under(Opened(call')) \in Nat /\ Slack \in Nat
  BY UnderIsNat DEF Slack, CostTypeOK
<1>6. Cap > 0 => ledger' + Under(Opened(call')) <= Cap + Slack
  <2>1. ledger' \in Nat /\ Cap \in Nat
    BY CostAssumption DEF CostTypeOK
  <2> QED
    BY <1>4, <1>5, <2>1
<1>7. \A b \in Callers : call'[b].step = "asked" => call'[b].cost = 0
  BY <1>2 DEF CapInv
<1>8. billed' <= ledger' + Under(Due(call')) + MaxCost * losses'
  BY <1>1, <1>3 DEF CapInv
<1>9. Slack' = Slack
  BY DEF Slack
<1> QED
  BY <1>6, <1>7, <1>8, <1>9 DEF CapInv

LEMMA CapKeeps ==
    ASSUME CostTypeOK, CostTypeOK', CapInv, [CostNext]_costVars
    PROVE  CapInv'
<1>1. /\ ledger \in Nat /\ billed \in Nat /\ losses \in Nat /\ MaxCost \in Nat
      /\ 0 \in Costs /\ MaxCost \in Costs /\ Costs \subseteq Nat /\ MaxCost * losses \in Nat
      /\ MaxCost * (losses + 1) = MaxCost * losses + MaxCost
  BY CostAssumption DEF CostTypeOK, Costs
<1>2. \A c \in Callers : /\ call[c].cost \in Costs /\ call[c].cost \in 0 .. MaxCost
                         /\ call[c].step # "idle" => call[c] # NoCall
                         /\ call[c].step = "asked" => call[c].cost = 0
  BY <1>1 DEF CostTypeOK, Call, NoCall, Costs, CapInv
<1> DEFINE lost == MaxCost * losses
<1>3. ASSUME NEW c \in Callers, NEW cost \in Costs, Answer(c, cost) PROVE CapInv'
  <2>1. call'[c] = [step |-> "answered", cost |-> cost] /\ call'[c] # NoCall
        /\ \A b \in Callers \ {c} : call'[b] = call[b]
    BY <1>3 DEF Answer, CostTypeOK, NoCall
  <2>2. /\ call[c] # NoCall /\ call[c].cost = 0 /\ ledger' = ledger /\ losses' = losses
        /\ billed' = billed + cost /\ cost \in Nat
    BY <1>1, <1>2, <1>3 DEF Answer
  <2>3. cost + ledger + call[c].cost + lost <= ledger' + call'[c].cost + MaxCost * losses'
    <3>1. lost \in Nat /\ MaxCost * losses' = lost
      BY <1>1, <2>2
    <3> HIDE DEF lost
    <3> QED
      BY <1>1, <2>1, <2>2, <3>1
  <2> QED
    BY <1>1, <2>1, <2>2, <2>3, CallKeeps
<1>4. ASSUME NEW c \in Callers, NEW bill \in Costs, NEW guess \in Costs, Raised(c, bill, guess)
      PROVE  CapInv'
  <2>1. call'[c] = [step |-> "answered", cost |-> guess] /\ call'[c] # NoCall
        /\ \A b \in Callers \ {c} : call'[b] = call[b]
    BY <1>4 DEF Raised, CostTypeOK, NoCall
  <2>2. /\ call[c] # NoCall /\ call[c].cost = 0 /\ ledger' = ledger /\ losses' = losses + 1
        /\ billed' = billed + bill /\ bill \in Nat /\ bill <= MaxCost /\ guess \in Nat
    BY <1>1, <1>2, <1>4 DEF Raised, Costs
  <2>3. bill + ledger + call[c].cost + lost <= ledger' + call'[c].cost + MaxCost * losses'
    <3>1. lost \in Nat /\ MaxCost * losses' = lost + MaxCost
      BY <1>1, <2>2
    <3> HIDE DEF lost
    <3> QED
      BY <1>1, <2>1, <2>2, <3>1
  <2> QED
    BY <1>1, <2>1, <2>2, <2>3, CallKeeps
<1>5. ASSUME NEW c \in Callers, Note(c) PROVE CapInv'
  <2>1. call'[c] = [call[c] EXCEPT !.step = "noted"] /\ call[c] # NoCall
        /\ \A b \in Callers \ {c} : call'[b] = call[b]
    BY <1>2, <1>5 DEF Note, CostTypeOK
  <2>2. call'[c].step = "noted" /\ call'[c].cost = call[c].cost /\ call'[c] # NoCall
    BY <2>1 DEF CostTypeOK, Call, NoCall
  <2>3. ledger' = ledger /\ losses' = losses /\ billed' = billed + 0
    BY <1>1, <1>5 DEF Note
  <2>4. 0 + ledger + call[c].cost + lost <= ledger' + call'[c].cost + MaxCost * losses'
    <3>1. lost \in Nat /\ MaxCost * losses' = lost /\ call[c].cost \in Nat
      BY <1>1, <1>2, <2>3
    <3> HIDE DEF lost
    <3> QED
      BY <1>1, <2>2, <2>3, <3>1
  <2>5. /\ \A b \in Callers \ {c} : call'[b] = call[b]
        /\ call'[c].step = "asked" => call'[c].cost = 0
        /\ call[c] # NoCall /\ 0 = IF call'[c] = NoCall THEN MaxCost ELSE 0
        /\ ledger' <= ledger + 0 /\ losses <= losses'
        /\ 0 + ledger + call[c].cost + MaxCost * losses
              <= ledger' + call'[c].cost + MaxCost * losses'
    BY <1>1, <2>1, <2>2, <2>3, <2>4
  <2> QED
    BY <1>1, <2>3, <2>5, CallKeeps
<1>6. ASSUME NEW c \in Callers, RecordCost(c) PROVE CapInv'
  <2>1. call'[c] = NoCall /\ call[c] # NoCall /\ \A b \in Callers \ {c} : call'[b] = call[b]
    BY <1>2, <1>6 DEF RecordCost, CostTypeOK
  <2>2. call'[c].cost = 0 /\ call'[c].step # "asked"
    BY <2>1 DEF NoCall
  <2>3. /\ ledger' = ledger + call[c].cost /\ losses' = losses /\ billed' = billed + 0
        /\ call[c].cost \in Nat /\ call[c].cost <= MaxCost
    BY <1>1, <1>2, <1>6 DEF RecordCost
  <2>4. 0 + ledger + call[c].cost + lost <= ledger' + call'[c].cost + MaxCost * losses'
    <3>1. lost \in Nat /\ MaxCost * losses' = lost
      BY <1>1, <2>3
    <3> HIDE DEF lost
    <3> QED
      BY <1>1, <2>2, <2>3, <3>1
  <2> QED
    BY <1>1, <2>1, <2>2, <2>3, <2>4, CallKeeps
<1>7. ASSUME NEW c \in Callers, NEW bill \in Costs, Crash(c, bill) PROVE CapInv'
  <2>1. call'[c] = NoCall /\ call[c] # NoCall /\ \A b \in Callers \ {c} : call'[b] = call[b]
    BY <1>7 DEF Crash, CostTypeOK
  <2>2. call'[c].cost = 0 /\ call'[c].step # "asked"
    BY <2>1 DEF NoCall
  <2> DEFINE more == IF call[c].step = "asked" THEN bill ELSE 0
  <2>3. /\ ledger' = ledger /\ losses' = losses + 1 /\ billed' = billed + more /\ more \in Nat
        /\ call[c].cost \in Nat /\ more + call[c].cost <= MaxCost
    BY <1>1, <1>2, <1>7 DEF Crash, Costs
  <2>4. more + ledger + call[c].cost + lost <= ledger' + call'[c].cost + MaxCost * losses'
    <3>1. lost \in Nat /\ MaxCost * losses' = lost + MaxCost
      BY <1>1, <2>3
    <3> HIDE DEF lost, more
    <3> QED
      BY <1>1, <2>2, <2>3, <3>1
  <2>5. PICK add \in Nat : add = more
    BY <2>3
  <2> HIDE DEF more
  <2>6. billed' = billed + add /\ losses <= losses' /\ ledger' <= ledger + MaxCost
    BY <1>1, <2>3, <2>5
  <2>7. add + ledger + call[c].cost + MaxCost * losses <= ledger' + call'[c].cost + MaxCost * losses'
    BY <2>4, <2>5
  <2> QED
    BY <1>1, <2>1, <2>2, <2>6, <2>7, CallKeeps
<1>8. CASE NewMonth
  <2>1. ledger' = 0 /\ billed' = 0 /\ losses' = 0 /\ call' = call /\ MaxCost * losses' = 0
    BY <1>1, <1>8 DEF NewMonth
  <2>2. /\ Under(Due(call')) \in Nat /\ Under(Opened(call')) \in Nat /\ Under(Opened(call')) <= Slack
        /\ Slack' = Slack /\ Slack \in Nat /\ Cap \in Nat
    BY UnderIsNat, CostAssumption DEF CostTypeOK, Slack
  <2>3. Cap > 0 => ledger' + Under(Opened(call')) <= Cap + Slack'
    BY <2>1, <2>2
  <2>4. billed' <= ledger' + Under(Due(call')) + MaxCost * losses'
    BY <2>1, <2>2
  <2> QED
    BY <2>1, <2>3, <2>4 DEF CapInv
<1>9. CASE UNCHANGED costVars
  BY <1>9 DEF costVars, CapInv, Slack
<1> QED
  BY <1>3, <1>4, <1>5, <1>6, <1>7, <1>8, <1>9, CheckKeeps DEF CostNext

LEMMA CapInvHolds == CostSpec => [](CostTypeOK /\ CapInv)
<1>1. CostInit => CapInv
  <2> SUFFICES ASSUME CostInit PROVE CapInv
    OBVIOUS
  <2>1. CostTypeOK
    BY CostAssumption DEF CostInit, CostTypeOK, Call, Costs, NoCall
  <2>2. \A c \in Callers : call[c] = NoCall
    BY DEF CostInit
  <2>3. \A c \in Callers : call[c].step # "asked"
    BY <2>2 DEF NoCall
  <2>4. /\ Under(Due(call)) \in Nat /\ Under(Opened(call)) \in Nat /\ Under(Opened(call)) <= Slack
        /\ Slack \in Nat /\ Cap \in Nat /\ MaxCost * 0 = 0
    BY <2>1, UnderIsNat, CostAssumption DEF CostTypeOK
  <2>5. ledger = 0 /\ billed = 0 /\ losses = 0
    BY DEF CostInit
  <2>6. Cap > 0 => ledger + Under(Opened(call)) <= Cap + Slack
    BY <2>4, <2>5
  <2>7. billed <= ledger + Under(Due(call)) + MaxCost * losses
    BY <2>4, <2>5
  <2> QED
    BY <2>3, <2>6, <2>7 DEF CapInv
<1> QED
  BY <1>1, CapKeeps, CostTypeCorrect, PTL DEF CostSpec

\* Whatever the calls cost and however they interleave, the ledger passes the
\* cap by one call of each caller at most.
THEOREM OvershootIsBounded == CostSpec => []LedgerBounded
<1>1. CostTypeOK /\ CapInv => LedgerBounded
  <2> SUFFICES ASSUME CostTypeOK, CapInv, Cap > 0 PROVE ledger <= Cap + Slack
    BY DEF LedgerBounded
  <2>1. Under(Opened(call)) \in Nat /\ Slack \in Nat
    BY UnderIsNat DEF CostTypeOK
  <2> QED
    BY <2>1, CostAssumption DEF CapInv, CostTypeOK
<1> QED
  BY <1>1, CapInvHolds, PTL

\* What the vendor bills passes the cap by no more than that and the calls
\* whose cost was lost with a process or a response.
THEOREM BillIsBounded == CostSpec => []BillBounded
<1>1. CostTypeOK /\ CapInv => BillBounded
  <2> SUFFICES ASSUME CostTypeOK, CapInv, Cap > 0 PROVE billed <= Cap + Slack + MaxCost * losses
    BY DEF BillBounded
  <2>1. /\ Under(Opened(call)) \in Nat /\ Slack \in Nat /\ Under(Due(call)) \in Nat
        /\ Under(Due(call)) <= Under(Opened(call))
    BY UnderIsNat DEF CostTypeOK
  <2>2. /\ ledger \in Nat /\ billed \in Nat /\ Cap \in Nat /\ MaxCost * losses \in Nat
    BY CostAssumption DEF CostTypeOK
  <2>3. ledger + Under(Opened(call)) <= Cap + Slack /\ billed <= ledger + Under(Due(call)) + MaxCost * losses
    BY DEF CapInv
  <2> QED
    BY <2>1, <2>2, <2>3
<1> QED
  BY <1>1, CapInvHolds, PTL

=============================================================================
