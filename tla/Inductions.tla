------------------------------- MODULE Inductions -------------------------------
(***************************************************************************)
(* Induction without an operator parameter: least numbers and sets of      *)
(* numbers closed under successor; and what they give, the laws of sums    *)
(* over finite sets, of folds along sequences, of flattened sequences, and *)
(* that a finite set with a total order can be put in line.                *)
(***************************************************************************)
EXTENDS SequencesExt, FiniteSetTheorems, SequenceTheorems, WellFoundedInduction, TLAPS

Less == {p \in Nat \X Nat : p[1] < p[2]}

\* Every set of natural numbers that is not empty has a least element.
LEMMA LeastNumber ==
  ASSUME NEW T, T \subseteq Nat, T # {} PROVE \E n \in T : \A m \in T : n <= m
<1>1. IsWellFoundedOn(Less, Nat)
  BY NatLessThanWellFounded DEF OpToRel, Less
<1>2. PICK n \in T : \A m \in T : ~ (<<m, n>> \in Less)
  BY <1>1, WFMin, Zenon
<1>3. \A m \in Nat : m < n => <<m, n>> \in Less
  BY DEF Less
<1>4. \A m \in T : m \in Nat /\ ~ (m < n)
  BY <1>2, <1>3
<1>5. \A m \in T : n <= m
  BY <1>4
<1> QED
  BY <1>5

\* A set that holds 0 and the successor of what it holds has every number.
LEMMA AllNumbers ==
  ASSUME NEW T, 0 \in T, \A n \in Nat : n \in T => n + 1 \in T PROVE Nat \subseteq T
<1> DEFINE B == Nat \ T
<1> SUFFICES ASSUME B # {} PROVE FALSE
  OBVIOUS
<1>1. PICK n \in B : \A m \in B : n <= m
  BY LeastNumber
<1>2. n # 0 /\ n - 1 \in Nat /\ n - 1 \notin B
  BY <1>1
<1> QED
  BY <1>2

-----------------------------------------------------------------------------
(* Sums over finite sets.                                                  *)

First(s) == CHOOSE x \in s : TRUE
UpTo(S, n) == {s \in SUBSET S : Cardinality(s) <= n}
Summing(g, f, D) ==
    g = [s \in D |-> IF s = {} THEN 0 ELSE f[First(s)] + g[s \ {First(s)}]]

LEMMA FirstIsIn == ASSUME NEW s, s # {} PROVE First(s) \in s
  BY DEF First

LEMMA NoneUpToZero ==
  ASSUME NEW S, IsFiniteSet(S) PROVE \A s \in UpTo(S, 0) : s = {}
BY FS_Subset, FS_EmptySet, FS_CardinalityType DEF UpTo

LEMMA OneLess ==
  ASSUME NEW S, IsFiniteSet(S), NEW s \in SUBSET S, NEW x \in s, NEW n \in Nat,
         Cardinality(s) <= n + 1
  PROVE /\ IsFiniteSet(s) /\ Cardinality(s \ {x}) <= n /\ s \ {x} \in UpTo(S, n)
        /\ Cardinality(s \ {x}) \in Nat
<1>1. IsFiniteSet(s) /\ IsFiniteSet(s \ {x})
  BY FS_Subset
<1>2. Cardinality(s \ {x}) = Cardinality(s) - 1
  BY <1>1, FS_RemoveElement
<1> QED
  BY <1>1, <1>2, FS_CardinalityType DEF UpTo

LEMMA SummingExists ==
  ASSUME NEW S, IsFiniteSet(S), NEW f PROVE \E g : Summing(g, f, SUBSET S)
<1> DEFINE T == {n \in Nat : \E g : Summing(g, f, UpTo(S, n))}
<1>1. 0 \in T
  <2> DEFINE g == [s \in UpTo(S, 0) |-> 0]
  <2>1. \A s \in UpTo(S, 0) : s = {}
    BY NoneUpToZero
  <2>2. Summing(g, f, UpTo(S, 0))
    BY <2>1 DEF Summing
  <2> QED
    BY <2>2
<1>2. ASSUME NEW n \in Nat, n \in T PROVE n + 1 \in T
  <2>1. PICK g : Summing(g, f, UpTo(S, n))
    BY <1>2
  <2> DEFINE h == [s \in UpTo(S, n + 1) |->
                      IF s = {} THEN 0 ELSE f[First(s)] + g[s \ {First(s)}]]
  <2>2. ASSUME NEW s \in UpTo(S, n + 1), s # {} PROVE h[s \ {First(s)}] = g[s \ {First(s)}]
    <3> DEFINE t == s \ {First(s)}
    <3>1. t \in UpTo(S, n)
      BY <2>2, FirstIsIn, OneLess DEF UpTo
    <3>2. t \in UpTo(S, n + 1)
      BY <3>1, FS_Subset, FS_CardinalityType DEF UpTo
    <3>3. g[t] = IF t = {} THEN 0 ELSE f[First(t)] + g[t \ {First(t)}]
      BY <2>1, <3>1 DEF Summing
    <3> QED
      BY <3>2, <3>3
  <2>3. Summing(h, f, UpTo(S, n + 1))
    BY <2>2 DEF Summing
  <2> QED
    BY <2>3
<1>3. Cardinality(S) \in T
  <2> HIDE DEF T
  <2> QED
    BY <1>1, <1>2, AllNumbers, FS_CardinalityType
<1>4. UpTo(S, Cardinality(S)) = SUBSET S
  BY FS_Subset DEF UpTo
<1> QED
  BY <1>3, <1>4

LEMMA SummingIsUnique ==
  ASSUME NEW S, IsFiniteSet(S), NEW R, R \subseteq S, NEW f, NEW g, NEW h,
         NEW e, \A x \in R : e[x] = f[x],
         Summing(g, f, SUBSET S), Summing(h, e, SUBSET R)
  PROVE g[R] = h[R]
<1> DEFINE T == {n \in Nat : \A s \in UpTo(R, n) : g[s] = h[s]}
<1>0. IsFiniteSet(R)
  BY FS_Subset
<1>1. 0 \in T
  <2>1. \A s \in UpTo(R, 0) : s = {}
    BY <1>0, FS_Subset, FS_EmptySet, FS_CardinalityType DEF UpTo
  <2> QED
    BY <2>1 DEF Summing, UpTo
<1>2. ASSUME NEW n \in Nat, n \in T PROVE n + 1 \in T
  <2>1. ASSUME NEW s \in UpTo(R, n + 1) PROVE g[s] = h[s]
    <3>1. CASE s = {}
      BY <3>1 DEF Summing, UpTo
    <3>2. CASE s # {}
      <4> DEFINE t == s \ {First(s)}
      <4>1. t \in UpTo(R, n) /\ First(s) \in R
        BY <1>0, <3>2, FirstIsIn, OneLess DEF UpTo
      <4>2. g[t] = h[t]
        BY <1>2, <4>1
      <4>3. g[s] = f[First(s)] + g[t] /\ h[s] = e[First(s)] + h[t]
        BY <3>2 DEF Summing, UpTo
      <4> QED
        BY <4>1, <4>2, <4>3
    <3> QED
      BY <3>1, <3>2
  <2> QED
    BY <2>1
<1>3. Cardinality(R) \in T
  <2> HIDE DEF T
  <2> QED
    BY <1>0, <1>1, <1>2, AllNumbers, FS_CardinalityType
<1>4. UpTo(R, Cardinality(R)) = SUBSET R
  BY <1>0, FS_Subset DEF UpTo
<1> QED
  BY <1>3, <1>4

LEMMA SummingAgrees ==
  ASSUME NEW S, IsFiniteSet(S), NEW R, R \subseteq S, NEW f, NEW g, NEW h,
         Summing(g, f, SUBSET S), Summing(h, f, SUBSET R)
  PROVE g[R] = h[R]
<1>1. \A x \in R : f[x] = f[x]
  OBVIOUS
<1> QED
  BY <1>1, SummingIsUnique

LEMMA SumIsSumming ==
  ASSUME NEW S, IsFiniteSet(S), NEW f
  PROVE \E g : Summing(g, f, SUBSET S) /\ SumFunctionOnSet(f, S) = g[S]
<1> DEFINE g == CHOOSE g : Summing(g, f, SUBSET S)
<1>1. Summing(g, f, SUBSET S)
  BY SummingExists
<1>2. SumFunctionOnSet(f, S) = g[S]
  BY DEF SumFunctionOnSet, FoldFunctionOnSet, MapThenFoldSet, Summing, First
<1> QED
  BY <1>1, <1>2

\* The empty sum, and a sum of any one and the rest.
LEMMA SumOfNone == ASSUME NEW f PROVE SumFunctionOnSet(f, {}) = 0
<1>1. PICK g : Summing(g, f, SUBSET {}) /\ SumFunctionOnSet(f, {}) = g[{}]
  BY SumIsSumming, FS_EmptySet
<1> QED
  BY <1>1 DEF Summing

LEMMA SumOfFirst ==
  ASSUME NEW S, IsFiniteSet(S), S # {}, NEW f
  PROVE SumFunctionOnSet(f, S) = f[First(S)] + SumFunctionOnSet(f, S \ {First(S)})
<1> DEFINE R == S \ {First(S)}
<1>1. PICK g : Summing(g, f, SUBSET S) /\ SumFunctionOnSet(f, S) = g[S]
  BY SumIsSumming
<1>2. IsFiniteSet(R) /\ R \in SUBSET S
  BY FS_Subset
<1>3. PICK h : Summing(h, f, SUBSET R) /\ SumFunctionOnSet(f, R) = h[R]
  BY <1>2, SumIsSumming
<1>4. g[R] = h[R]
  <2>1. R \subseteq S /\ Summing(g, f, SUBSET S) /\ Summing(h, f, SUBSET R)
    BY <1>1, <1>2, <1>3
  <2> HIDE DEF R
  <2> QED
    BY <2>1, SummingAgrees
<1>5. g[S] = f[First(S)] + g[R]
  BY <1>1 DEF Summing
<1> QED
  BY <1>1, <1>3, <1>4, <1>5

LEMMA SumIsNat ==
  ASSUME NEW S, IsFiniteSet(S), NEW f, \A x \in S : f[x] \in Nat
  PROVE SumFunctionOnSet(f, S) \in Nat
<1> DEFINE T == {n \in Nat : \A s \in UpTo(S, n) : SumFunctionOnSet(f, s) \in Nat}
<1>1. 0 \in T
  <2>1. \A s \in UpTo(S, 0) : s = {}
    BY NoneUpToZero
  <2> QED
    BY <2>1, SumOfNone
<1>2. ASSUME NEW n \in Nat, n \in T PROVE n + 1 \in T
  <2>1. ASSUME NEW s \in UpTo(S, n + 1) PROVE SumFunctionOnSet(f, s) \in Nat
    <3>1. CASE s # {}
      <4> DEFINE t == s \ {First(s)}
      <4>1. t \in UpTo(S, n) /\ IsFiniteSet(s) /\ First(s) \in S
        BY <3>1, FirstIsIn, OneLess DEF UpTo
      <4>2. SumFunctionOnSet(f, t) \in Nat
        BY <1>2, <4>1
      <4>3. SumFunctionOnSet(f, s) = f[First(s)] + SumFunctionOnSet(f, t)
        BY <3>1, <4>1, SumOfFirst
      <4>4. f[First(s)] \in Nat
        BY <4>1
      <4> QED
        BY <4>2, <4>3, <4>4
    <3>2. CASE s = {}
      BY <3>2, SumOfNone
    <3> QED
      BY <3>1, <3>2
  <2> QED
    BY <2>1
<1>3. Cardinality(S) \in T
  <2> HIDE DEF T
  <2> QED
    BY <1>1, <1>2, AllNumbers, FS_CardinalityType
<1> QED
  BY <1>3 DEF UpTo

LEMMA SumOfOne ==
  ASSUME NEW S, IsFiniteSet(S), NEW f, \A x \in S : f[x] \in Nat, NEW x \in S
  PROVE SumFunctionOnSet(f, S) = f[x] + SumFunctionOnSet(f, S \ {x})
<1> DEFINE Splits(s) == \A y \in s : SumFunctionOnSet(f, s) = f[y] + SumFunctionOnSet(f, s \ {y})
           T == {n \in Nat : \A s \in UpTo(S, n) : Splits(s)}
<1>1. 0 \in T
  <2>1. \A s \in UpTo(S, 0) : s = {}
    BY NoneUpToZero
  <2> QED
    BY <2>1
<1>2. ASSUME NEW n \in Nat, n \in T PROVE n + 1 \in T
  <2>1. ASSUME NEW s \in UpTo(S, n + 1), NEW y \in s
        PROVE SumFunctionOnSet(f, s) = f[y] + SumFunctionOnSet(f, s \ {y})
    <3> DEFINE c == First(s)
               t == s \ {c}
               u == s \ {y}
               v == s \ {c, y}
    <3>1. c \in s /\ IsFiniteSet(s) /\ c \in S /\ y \in S
      BY FirstIsIn, FS_Subset DEF UpTo
    <3>2. SumFunctionOnSet(f, s) = f[c] + SumFunctionOnSet(f, t)
      BY <3>1, SumOfFirst
    <3>3. CASE c = y
      BY <3>2, <3>3
    <3>4. CASE c # y
      <4>1. t \in UpTo(S, n) /\ u \in UpTo(S, n) /\ y \in t /\ c \in u
        BY <3>1, <3>4, OneLess DEF UpTo
      <4>2. t \ {y} = v /\ u \ {c} = v
        OBVIOUS
      <4>3. Splits(t) /\ Splits(u)
        BY <1>2, <4>1
      <4>4. SumFunctionOnSet(f, t) = f[y] + SumFunctionOnSet(f, v)
        BY <4>1, <4>2, <4>3
      <4>5. SumFunctionOnSet(f, u) = f[c] + SumFunctionOnSet(f, v)
        BY <4>1, <4>2, <4>3
      <4>6. IsFiniteSet(v) /\ SumFunctionOnSet(f, v) \in Nat /\ f[c] \in Nat /\ f[y] \in Nat
        BY <3>1, FS_Subset, SumIsNat DEF UpTo
      <4> QED
        BY <3>2, <4>4, <4>5, <4>6
    <3> QED
      BY <3>3, <3>4
  <2> QED
    BY <2>1
<1>3. Cardinality(S) \in T
  <2> HIDE DEF T
  <2> QED
    BY <1>1, <1>2, AllNumbers, FS_CardinalityType
<1>4. Splits(S)
  BY <1>3 DEF UpTo
<1> QED
  BY <1>4

\* A sum looks at the set and nothing else.
LEMMA SumOfSame ==
  ASSUME NEW S, IsFiniteSet(S), NEW f, NEW e, \A x \in S : e[x] = f[x]
  PROVE SumFunctionOnSet(f, S) = SumFunctionOnSet(e, S)
<1>1. PICK g : Summing(g, f, SUBSET S) /\ SumFunctionOnSet(f, S) = g[S]
  BY SumIsSumming
<1>2. PICK h : Summing(h, e, SUBSET S) /\ SumFunctionOnSet(e, S) = h[S]
  BY SumIsSumming
<1> QED
  BY <1>1, <1>2, SummingIsUnique

\* Two functions that differ at one element.
LEMMA SumOfChanged ==
  ASSUME NEW S, IsFiniteSet(S), NEW x \in S, NEW f, NEW e,
         \A y \in S : f[y] \in Nat /\ e[y] \in Nat, \A y \in S \ {x} : e[y] = f[y]
  PROVE SumFunctionOnSet(e, S) = SumFunctionOnSet(f, S) - f[x] + e[x]
<1> DEFINE R == S \ {x}
<1>1. IsFiniteSet(R)
  BY FS_Subset
<1>2. SumFunctionOnSet(f, R) = SumFunctionOnSet(e, R) /\ SumFunctionOnSet(f, R) \in Nat
  BY <1>1, SumOfSame, SumIsNat
<1>3. SumFunctionOnSet(f, S) = f[x] + SumFunctionOnSet(f, R)
  BY SumOfOne
<1>4. SumFunctionOnSet(e, S) = e[x] + SumFunctionOnSet(e, R)
  BY SumOfOne
<1> QED
  BY <1>2, <1>3, <1>4

\* A sum of small numbers.
LEMMA SumIsBounded ==
  ASSUME NEW S, IsFiniteSet(S), NEW b \in Nat, NEW f, \A x \in S : f[x] \in 0 .. b
  PROVE SumFunctionOnSet(f, S) <= b * Cardinality(S)
<1> DEFINE T == {n \in Nat : \A s \in UpTo(S, n) : SumFunctionOnSet(f, s) <= b * Cardinality(s)}
<1>1. 0 \in T
  <2>1. \A s \in UpTo(S, 0) : s = {}
    BY NoneUpToZero
  <2> QED
    BY <2>1, SumOfNone, FS_EmptySet
<1>2. ASSUME NEW n \in Nat, n \in T PROVE n + 1 \in T
  <2>1. ASSUME NEW s \in UpTo(S, n + 1) PROVE SumFunctionOnSet(f, s) <= b * Cardinality(s)
    <3>1. CASE s # {}
      <4> DEFINE t == s \ {First(s)}
                 k == Cardinality(t)
      <4>1. t \in UpTo(S, n) /\ IsFiniteSet(s) /\ First(s) \in s
        BY <3>1, FirstIsIn, OneLess DEF UpTo
      <4>2. SumFunctionOnSet(f, t) <= b * k
        BY <1>2, <4>1
      <4>3. Cardinality(s) = k + 1 /\ k \in Nat /\ IsFiniteSet(t)
        BY <4>1, FS_RemoveElement, FS_CardinalityType, FS_Subset
      <4>4. SumFunctionOnSet(f, s) = f[First(s)] + SumFunctionOnSet(f, t)
        BY <3>1, <4>1, SumOfFirst
      <4>5. f[First(s)] \in 0 .. b /\ SumFunctionOnSet(f, t) \in Nat
        BY <4>1, <4>3, SumIsNat DEF UpTo
      <4>6. b * (k + 1) = b * k + b /\ b * k \in Nat
        BY <4>3
      <4> QED
        BY <4>2, <4>3, <4>4, <4>5, <4>6
    <3>2. CASE s = {}
      BY <3>2, SumOfNone, FS_EmptySet
    <3> QED
      BY <3>1, <3>2
  <2> QED
    BY <2>1
<1>3. Cardinality(S) \in T
  <2> HIDE DEF T
  <2> QED
    BY <1>1, <1>2, AllNumbers, FS_CardinalityType
<1> QED
  BY <1>3 DEF UpTo
\* Sums compare as their terms do.
LEMMA SumIsMonotone ==
  ASSUME NEW S, IsFiniteSet(S), NEW f, NEW e,
         \A x \in S : f[x] \in Nat /\ e[x] \in Nat /\ f[x] <= e[x]
  PROVE SumFunctionOnSet(f, S) <= SumFunctionOnSet(e, S)
<1> DEFINE T == {n \in Nat : \A s \in UpTo(S, n) : SumFunctionOnSet(f, s) <= SumFunctionOnSet(e, s)}
<1>1. 0 \in T
  <2>1. \A s \in UpTo(S, 0) : s = {}
    BY NoneUpToZero
  <2>2. SumFunctionOnSet(f, {}) = 0
    BY SumOfNone
  <2>3. SumFunctionOnSet(e, {}) = 0
    BY SumOfNone
  <2> QED
    BY <2>1, <2>2, <2>3
<1>2. ASSUME NEW n \in Nat, n \in T PROVE n + 1 \in T
  <2>1. ASSUME NEW s \in UpTo(S, n + 1)
        PROVE  SumFunctionOnSet(f, s) <= SumFunctionOnSet(e, s)
    <3>1. CASE s # {}
      <4> DEFINE t == s \ {First(s)}
      <4>1. t \in UpTo(S, n) /\ IsFiniteSet(s) /\ First(s) \in S /\ IsFiniteSet(t) /\ t \subseteq S
        BY <3>1, FirstIsIn, OneLess, FS_Subset DEF UpTo
      <4>2. SumFunctionOnSet(f, t) <= SumFunctionOnSet(e, t)
        BY <1>2, <4>1
      <4>3. SumFunctionOnSet(f, s) = f[First(s)] + SumFunctionOnSet(f, t)
        BY <3>1, <4>1, SumOfFirst
      <4>4. SumFunctionOnSet(e, s) = e[First(s)] + SumFunctionOnSet(e, t)
        BY <3>1, <4>1, SumOfFirst
      <4>5. SumFunctionOnSet(f, t) \in Nat
        BY <4>1, SumIsNat
      <4>6. SumFunctionOnSet(e, t) \in Nat
        BY <4>1, SumIsNat
      <4>7. f[First(s)] \in Nat /\ e[First(s)] \in Nat /\ f[First(s)] <= e[First(s)]
        BY <4>1
      <4> HIDE DEF t
      <4> QED
        BY <4>2, <4>3, <4>4, <4>5, <4>6, <4>7
    <3>2. CASE s = {}
      BY <3>2, SumOfNone
    <3> QED
      BY <3>1, <3>2
  <2> QED
    BY <2>1
<1>3. Cardinality(S) \in T
  <2> HIDE DEF T
  <2> QED
    BY <1>1, <1>2, AllNumbers, FS_CardinalityType
<1> QED
  BY <1>3 DEF UpTo

-----------------------------------------------------------------------------
(* Finite sets of numbers, and what is made of a finite set.               *)

\* A finite set of numbers that is not empty has a highest.
LEMMA HasHighest ==
  ASSUME NEW S, IsFiniteSet(S), S \subseteq Int, S # {}
  PROVE  \E m \in S : \A x \in S : x <= m
<1> DEFINE Top(s) == s # {} => \E m \in s : \A x \in s : x <= m
           T == {n \in Nat : \A s \in UpTo(S, n) : Top(s)}
<1>1. 0 \in T
  <2>1. \A s \in UpTo(S, 0) : s = {}
    BY NoneUpToZero
  <2> QED
    BY <2>1
<1>2. ASSUME NEW n \in Nat, n \in T PROVE n + 1 \in T
  <2> SUFFICES ASSUME NEW s \in UpTo(S, n + 1), s # {} PROVE \E m \in s : \A x \in s : x <= m
    OBVIOUS
  <2>1. PICK y \in s : TRUE
    OBVIOUS
  <2>2. s \in SUBSET S /\ Cardinality(s) <= n + 1
    BY DEF UpTo
  <2>3. s \ {y} \in UpTo(S, n)
    BY <2>2, OneLess
  <2>4. Top(s \ {y})
    BY <1>2, <2>3
  <2>5. s \subseteq Int
    BY <2>2
  <2> QED
    BY <2>1, <2>4, <2>5
<1> HIDE DEF T
<1>3. Nat \subseteq T
  BY <1>1, <1>2, AllNumbers
<1>4. Cardinality(S) \in Nat /\ S \in UpTo(S, Cardinality(S))
  BY FS_CardinalityType DEF UpTo
<1> QED
  BY <1>3, <1>4 DEF T

LEMMA ImageIsFinite ==
  ASSUME NEW S, IsFiniteSet(S), NEW f PROVE IsFiniteSet({f[x] : x \in S})
<1> DEFINE g == [x \in S |-> f[x]]
           R == {f[x] : x \in S}
<1>1. g \in Surjection(S, R)
  BY DEF Surjection
<1> QED
  BY <1>1, FS_Surjection

\* Sums of multiples.
LEMMA SumOfMultiples ==
  ASSUME NEW S, IsFiniteSet(S), NEW f, NEW e, NEW k \in Nat,
         \A x \in S : f[x] \in Nat /\ e[x] = k * f[x]
  PROVE  SumFunctionOnSet(e, S) = k * SumFunctionOnSet(f, S)
<1> DEFINE T == {n \in Nat : \A s \in UpTo(S, n) : SumFunctionOnSet(e, s) = k * SumFunctionOnSet(f, s)}
<1>1. 0 \in T
  <2>1. \A s \in UpTo(S, 0) : s = {}
    BY NoneUpToZero
  <2>2. SumFunctionOnSet(f, {}) = 0 /\ SumFunctionOnSet(e, {}) = 0
    BY SumOfNone
  <2>3. k * 0 = 0
    OBVIOUS
  <2>4. SumFunctionOnSet(e, {}) = k * SumFunctionOnSet(f, {})
    BY <2>2, <2>3
  <2> QED
    BY <2>1, <2>4
<1>2. ASSUME NEW n \in Nat, n \in T PROVE n + 1 \in T
  <2> SUFFICES ASSUME NEW s \in UpTo(S, n + 1)
               PROVE  SumFunctionOnSet(e, s) = k * SumFunctionOnSet(f, s)
    OBVIOUS
  <2>1. s \in SUBSET S /\ Cardinality(s) <= n + 1 /\ IsFiniteSet(s)
    BY FS_Subset DEF UpTo
  <2>2. CASE s = {}
    BY <1>1, <2>2, SumOfNone
  <2>3. CASE s # {}
    <3>1. PICK y \in s : TRUE
      BY <2>3
    <3>2. s \ {y} \in UpTo(S, n) /\ IsFiniteSet(s \ {y})
      BY <2>1, OneLess, FS_Subset
    <3>3. PICK a : a = SumFunctionOnSet(f, s \ {y})
      OBVIOUS
    <3>4. SumFunctionOnSet(e, s \ {y}) = k * a
      BY <1>2, <3>2, <3>3
    <3>5. a \in Nat /\ \A x \in s : f[x] \in Nat /\ e[x] \in Nat
      BY <2>1, <3>2, <3>3, SumIsNat
    <3>6. SumFunctionOnSet(f, s) = f[y] + SumFunctionOnSet(f, s \ {y})
      BY <2>1, <3>5, SumOfOne
    <3>7. SumFunctionOnSet(e, s) = e[y] + SumFunctionOnSet(e, s \ {y})
      BY <2>1, <3>5, SumOfOne
    <3>8. SumFunctionOnSet(f, s) = f[y] + a /\ SumFunctionOnSet(e, s) = e[y] + k * a
      BY <3>3, <3>4, <3>6, <3>7
    <3>9. e[y] = k * f[y] /\ f[y] \in Nat
      BY <2>1, <3>1
    <3>10. k * f[y] + k * a = k * (f[y] + a)
      BY <3>5, <3>9
    <3> QED
      BY <3>8, <3>9, <3>10
  <2> QED
    BY <2>2, <2>3
<1> HIDE DEF T
<1>3. Nat \subseteq T
  BY <1>1, <1>2, AllNumbers
<1>4. Cardinality(S) \in Nat /\ S \in UpTo(S, Cardinality(S))
  BY FS_CardinalityType DEF UpTo
<1> QED
  BY <1>3, <1>4 DEF T

-----------------------------------------------------------------------------
(* Folds along a sequence.                                                 *)

\* One application after another, to the elements a set of places picks out.
Folding(h, b, step, D) ==
    h = [s \in D |-> IF s = {} THEN b ELSE step[<<Max(s), h[s \ {Max(s)}]>>]]

LEMMA MaxIs ==
  ASSUME NEW S, IsFiniteSet(S), S \subseteq Int, S # {}
  PROVE  Max(S) \in S /\ \A x \in S : x <= Max(S)
<1>1. \E m \in S : \A x \in S : x <= m
  BY HasHighest
<1>2. \E m \in S : \A x \in S : m >= x
  BY <1>1
<1>3. Max(S) \in S /\ \A x \in S : Max(S) >= x
  BY <1>2 DEF Max
<1> QED
  BY <1>3

LEMMA MaxIsIn ==
  ASSUME NEW n \in Nat, NEW s \in SUBSET (1 .. n), s # {} PROVE Max(s) \in 1 .. n
<1>1. IsFiniteSet(s)
  <2>1. IsFiniteSet(1 .. n)
    BY FS_Interval
  <2> QED
    BY <2>1, FS_Subset
<1>2. s \subseteq Int
  OBVIOUS
<1>3. Max(s) \in s
  BY <1>1, <1>2, MaxIs
<1> QED
  BY <1>3

LEMMA MaxOfPrefix ==
  ASSUME NEW k \in Nat \ {0} PROVE Max(1 .. k) = k /\ (1 .. k) \ {k} = 1 .. (k - 1)
<1>1. k \in 1 .. k /\ \A x \in 1 .. k : k >= x
  OBVIOUS
<1>2. Max(1 .. k) \in 1 .. k /\ \A x \in 1 .. k : Max(1 .. k) >= x
  BY <1>1 DEF Max
<1> QED
  BY <1>1, <1>2

LEMMA FoldExists ==
  ASSUME NEW n \in Nat, NEW A, NEW b \in A, NEW step \in [(1 .. n) \X A -> A]
  PROVE  \E h \in [SUBSET (1 .. n) -> A] : Folding(h, b, step, SUBSET (1 .. n))
<1> DEFINE S == 1 .. n
           T == {m \in Nat : \E h \in [UpTo(S, m) -> A] : Folding(h, b, step, UpTo(S, m))}
<1>0. IsFiniteSet(S) /\ S \subseteq Int
  BY FS_Interval
<1>1. 0 \in T
  <2> DEFINE h == [s \in UpTo(S, 0) |-> b]
  <2>1. \A s \in UpTo(S, 0) : s = {}
    BY <1>0, NoneUpToZero
  <2>2. Folding(h, b, step, UpTo(S, 0))
    BY <2>1 DEF Folding
  <2> QED
    BY <2>2
<1>2. ASSUME NEW m \in Nat, m \in T PROVE m + 1 \in T
  <2>1. PICK g \in [UpTo(S, m) -> A] : Folding(g, b, step, UpTo(S, m))
    BY <1>2
  <2> DEFINE h == [s \in UpTo(S, m + 1) |->
                      IF s = {} THEN b ELSE step[<<Max(s), g[s \ {Max(s)}]>>]]
  <2>2. ASSUME NEW s \in UpTo(S, m + 1), s # {}
        PROVE  /\ h[s \ {Max(s)}] = g[s \ {Max(s)}]
               /\ Max(s) \in S /\ g[s \ {Max(s)}] \in A
    <3> DEFINE x == Max(s)
               t == s \ {x}
    <3>1. s \subseteq S /\ IsFiniteSet(s) /\ Cardinality(s) <= m + 1
      BY <1>0, FS_Subset DEF UpTo
    <3>2. x \in s
      BY <1>0, <2>2, <3>1, MaxIs
    <3>3. t \in UpTo(S, m) /\ Cardinality(t) \in Nat
      <4> HIDE DEF x
      <4> QED
        BY <1>0, <3>1, <3>2, OneLess
    <3>4. t \in UpTo(S, m + 1)
      BY <3>3 DEF UpTo
    <3>5. g[t] = IF t = {} THEN b ELSE step[<<Max(t), g[t \ {Max(t)}]>>]
      BY <2>1, <3>3 DEF Folding
    <3>6. h[t] = IF t = {} THEN b ELSE step[<<Max(t), g[t \ {Max(t)}]>>]
      BY <3>4
    <3> QED
      BY <3>1, <3>2, <3>3, <3>5, <3>6
  <2>3. h \in [UpTo(S, m + 1) -> A]
    BY <2>2
  <2>4. Folding(h, b, step, UpTo(S, m + 1))
    BY <2>2 DEF Folding
  <2> HIDE DEF h
  <2>5. \E e \in [UpTo(S, m + 1) -> A] : Folding(e, b, step, UpTo(S, m + 1))
    BY <2>3, <2>4
  <2> QED
    BY <2>5
<1>3. Cardinality(S) \in T
  <2> HIDE DEF T
  <2> QED
    BY <1>0, <1>1, <1>2, AllNumbers, FS_CardinalityType
<1>4. UpTo(S, Cardinality(S)) = SUBSET S
  BY <1>0, FS_Subset DEF UpTo
<1> QED
  BY <1>3, <1>4

LEMMA PrefixIs ==
  ASSUME NEW n \in Nat, NEW k \in 1 .. n
  PROVE  /\ 1 .. k # {} /\ 1 .. k \in SUBSET (1 .. n) /\ 1 .. (k - 1) \in SUBSET (1 .. n)
         /\ k \in Nat \ {0} /\ k \in 0 .. n /\ k - 1 \in 0 .. n
         /\ Max(1 .. k) = k /\ (1 .. k) \ {k} = 1 .. (k - 1)
<1>1. k \in Nat \ {0} /\ k <= n
  OBVIOUS
<1>2. 1 .. k # {} /\ 1 .. k \in SUBSET (1 .. n) /\ 1 .. (k - 1) \in SUBSET (1 .. n)
  BY <1>1
<1>3. k \in 0 .. n /\ k - 1 \in 0 .. n
  BY <1>1
<1> QED
  BY <1>1, <1>2, <1>3, MaxOfPrefix

\* What goes step by step from b.
Running(g, b, step, n) ==
    /\ g[0] = b
    /\ \A k \in 1 .. n : g[k] = step[<<k, g[k - 1]>>]

\* However many steps there are, something goes by them.
LEMMA RunExists ==
  ASSUME NEW n \in Nat, NEW A, NEW b \in A, NEW step \in [(1 .. n) \X A -> A]
  PROVE  \E g \in [0 .. n -> A] : Running(g, b, step, n)
<1>1. PICK h \in [SUBSET (1 .. n) -> A] : Folding(h, b, step, SUBSET (1 .. n))
  BY FoldExists
<1> DEFINE g == [k \in 0 .. n |-> h[1 .. k]]
<1>2. g \in [0 .. n -> A]
  <2> SUFFICES ASSUME NEW k \in 0 .. n PROVE h[1 .. k] \in A
    OBVIOUS
  <2>1. 1 .. k \in SUBSET (1 .. n)
    OBVIOUS
  <2> QED
    BY <1>1, <2>1
<1>3. g[0] = b
  <2>1. 1 .. 0 = {} /\ {} \in SUBSET (1 .. n)
    OBVIOUS
  <2> QED
    BY <1>1, <2>1 DEF Folding
<1>4. ASSUME NEW k \in 1 .. n PROVE g[k] = step[<<k, g[k - 1]>>]
  <2>1. /\ 1 .. k # {} /\ 1 .. k \in SUBSET (1 .. n) /\ k \in 0 .. n /\ k - 1 \in 0 .. n
        /\ Max(1 .. k) = k /\ (1 .. k) \ {k} = 1 .. (k - 1)
    BY PrefixIs
  <2>2. h[1 .. k] = step[<<Max(1 .. k), h[(1 .. k) \ {Max(1 .. k)}]>>]
    BY <1>1, <2>1 DEF Folding
  <2> QED
    BY <2>1, <2>2
<1>5. Running(g, b, step, n)
  <2> HIDE DEF g
  <2> QED
    BY <1>3, <1>4 DEF Running
<1> HIDE DEF g
<1> QED
  BY <1>2, <1>5

-----------------------------------------------------------------------------
(* Sequences of sequences.                                                 *)

\* What the first k sequences come to, for every k.
FlatTo(g, seqs, n) ==
    /\ g[0] = <<>>
    /\ \A k \in 1 .. n : g[k] = g[k - 1] \o seqs[k]

LEMMA ConcatRuns ==
  ASSUME NEW T, NEW n \in Nat, NEW f, \A k \in 1 .. n : f[k] \in Seq(T)
  PROVE  \E g \in [0 .. n -> Seq(T)] : FlatTo(g, f, n)
<1> DEFINE step == [p \in (1 .. n) \X Seq(T) |-> p[2] \o f[p[1]]]
<1>1. step \in [(1 .. n) \X Seq(T) -> Seq(T)]
  <2> SUFFICES ASSUME NEW p \in (1 .. n) \X Seq(T) PROVE p[2] \o f[p[1]] \in Seq(T)
    OBVIOUS
  <2>1. p[2] \in Seq(T) /\ f[p[1]] \in Seq(T)
    OBVIOUS
  <2> QED
    BY <2>1
<1>2. <<>> \in Seq(T)
  OBVIOUS
<1>3. PICK g \in [0 .. n -> Seq(T)] : Running(g, <<>>, step, n)
  <2> HIDE DEF step
  <2> QED
    BY <1>1, <1>2, RunExists
<1>4. g[0] = <<>>
  BY <1>3 DEF Running
<1>5. ASSUME NEW k \in 1 .. n PROVE g[k] = g[k - 1] \o f[k]
  <2>1. g[k] = step[<<k, g[k - 1]>>]
    BY <1>3 DEF Running
  <2>2. g[k - 1] \in Seq(T)
    BY PrefixIs
  <2> QED
    BY <2>1, <2>2
<1> QED
  BY <1>4, <1>5 DEF FlatTo

LEMMA FlattenRuns ==
  ASSUME NEW T, NEW seqs \in Seq(Seq(T))
  PROVE  \E g \in [0 .. Len(seqs) -> Seq(T)] :
            FlatTo(g, seqs, Len(seqs)) /\ FlattenSeq(seqs) = g[Len(seqs)]
<1>1. PICK n \in Nat : n = Len(seqs)
  OBVIOUS
<1>2. \A k \in 1 .. n : seqs[k] \in Seq(T)
  BY <1>1, ElementOfSeq
<1>3. PICK g \in [0 .. n -> Seq(T)] : FlatTo(g, seqs, n)
  BY <1>2, ConcatRuns
<1>4. g[0] = <<>> /\ \A k \in 1 .. n : g[k] = g[k - 1] \o seqs[k]
  BY <1>3 DEF FlatTo
<1>5. CASE n = 0
  <2>1. seqs = <<>>
    BY <1>1, <1>5, EmptySeq
  <2>2. FlattenSeq(seqs) = seqs
    BY <1>1, <1>5 DEF FlattenSeq
  <2> QED
    BY <1>1, <1>4, <1>3, <1>5, <2>1, <2>2
<1>6. CASE n # 0
  <2> DEFINE Flat(f) == f = [i \in 1 .. n |-> IF i = 1 THEN seqs[i] ELSE f[i - 1] \o seqs[i]]
             f0 == [k \in 1 .. n |-> g[k]]
             f1 == CHOOSE f : Flat(f)
  <2>1. \A s \in Seq(T) : <<>> \o s = s
    BY ConcatEmptySeq
  <2>2. g[1] = seqs[1]
    <3>1. 1 \in 1 .. n /\ 1 - 1 = 0
      BY <1>6
    <3>2. g[1] = g[0] \o seqs[1]
      BY <1>4, <3>1
    <3> QED
      BY <1>2, <1>4, <2>1, <3>1, <3>2
  <2>3. Flat(f0)
    <3> SUFFICES ASSUME NEW i \in 1 .. n
                 PROVE  g[i] = IF i = 1 THEN seqs[i] ELSE f0[i - 1] \o seqs[i]
      OBVIOUS
    <3>1. g[i] = g[i - 1] \o seqs[i]
      BY <1>4
    <3>2. CASE i # 1
      <4>1. i - 1 \in 1 .. n
        BY <3>2
      <4> QED
        BY <3>1, <3>2, <4>1
    <3> QED
      BY <2>2, <3>2
  <2>4. Flat(f1)
    <3> HIDE DEF Flat, f0
    <3> QED
      BY <2>3
  <2>5. FlattenSeq(seqs) = f1[n]
    BY <1>1, <1>6 DEF FlattenSeq
  <2> HIDE DEF f1, f0
  <2> DEFINE S == {k \in Nat : k \in 1 .. n => f1[k] = g[k]}
  <2>6. 0 \in S
    OBVIOUS
  <2>7. ASSUME NEW k \in Nat, k \in S PROVE k + 1 \in S
    <3> SUFFICES ASSUME k + 1 \in 1 .. n PROVE f1[k + 1] = g[k + 1]
      OBVIOUS
    <3>1. PICK l \in 1 .. n : l = k + 1 /\ l - 1 = k
      OBVIOUS
    <3>2. f1[l] = IF l = 1 THEN seqs[l] ELSE f1[l - 1] \o seqs[l]
      BY <2>4
    <3>3. g[l] = g[l - 1] \o seqs[l]
      BY <1>4
    <3>4. CASE l # 1
      <4>1. k \in 1 .. n
        BY <3>1, <3>4
      <4>2. f1[k] = g[k]
        BY <2>7, <4>1
      <4> QED
        BY <3>1, <3>2, <3>3, <3>4, <4>2
    <3>5. CASE l = 1
      BY <2>2, <3>1, <3>2, <3>5
    <3> QED
      BY <3>4, <3>5
  <2>8. Nat \subseteq S
    <3> HIDE DEF S, Flat
    <3> QED
      BY <2>6, <2>7, AllNumbers
  <2>9. f1[n] = g[n]
    BY <1>6, <2>8
  <2> QED
    BY <1>1, <1>4, <1>3, <2>5, <2>9
<1> QED
  BY <1>5, <1>6

LEMMA ToSetOfConcat ==
  ASSUME NEW T, NEW s \in Seq(T), NEW t \in Seq(T)
  PROVE  ToSet(s \o t) = ToSet(s) \cup ToSet(t)
<1>1. ASSUME NEW i \in 1 .. Len(s) PROVE (s \o t)[i] = s[i] /\ i \in DOMAIN (s \o t)
  OBVIOUS
<1>2. ASSUME NEW i \in 1 .. Len(t)
      PROVE  (s \o t)[Len(s) + i] = t[i] /\ Len(s) + i \in DOMAIN (s \o t)
  OBVIOUS
<1>3. ASSUME NEW i \in DOMAIN (s \o t)
      PROVE  (s \o t)[i] \in ToSet(s) \cup ToSet(t)
  <2>1. CASE i <= Len(s)
    BY <1>1, <2>1 DEF ToSet
  <2>2. CASE i > Len(s)
    <3>1. i - Len(s) \in 1 .. Len(t) /\ Len(s) + (i - Len(s)) = i
      BY <2>2
    <3>2. (s \o t)[i] = t[i - Len(s)]
      BY <1>2, <3>1
    <3> QED
      BY <3>1, <3>2 DEF ToSet
  <2> QED
    BY <2>1, <2>2
<1>4. ToSet(s \o t) \subseteq ToSet(s) \cup ToSet(t)
  BY <1>3 DEF ToSet
<1>5. ToSet(s) \subseteq ToSet(s \o t)
  BY <1>1 DEF ToSet
<1>6. ToSet(t) \subseteq ToSet(s \o t)
  <2> SUFFICES ASSUME NEW i \in DOMAIN t PROVE t[i] \in ToSet(s \o t)
    BY DEF ToSet
  <2>1. i \in 1 .. Len(t)
    OBVIOUS
  <2> QED
    BY <1>2, <2>1 DEF ToSet
<1> QED
  BY <1>4, <1>5, <1>6

\* A flattened sequence holds what the sequences in it hold.
LEMMA FlattenHolds ==
  ASSUME NEW T, NEW seqs \in Seq(Seq(T))
  PROVE  /\ FlattenSeq(seqs) \in Seq(T)
         /\ ToSet(FlattenSeq(seqs)) = UNION {ToSet(seqs[k]) : k \in 1 .. Len(seqs)}
<1>2. PICK n \in Nat : n = Len(seqs)
  OBVIOUS
<1>1. PICK g \in [0 .. n -> Seq(T)] : FlatTo(g, seqs, n) /\ FlattenSeq(seqs) = g[n]
  BY <1>2, FlattenRuns
<1> DEFINE S == {k \in Nat : k <= n => ToSet(g[k]) = UNION {ToSet(seqs[m]) : m \in 1 .. k}}
<1>3. 0 \in S
  <2>1. g[0] = <<>> /\ 1 .. 0 = {}
    BY <1>1 DEF FlatTo
  <2> QED
    BY <2>1 DEF ToSet
<1>4. ASSUME NEW k \in Nat, k \in S PROVE k + 1 \in S
  <2> SUFFICES ASSUME k + 1 <= n
               PROVE  ToSet(g[k + 1]) = UNION {ToSet(seqs[m]) : m \in 1 .. (k + 1)}
    OBVIOUS
  <2>1. PICK l \in 1 .. n : l = k + 1
    OBVIOUS
  <2>2. l - 1 = k /\ k \in 0 .. n /\ k <= n
    BY <2>1
  <2>3. g[l] = g[k] \o seqs[l]
    BY <1>1, <1>2, <2>2 DEF FlatTo
  <2>4. g[k] \in Seq(T)
    BY <1>1, <2>2
  <2>5. seqs[l] \in Seq(T)
    BY <1>2, ElementOfSeq
  <2>6. ToSet(g[l]) = ToSet(g[k]) \cup ToSet(seqs[l])
    BY <2>3, <2>4, <2>5, ToSetOfConcat
  <2>7. ToSet(g[k]) = UNION {ToSet(seqs[m]) : m \in 1 .. k}
    BY <1>4, <2>2
  <2>8. 1 .. l = (1 .. k) \cup {l}
    BY <2>1
  <2> QED
    BY <2>1, <2>6, <2>7, <2>8
<1>5. Nat \subseteq S
  <2> HIDE DEF S
  <2> QED
    BY <1>3, <1>4, AllNumbers
<1>6. ToSet(g[n]) = UNION {ToSet(seqs[m]) : m \in 1 .. n}
  <2>1. n \in S
    BY <1>5
  <2> QED
    BY <2>1
<1> QED
  BY <1>1, <1>2, <1>6

-----------------------------------------------------------------------------
(* Finite sets in order.                                                   *)

\* A finite set on which R is total and transitive has a last member.
LEMMA HasLast ==
  ASSUME NEW S, IsFiniteSet(S), NEW R,
         \A x, y \in S : x # y => <<x, y>> \in R \/ <<y, x>> \in R,
         \A x, y, z \in S : <<x, y>> \in R /\ <<y, z>> \in R => <<x, z>> \in R
  PROVE  \A s \in SUBSET S : s # {} => \E m \in s : \A x \in s \ {m} : <<x, m>> \in R
<1> DEFINE Top(s) == s # {} => \E m \in s : \A x \in s \ {m} : <<x, m>> \in R
           T == {n \in Nat : \A s \in UpTo(S, n) : Top(s)}
<1>1. 0 \in T
  <2>1. \A s \in UpTo(S, 0) : s = {}
    BY NoneUpToZero
  <2> QED
    BY <2>1
<1>2. ASSUME NEW n \in Nat, n \in T PROVE n + 1 \in T
  <2> SUFFICES ASSUME NEW s \in UpTo(S, n + 1), s # {}
               PROVE  \E m \in s : \A x \in s \ {m} : <<x, m>> \in R
    OBVIOUS
  <2>1. PICK y \in s : TRUE
    OBVIOUS
  <2>2. s \in SUBSET S /\ Cardinality(s) <= n + 1
    BY DEF UpTo
  <2>3. s \ {y} \in UpTo(S, n)
    BY <2>2, OneLess
  <2>4. Top(s \ {y})
    BY <1>2, <2>3
  <2>5. CASE s \ {y} = {}
    BY <2>1, <2>5
  <2>6. CASE s \ {y} # {}
    <3>1. PICK m \in s \ {y} : \A x \in (s \ {y}) \ {m} : <<x, m>> \in R
      BY <2>4, <2>6
    <3>2. CASE <<y, m>> \in R
      <4>1. \A x \in s \ {m} : <<x, m>> \in R
        BY <3>1, <3>2
      <4> QED
        BY <3>1, <4>1
    <3>3. CASE <<m, y>> \in R
      <4>1. ASSUME NEW x \in s \ {y} PROVE <<x, y>> \in R
        <5>1. x = m \/ <<x, m>> \in R
          BY <3>1
        <5>2. x \in S /\ m \in S /\ y \in S
          BY <2>2, <3>1
        <5> QED
          BY <3>3, <5>1, <5>2
      <4> QED
        BY <4>1
    <3>4. m \in S /\ y \in S /\ m # y
      BY <2>2, <3>1
    <3> QED
      BY <3>2, <3>3, <3>4
  <2> QED
    BY <2>5, <2>6
<1> HIDE DEF T
<1>3. Nat \subseteq T
  BY <1>1, <1>2, AllNumbers
<1>4. ASSUME NEW s \in SUBSET S PROVE Top(s)
  <2>1. IsFiniteSet(s) /\ Cardinality(s) \in Nat
    BY FS_Subset, FS_CardinalityType
  <2>2. s \in UpTo(S, Cardinality(s))
    BY <2>1 DEF UpTo
  <2> QED
    BY <1>3, <2>1, <2>2 DEF T
<1> QED
  BY <1>4

\* The members of s one after another, each before the next by R.
InLine(f, s, R) ==
    /\ f \in [1 .. Cardinality(s) -> s]
    /\ \A m, n \in 1 .. Cardinality(s) : m < n => <<f[m], f[n]>> \in R

LEMMA HasOrder ==
  ASSUME NEW S, IsFiniteSet(S), NEW R,
         \A x, y \in S : x # y => <<x, y>> \in R \/ <<y, x>> \in R,
         \A x, y, z \in S : <<x, y>> \in R /\ <<y, z>> \in R => <<x, z>> \in R
  PROVE  \E f : InLine(f, S, R)
<1> DEFINE T == {n \in Nat : \A s \in SUBSET S : Cardinality(s) = n => \E f : InLine(f, s, R)}
<1>1. 0 \in T
  <2> SUFFICES ASSUME NEW s \in SUBSET S, Cardinality(s) = 0 PROVE \E f : InLine(f, s, R)
    OBVIOUS
  <2>1. s = {}
    BY FS_Subset, FS_EmptySet
  <2> DEFINE e == [k \in 1 .. 0 |-> k]
  <2>2. 1 .. 0 = {}
    OBVIOUS
  <2>3. InLine(e, s, R)
    BY <2>1, <2>2 DEF InLine
  <2> QED
    BY <2>3
<1>2. ASSUME NEW n \in Nat, n \in T PROVE n + 1 \in T
  <2> SUFFICES ASSUME NEW s \in SUBSET S, Cardinality(s) = n + 1 PROVE \E f : InLine(f, s, R)
    OBVIOUS
  <2>1. IsFiniteSet(s) /\ s # {}
    BY FS_Subset, FS_EmptySet
  <2>2. PICK y \in s : \A x \in s \ {y} : <<x, y>> \in R
    BY <2>1, HasLast
  <2> DEFINE t == s \ {y}
  <2>3. Cardinality(t) = n /\ t \in SUBSET S
    <3>1. Cardinality(t) = Cardinality(s) - 1
      BY <2>1, <2>2, FS_RemoveElement
    <3> QED
      BY <3>1
  <2>4. PICK g : InLine(g, t, R)
    BY <1>2, <2>3
  <2> DEFINE f == [k \in 1 .. (n + 1) |-> IF k = n + 1 THEN y ELSE g[k]]
  <2>5. ASSUME NEW k \in 1 .. (n + 1), k # n + 1 PROVE k \in 1 .. n /\ g[k] \in t /\ f[k] = g[k]
    <3>1. k \in 1 .. n
      BY <2>5
    <3>2. g \in [1 .. n -> t]
      <4> HIDE DEF t
      <4> QED
        BY <2>3, <2>4 DEF InLine
    <3>3. g[k] \in t
      <4> HIDE DEF t
      <4> QED
        BY <3>1, <3>2
    <3> QED
      BY <2>5, <3>1, <3>3
  <2>6. f[n + 1] = y
    OBVIOUS
  <2> HIDE DEF t
  <2>7. f \in [1 .. (n + 1) -> s]
    BY <2>2, <2>5 DEF t
  <2>8. ASSUME NEW k \in 1 .. (n + 1), NEW l \in 1 .. (n + 1), k < l PROVE <<f[k], f[l]>> \in R
    <3>1. k # n + 1 /\ f[k] = g[k] /\ k \in 1 .. n /\ g[k] \in t
      BY <2>5, <2>8
    <3>2. CASE l = n + 1
      BY <2>2, <2>6, <3>1, <3>2 DEF t
    <3>3. CASE l # n + 1
      BY <2>3, <2>4, <2>5, <2>8, <3>1, <3>3 DEF InLine
    <3> QED
      BY <3>2, <3>3
  <2>9. InLine(f, s, R)
    <3> HIDE DEF f
    <3> QED
      BY <2>7, <2>8 DEF InLine
  <2> QED
    BY <2>9
<1> HIDE DEF T
<1>3. Nat \subseteq T
  BY <1>1, <1>2, AllNumbers
<1> QED
  BY <1>3, FS_CardinalityType DEF T

\* A set in line without repetition is a sequence that holds all of it.
LEMMA LineHolds ==
  ASSUME NEW S, IsFiniteSet(S), NEW f \in [1 .. Cardinality(S) -> S],
         \A m, n \in 1 .. Cardinality(S) : m < n => f[m] # f[n]
  PROVE  f \in Seq(S) /\ ToSet(f) = S /\ Len(f) = Cardinality(S)
<1>1. PICK c \in Nat : c = Cardinality(S)
  BY FS_CardinalityType
<1>2. f \in Seq(S) /\ Len(f) = c
  BY <1>1
<1>3. \A m, n \in 1 .. c : f[m] = f[n] => m = n
  BY <1>1
<1> DEFINE R == {f[m] : m \in 1 .. c}
<1>4. f \in Bijection(1 .. c, R)
  BY <1>1, <1>3 DEF Bijection, Injection, Surjection, IsInjective
<1>5. IsFiniteSet(1 .. c) /\ Cardinality(1 .. c) = c
  BY FS_Interval
<1>6. Cardinality(R) = c
  <2>1. ExistsBijection(1 .. c, R)
    BY <1>4 DEF ExistsBijection
  <2> HIDE DEF R
  <2> QED
    BY <1>5, <2>1, FS_Bijection
<1>7. R \subseteq S
  BY <1>1
<1>8. R = S
  BY <1>1, <1>6, <1>7, FS_Subset
<1>9. ToSet(f) = R
  BY <1>1 DEF ToSet
<1> QED
  BY <1>1, <1>2, <1>8, <1>9

-----------------------------------------------------------------------------
(* Sequences in parts, and what stays true along a run.                    *)

\* x is s and then t, of known lengths.
Concat(x, s, m, t, n) ==
    /\ x = s \o t /\ Len(x) = m + n /\ DOMAIN x = 1 .. (m + n)
    /\ \A k \in 1 .. m : x[k] = s[k]
    /\ \A k \in 1 .. n : x[m + k] = t[k]

LEMMA ConcatHas ==
  ASSUME NEW T, NEW s \in Seq(T), NEW t \in Seq(T), NEW m \in Nat, NEW n \in Nat, m = Len(s), n = Len(t)
  PROVE  \E x \in Seq(T) : Concat(x, s, m, t, n)
<1>1. s \o t \in Seq(T) /\ Len(s \o t) = Len(s) + Len(t)
  OBVIOUS
<1>2. /\ \A k \in 1 .. Len(s) : (s \o t)[k] = s[k]
      /\ \A k \in 1 .. Len(t) : (s \o t)[Len(s) + k] = t[k]
  OBVIOUS
<1>3. PICK x \in Seq(T) : x = s \o t
  BY <1>1
<1>4. Len(x) = m + n /\ DOMAIN x = 1 .. (m + n)
  BY <1>1, <1>3
<1>5. \A k \in 1 .. m : x[k] = s[k]
  BY <1>2, <1>3
<1>6. \A k \in 1 .. n : x[m + k] = t[k]
  BY <1>2, <1>3
<1> QED
  BY <1>3, <1>4, <1>5, <1>6 DEF Concat

LEMMA AddedInTurn ==
  ASSUME NEW T, NEW a \in Seq(T), NEW b \in Seq(T), NEW c \in Seq(T)
  PROVE  (a \o b) \o c = a \o (b \o c)
  BY ConcatAssociative

LEMMA AppendHas == ASSUME NEW T, NEW seq \in Seq(T), NEW e \in T PROVE Append(seq, e) \in Seq(T)
  OBVIOUS

LEMMA SeqOfMore == ASSUME NEW T, NEW U, T \subseteq U, NEW s \in Seq(T) PROVE s \in Seq(U)
  OBVIOUS

LEMMA MemberOfSeq ==
  ASSUME NEW T, NEW s \in Seq(T), NEW i \in DOMAIN s PROVE s[i] \in T
  OBVIOUS

LEMMA EndsOf ==
  ASSUME NEW n \in Nat, NEW S \in SUBSET (1 .. n), S # {}
  PROVE  Min(S) \in S /\ Max(S) \in S /\ \A x \in S : Min(S) <= x /\ x <= Max(S)
<1>1. IsFiniteSet(S)
  <2>1. IsFiniteSet(1 .. n)
    BY FS_Interval
  <2> QED
    BY <2>1, FS_Subset
<1>2. S \subseteq Int /\ S \subseteq Nat
  OBVIOUS
<1>3. Max(S) \in S /\ \A x \in S : x <= Max(S)
  BY <1>1, <1>2, MaxIs
<1>4. \E x \in S : \A y \in S : x <= y
  BY <1>2, LeastNumber
<1>5. Min(S) \in S /\ \A y \in S : Min(S) <= y
  BY <1>4 DEF Min
<1> QED
  BY <1>3, <1>5

\* What every step keeps in A ends in it.
LEMMA RunStays ==
  ASSUME NEW A, NEW n \in Nat, NEW g, g[0] \in A, \A k \in 1 .. n : g[k - 1] \in A => g[k] \in A
  PROVE  \A k \in 0 .. n : g[k] \in A
<1> DEFINE S == {k \in Nat : k <= n => g[k] \in A}
<1>1. 0 \in S
  OBVIOUS
<1>2. ASSUME NEW k \in Nat, k \in S PROVE k + 1 \in S
  <2> SUFFICES ASSUME k + 1 <= n PROVE g[k + 1] \in A
    OBVIOUS
  <2>1. k + 1 \in 1 .. n /\ k + 1 - 1 = k /\ k <= n
    OBVIOUS
  <2>2. g[k] \in A
    BY <1>2, <2>1
  <2> QED
    BY <2>1, <2>2
<1>3. Nat \subseteq S
  <2> HIDE DEF S
  <2> QED
    BY <1>1, <1>2, AllNumbers
<1> QED
  BY <1>3

\* Two runs over the same sequences agree.
LEMMA RunsAgree ==
  ASSUME NEW f, NEW e, NEW g, NEW h, NEW n \in Nat, NEW m \in Nat, n <= m,
         FlatTo(g, f, n), FlatTo(h, e, m), \A k \in 1 .. n : e[k] = f[k]
  PROVE  h[n] = g[n]
<1> DEFINE S == {k \in Nat : k <= n => h[k] = g[k]}
<1>1. 0 \in S
  BY DEF FlatTo
<1>2. ASSUME NEW k \in Nat, k \in S PROVE k + 1 \in S
  <2> SUFFICES ASSUME k + 1 <= n PROVE h[k + 1] = g[k + 1]
    OBVIOUS
  <2>1. PICK l \in 1 .. n : l = k + 1 /\ l - 1 = k /\ k <= n /\ l \in 1 .. m
    OBVIOUS
  <2>2. h[l] = h[k] \o e[l] /\ g[l] = g[k] \o f[l]
    BY <2>1 DEF FlatTo
  <2>3. h[k] = g[k]
    BY <1>2, <2>1
  <2> QED
    BY <2>1, <2>2, <2>3
<1>3. n \in S
  <2> HIDE DEF S
  <2> QED
    BY <1>1, <1>2, AllNumbers
<1> QED
  BY <1>3

LEMMA FlattenConcat ==
  ASSUME NEW T, NEW s \in Seq(Seq(T)), NEW t \in Seq(Seq(T))
  PROVE  FlattenSeq(s \o t) = FlattenSeq(s) \o FlattenSeq(t)
<1>1. PICK m \in Nat, n \in Nat : m = Len(s) /\ n = Len(t)
  OBVIOUS
<1>2. PICK x \in Seq(Seq(T)) : Concat(x, s, m, t, n)
  BY <1>1, ConcatHas
<1>3. x = s \o t /\ Len(x) = m + n
  BY <1>2 DEF Concat
<1>4. PICK g : g \in [0 .. m -> Seq(T)] /\ FlatTo(g, s, m) /\ FlattenSeq(s) = g[m]
  BY <1>1, FlattenRuns
<1>5. PICK h : h \in [0 .. n -> Seq(T)] /\ FlatTo(h, t, n) /\ FlattenSeq(t) = h[n]
  BY <1>1, FlattenRuns
<1>6. PICK all : all \in [0 .. m + n -> Seq(T)] /\ FlatTo(all, x, m + n) /\ FlattenSeq(x) = all[m + n]
  BY <1>3, FlattenRuns
<1>7. all[m] = g[m]
  <2>1. \A k \in 1 .. m : x[k] = s[k]
    BY <1>2 DEF Concat
  <2>2. PICK w \in Nat : w = m + n /\ m <= w
    OBVIOUS
  <2>4. FlatTo(g, s, m) /\ FlatTo(all, x, w)
    BY <1>4, <1>6, <2>2
  <2> QED
    BY <2>1, <2>2, <2>4, RunsAgree
<1> DEFINE Joined(k) == all[m + k] = g[m] \o h[k]
           S == {k \in Nat : k <= n => Joined(k)}
<1>8. g[m] \in Seq(T)
  BY <1>4
<1>9. 0 \in S
  <2>1. h[0] = <<>> /\ m + 0 = m
    BY <1>5 DEF FlatTo
  <2>2. g[m] \o <<>> = g[m]
    BY <1>8, ConcatEmptySeq
  <2> QED
    BY <1>7, <2>1, <2>2
<1>10. ASSUME NEW k \in Nat, k \in S PROVE k + 1 \in S
  <2> SUFFICES ASSUME k + 1 <= n PROVE Joined(k + 1)
    <3> HIDE DEF Joined
    <3> QED
      OBVIOUS
  <2>1. PICK l \in 1 .. n : l = k + 1 /\ l - 1 = k /\ k \in 0 .. n /\ k <= n
    OBVIOUS
  <2>2. PICK q \in 1 .. m + n : q = m + l /\ q - 1 = m + k
    BY <2>1
  <2>3. all[q] = all[q - 1] \o x[q]
    BY <1>6 DEF FlatTo
  <2>4. x[q] = t[l]
    BY <1>2, <2>2 DEF Concat
  <2>5. h[l] = h[k] \o t[l]
    BY <1>5, <2>1 DEF FlatTo
  <2>6. all[q - 1] = g[m] \o h[k]
    BY <1>10, <2>1, <2>2
  <2>7. h[k] \in Seq(T) /\ t[l] \in Seq(T)
    BY <1>1, <1>5, <2>1, ElementOfSeq
  <2>9. PICK a \in Seq(T), b \in Seq(T), c \in Seq(T) : a = g[m] /\ b = h[k] /\ c = t[l]
    BY <1>8, <2>7
  <2>10. (a \o b) \o c = a \o (b \o c)
    BY AddedInTurn
  <2>8. (g[m] \o h[k]) \o t[l] = g[m] \o (h[k] \o t[l])
    BY <2>9, <2>10
  <2> QED
    BY <2>1, <2>2, <2>3, <2>4, <2>5, <2>6, <2>8
<1>11. n \in S
  <2> HIDE DEF S
  <2> QED
    BY <1>9, <1>10, AllNumbers
<1>13. Joined(n)
  <2> HIDE DEF Joined
  <2> QED
    BY <1>11
<1>12. all[m + n] = g[m] \o h[n]
  BY <1>13
<1> QED
  BY <1>3, <1>4, <1>5, <1>6, <1>12

LEMMA FlattenOne == ASSUME NEW T, NEW s \in Seq(T) PROVE FlattenSeq(<<s>>) = s
<1>1. PICK x \in Seq(Seq(T)) : x = <<s>> /\ Len(x) = 1 /\ x[1] = s
  <2>1. <<s>> \in Seq(Seq(T)) /\ Len(<<s>>) = 1 /\ <<s>>[1] = s
    OBVIOUS
  <2> QED
    BY <2>1
<1>2. PICK g \in [0 .. 1 -> Seq(T)] : FlatTo(g, x, 1) /\ FlattenSeq(x) = g[1]
  BY <1>1, FlattenRuns
<1>3. 1 \in 1 .. 1 /\ 1 - 1 = 0
  OBVIOUS
<1>4. g[1] = <<>> \o s
  BY <1>1, <1>2, <1>3 DEF FlatTo
<1>5. <<>> \o s = s
  BY ConcatEmptySeq
<1> QED
  BY <1>1, <1>2, <1>4, <1>5

LEMMA FlattenAppend ==
  ASSUME NEW T, NEW seqs \in Seq(Seq(T)), NEW s \in Seq(T)
  PROVE  FlattenSeq(Append(seqs, s)) = FlattenSeq(seqs) \o s
<1>1. PICK x \in Seq(Seq(T)) : x = <<s>>
  <2>1. <<s>> \in Seq(Seq(T))
    OBVIOUS
  <2> QED
    BY <2>1
<1>2. Append(seqs, s) = seqs \o x
  BY <1>1
<1>3. FlattenSeq(seqs \o x) = FlattenSeq(seqs) \o FlattenSeq(x)
  BY FlattenConcat
<1>4. FlattenSeq(x) = s
  BY <1>1, FlattenOne
<1> QED
  BY <1>2, <1>3, <1>4

=================================================================================
