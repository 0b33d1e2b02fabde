------------------------------ MODULE ScoresProofs ------------------------------
(***************************************************************************)
(* The numbers are what they say, for any items, claims, entries and       *)
(* weights: proofs about the scores and how evidence moves them; and every *)
(* number in a document written from them points at the source it means.   *)
(***************************************************************************)
EXTENDS ScoresProps, Inductions

(* Rounding a half to the even neighbour.                                  *)

LEMMA DivModLaw ==
  ASSUME NEW n \in Int, NEW d \in Nat \ {0}
  PROVE /\ n \div d \in Int /\ n % d \in 0 .. d - 1
        /\ n = d * (n \div d) + (n % d)
OBVIOUS

\* A rounded quotient is at most half the divisor away, and a tie is even.
LEMMA RoundedIs ==
  ASSUME NEW n \in Int, NEW d \in Nat \ {0}
  PROVE  \E z \in Int, s \in Int :
            /\ Rounded(n, d) = z /\ n = d * z + s
            /\ 2 * s <= d /\ -d <= 2 * s
            /\ (2 * s = d \/ 2 * s = -d) => z % 2 = 0
<1>1. PICK q \in Int, r \in 0 .. d - 1 : q = n \div d /\ r = n % d
  BY DivModLaw
<1>2. n = d * q + r
  BY <1>1, DivModLaw
<1>3. CASE 2 * r > d \/ (2 * r = d /\ q % 2 = 1)
  <2>1. Rounded(n, d) = q + 1
    BY <1>1, <1>3 DEF Rounded
  <2>2. d * (q + 1) = d * q + d
    OBVIOUS
  <2>3. n = d * (q + 1) + (r - d)
    BY <1>2, <2>2
  <2>4. 2 * (r - d) <= d /\ -d <= 2 * (r - d)
    BY <1>3
  <2>5. 2 * (r - d) = d \/ 2 * (r - d) = -d => (q + 1) % 2 = 0
    BY <1>3
  <2> QED
    BY <2>1, <2>3, <2>4, <2>5
<1>4. CASE ~ (2 * r > d \/ (2 * r = d /\ q % 2 = 1))
  <2>1. Rounded(n, d) = q
    BY <1>1, <1>4 DEF Rounded
  <2>2. 2 * r <= d /\ -d <= 2 * r
    BY <1>4
  <2>3. 2 * r = d \/ 2 * r = -d => q % 2 = 0
    BY <1>4
  <2> QED
    BY <1>2, <2>1, <2>2, <2>3
<1> QED
  BY <1>3, <1>4

LEMMA RoundedIsInt == ASSUME NEW n \in Int, NEW d \in Nat \ {0} PROVE Rounded(n, d) \in Int
BY RoundedIs

LEMMA TimesKeepsOrder ==
  ASSUME NEW a \in Int, NEW b \in Int, NEW d \in Nat, a <= b PROVE a * d <= b * d /\ d * a <= d * b
OBVIOUS

LEMMA TimesOrders ==
  ASSUME NEW a \in Int, NEW b \in Int, NEW d \in Nat \ {0}, d * a <= d * b PROVE a <= b
<1>1. CASE b + 1 <= a
  <2>1. d * (b + 1) <= d * a
    BY <1>1, TimesKeepsOrder
  <2>2. d * (b + 1) = d * b + d
    OBVIOUS
  <2> QED
    BY <2>1, <2>2
<1> QED
  BY <1>1

\* A larger quotient is not rounded to less.
LEMMA RoundedKeepsOrder ==
  ASSUME NEW n \in Int, NEW d \in Nat \ {0}, NEW m \in Int, NEW e \in Nat \ {0},
         n * e <= m * d
  PROVE  Rounded(n, d) <= Rounded(m, e)
<1>1. PICK y \in Int, s \in Int :
         /\ Rounded(n, d) = y /\ n = d * y + s /\ 2 * s <= d /\ -d <= 2 * s
         /\ (2 * s = d \/ 2 * s = -d) => y % 2 = 0
  BY RoundedIs
<1>2. PICK z \in Int, t \in Int :
         /\ Rounded(m, e) = z /\ m = e * z + t /\ 2 * t <= e /\ -e <= 2 * t
         /\ (2 * t = e \/ 2 * t = -e) => z % 2 = 0
  BY RoundedIs
<1> SUFFICES ASSUME z + 1 <= y PROVE FALSE
  BY <1>1, <1>2
<1>3. /\ (d * y + s) * e = d * e * y + s * e
      /\ (e * z + t) * d = d * e * z + t * d
  OBVIOUS
<1>4. d * e * y + s * e <= d * e * z + t * d
  BY <1>1, <1>2, <1>3
<1>5. d * e \in Nat \ {0}
  OBVIOUS
<1>6. d * e * (z + 1) <= d * e * y
  BY <1>5, TimesKeepsOrder
<1>7. d * e * (z + 1) = d * e * z + d * e
  BY <1>5
<1>8. d * e + s * e <= t * d
  BY <1>4, <1>6, <1>7, <1>5
<1>9. (2 * t) * d <= e * d /\ (-d) * e <= (2 * s) * e
  BY <1>1, <1>2, TimesKeepsOrder
<1>10. 2 * (t * d) <= d * e /\ -(d * e) <= 2 * (s * e)
  BY <1>9
<1>11. 2 * (t * d) = d * e /\ 2 * (s * e) = -(d * e)
  BY <1>8, <1>10, <1>5
<1>12. 2 * t = e /\ 2 * s = -d
  <2>1. d * e <= d * (2 * t)
    BY <1>11
  <2>2. e * (2 * s) <= e * (-d)
    BY <1>11
  <2>3. e <= 2 * t /\ 2 * s <= -d
    BY <2>1, <2>2, TimesOrders
  <2> QED
    BY <1>1, <1>2, <2>3
<1>13. y % 2 = 0 /\ z % 2 = 0
  BY <1>1, <1>2, <1>12
<1>14. d * e * y = d * e * z + d * e
  <2>1. 2 * (d * e * y) - d * e <= 2 * (d * e * z) + d * e
    BY <1>4, <1>11, <1>5
  <2> QED
    BY <1>6, <1>7, <2>1, <1>5
<1>15. d * e * y <= d * e * (z + 1)
  BY <1>7, <1>14
<1>16. y <= z + 1
  BY <1>5, <1>15, TimesOrders
<1> QED
  BY <1>13, <1>16

\* What lies between two whole multiples of the divisor is rounded to one
\* between them.
LEMMA RoundedBetween ==
  ASSUME NEW n \in Int, NEW d \in Nat \ {0}, NEW low \in Int, NEW high \in Int,
         low * d <= n, n <= high * d
  PROVE  low <= Rounded(n, d) /\ Rounded(n, d) <= high
<1>1. \A k \in Int : Rounded(k, 1) = k
  BY DEF Rounded
<1>2. Rounded(low, 1) <= Rounded(n, d)
  BY RoundedKeepsOrder
<1>3. Rounded(n, d) <= Rounded(high, 1)
  BY RoundedKeepsOrder
<1> QED
  BY <1>1, <1>2, <1>3

-----------------------------------------------------------------------------
(* A trend rises.                                                          *)

LEMMA ClampIs ==
  ASSUME NEW x \in Int
  PROVE  Clamp(x) \in 0 .. 100 /\ (x <= 100 => x <= Clamp(x)) /\ (0 < Clamp(x) => Clamp(x) <= x)
BY DEF Clamp

LEMMA ClampKeepsOrder ==
  ASSUME NEW x \in Int, NEW y \in Int, x <= y PROVE Clamp(x) <= Clamp(y)
BY DEF Clamp

\* The items of any claims are collected items: finitely many.
LEMMA ItemsAreFinite ==
  ASSUME NEW cs \in SUBSET Claims
  PROVE  /\ ItemsOf(cs) \subseteq Items /\ IsFiniteSet(ItemsOf(cs))
         /\ Cardinality(ItemsOf(cs)) \in Nat
<1>1. ItemsOf(cs) \subseteq Items
  BY ScoresAssumption DEF ItemsOf
<1> QED
  BY <1>1, ScoresAssumption, FS_Subset, FS_CardinalityType

LEMMA WeeksAreCounted ==
  ASSUME NEW cs \in SUBSET Claims, NEW w \in 0 .. 5
  PROVE  Weekly(cs)[w] \in 0 .. Cardinality(Items)
<1> DEFINE S == {i \in ItemsOf(cs) : WeekBack(i) = w}
<1>1. S \subseteq Items
  BY ItemsAreFinite
<1>2. Cardinality(S) \in 0 .. Cardinality(Items)
  BY <1>1, ScoresAssumption, FS_Subset, FS_CardinalityType
<1>3. Weekly(cs)[w] = Cardinality(S)
  BY DEF Weekly, SinceWeeks
<1> QED
  BY <1>2, <1>3

\* The logarithms of the counts are in the table.
LEMMA RateIs ==
  ASSUME NEW cs \in SUBSET Claims
  PROVE  LET weekly == Weekly(cs)
             rise == Log2[4 * (weekly[0] + 1)] - Log2[Baseline(weekly) + 4]
         IN  /\ 4 * (weekly[0] + 1) \in Counts /\ Baseline(weekly) + 4 \in Counts
             /\ rise \in Int /\ weekly[0] \in Nat /\ Baseline(weekly) \in Nat
             /\ Rate(weekly) = Clamp(50 + Rounded(rise, 40))
<1> DEFINE weekly == Weekly(cs)
           N == Cardinality(Items)
<1>1. N \in Nat
  BY ScoresAssumption, FS_CardinalityType
<1>2. /\ weekly[0] \in 0 .. N /\ weekly[1] \in 0 .. N /\ weekly[2] \in 0 .. N
      /\ weekly[3] \in 0 .. N /\ weekly[4] \in 0 .. N
  BY WeeksAreCounted
<1>3. Baseline(weekly) \in 0 .. 4 * N
  BY <1>1, <1>2 DEF Baseline
<1>4. 4 * (weekly[0] + 1) \in Counts /\ Baseline(weekly) + 4 \in Counts
  BY <1>1, <1>2, <1>3 DEF Counts
<1> QED
  BY <1>2, <1>3, <1>4, ScoresAssumption DEF Rate

\* A streak of five covers this week and the four before it.
LEMMA StreakCovers ==
  ASSUME ~ (Streak < 5) PROVE \A w \in 0 .. 4 : Covered(w)
<1> DEFINE S == {w \in 0 .. SinceWeeks - 1 : \A v \in 0 .. w : Covered(v)}
<1>1. Streak = Cardinality(S)
  BY DEF Streak
<1>2. CASE 4 \in S
  BY <1>2 DEF SinceWeeks
<1>3. CASE 4 \notin S
  <2>1. PICK a \in Int, b \in Int : a = 0 /\ b = 3
    OBVIOUS
  <2>2. S \subseteq a .. b
    BY <1>3, <2>1 DEF SinceWeeks
  <2>3. IsFiniteSet(a .. b) /\ Cardinality(a .. b) = IF a > b THEN 0 ELSE b - a + 1
    BY FS_Interval
  <2>4. Cardinality(S) <= Cardinality(a .. b) /\ Cardinality(S) \in Nat
    BY <2>2, <2>3, FS_Subset, FS_CardinalityType
  <2>5. Cardinality(S) < 5
    BY <2>1, <2>3, <2>4
  <2> QED
    BY <1>1, <2>5
<1> QED
  BY <1>2, <1>3

LEMMA TrendRises ==
  ASSUME supports \subseteq Claims PROVE TrendIsRising
<1> SUFFICES ASSUME Maturity(supports) = "measured_trend"
             PROVE  /\ \A w \in 0 .. 4 : Covered(w)
                    /\ 4 * Weekly(supports)[0] > Baseline(Weekly(supports))
  BY DEF TrendIsRising
<1> DEFINE weekly == Weekly(supports)
           here == 4 * (weekly[0] + 1)
           before == Baseline(weekly) + 4
<1>1. Momentum(weekly) # Missing /\ Momentum(weekly) >= 60
  BY DEF Maturity
<1>2. ~ (Streak < 5) /\ Rate(weekly) >= 60
  BY <1>1 DEF Momentum, Missing
<1>3. PICK rise \in Int : rise = Log2[here] - Log2[before] /\ Rate(weekly) = Clamp(50 + Rounded(rise, 40))
  BY RateIs
<1>4. Rounded(rise, 40) >= 10
  <2>1. Rounded(rise, 40) \in Int
    BY RoundedIsInt
  <2> QED
    BY <1>2, <1>3, <2>1, ClampIs
<1>5. rise > 0
  <2>1. CASE rise <= 0 * 40
    <3>1. Rounded(rise, 40) <= Rounded(0, 1)
      BY <2>1, RoundedKeepsOrder
    <3>2. Rounded(0, 1) = 0
      BY DEF Rounded
    <3> QED
      BY <1>4, <3>1, <3>2, RoundedIsInt
  <2> QED
    BY <2>1
<1>6. here \in Counts /\ before \in Counts
  BY RateIs
<1>7. ~ (Log2[here] <= Log2[before])
  BY <1>3, <1>5, <1>6, ScoresAssumption
<1>8. ~ (here <= before)
  BY <1>6, <1>7, ScoresAssumption
<1>9. weekly[0] \in Nat /\ Baseline(weekly) \in Nat
  BY RateIs
<1>10. 4 * weekly[0] > Baseline(weekly)
  BY <1>8, <1>9
<1> QED
  BY <1>2, <1>10, StreakCovers

-----------------------------------------------------------------------------
(* The score lies within its parts.                                        *)

LEMMA HighestIs ==
  ASSUME NEW S, IsFiniteSet(S), S \subseteq Int
  PROVE  Highest(S) \in S \cup {0} /\ \A x \in S \cup {0} : x <= Highest(S)
<1>1. IsFiniteSet(S \cup {0})
  BY FS_AddElement
<1>2. S \cup {0} # {} /\ S \cup {0} \subseteq Int
  OBVIOUS
<1>3. \E m \in S \cup {0} : \A x \in S \cup {0} : x <= m
  BY <1>1, <1>2, HasHighest
<1> QED
  BY <1>3 DEF Highest

ScoresTypes ==
    /\ today \in Nat
    /\ analysed \subseteq Items
    /\ supports \subseteq Claims /\ against \subseteq Claims

Percent == 0 .. 100

LEMMA SharesArePercent ==
  ASSUME NEW n \in Nat, NEW d \in Nat \ {0}, n <= d
  PROVE  Rounded(100 * n, d) \in Percent
<1>1. 0 * d <= 100 * n /\ 100 * n <= 100 * d
  OBVIOUS
<1>2. 100 * n \in Int
  OBVIOUS
<1>3. 0 <= Rounded(100 * n, d) /\ Rounded(100 * n, d) <= 100
  BY <1>1, <1>2, RoundedBetween
<1>4. Rounded(100 * n, d) \in Int
  BY <1>2, RoundedIsInt
<1> QED
  BY <1>3, <1>4 DEF Percent

LEMMA DiversityIs ==
  ASSUME NEW cs \in SUBSET Claims PROVE Diversity(cs) \in Percent
<1>1. IsFiniteSet(Creators(cs)) /\ IsFiniteSet(Routes(cs))
  BY ItemsAreFinite, ImageIsFinite DEF Creators, Routes
<1>2. PICK m \in 0 .. 4, n \in 0 .. 3 :
         m = Least(Cardinality(Creators(cs)), 4) /\ n = Least(Cardinality(Routes(cs)), 3)
  BY <1>1, FS_CardinalityType DEF Least
<1>3. PICK k \in Nat : k = 35 * m + 20 * n
  OBVIOUS
<1>4. PICK d \in Nat \ {0}, low \in Int, high \in Int : d = 2 /\ low = 0 /\ high = 100
  OBVIOUS
<1>5. low * d <= k /\ k <= high * d
  BY <1>3, <1>4
<1>6. Diversity(cs) = Rounded(k, d)
  BY <1>2, <1>3, <1>4 DEF Diversity
<1>7. low <= Rounded(k, d) /\ Rounded(k, d) <= high
  BY <1>5, RoundedBetween
<1>8. k \in Int /\ Rounded(k, d) \in Int
  BY RoundedIsInt
<1> QED
  BY <1>4, <1>6, <1>7, <1>8 DEF Percent

LEMMA QualityIs ==
  ASSUME NEW cs \in SUBSET Claims PROVE Quality(cs) \in Percent \cup {Missing}
<1>1. CASE cs = {}
  BY <1>1 DEF Quality
<1>2. CASE cs # {}
  <2>1. IsFiniteSet(cs)
    BY ScoresAssumption, FS_Subset
  <2>2. PICK d \in Nat : d = Cardinality(cs)
    BY <2>1, FS_CardinalityType
  <2>3. d # 0
    BY <1>2, <2>1, <2>2, FS_EmptySet
  <2>4. PICK n \in Nat : n = Cardinality(cs \cap Cited) /\ n <= d
    BY <2>1, <2>2, FS_Subset, FS_CardinalityType
  <2>5. Rounded(100 * n, d) \in Percent
    BY <2>3, <2>4, SharesArePercent
  <2> QED
    BY <1>2, <2>2, <2>4, <2>5 DEF Quality
<1> QED
  BY <1>1, <1>2

LEMMA RecencyIs ==
  ASSUME today \in Nat, NEW cs \in SUBSET Claims PROVE Recency(cs) \in Percent \cup {Missing}
<1> DEFINE days == {DayOf[i] : i \in ItemsOf(cs)}
<1>1. IsFiniteSet(days) /\ days \subseteq Int
  BY ItemsAreFinite, ImageIsFinite, ScoresAssumption
<1>2. Highest(days) \in Int
  BY <1>1, HighestIs
<1> HIDE DEF days
<1>3. PICK age \in Int : age = today - Highest(days)
  BY <1>2
<1>4. Rounded(100 * (28 - age), 26) \in Int
  BY RoundedIsInt
<1>5. Clamp(Rounded(100 * (28 - age), 26)) \in Percent
  BY <1>4, ClampIs DEF Percent
<1>6. Recency(cs) = IF cs = {} THEN Missing
                    ELSE IF age <= 2 THEN 100 ELSE Clamp(Rounded(100 * (28 - age), 26))
  BY <1>3 DEF Recency, days
<1> QED
  BY <1>5, <1>6 DEF Percent

LEMMA MomentumIs ==
  ASSUME NEW cs \in SUBSET Claims PROVE Momentum(Weekly(cs)) \in Percent \cup {Missing}
<1>1. PICK rise \in Int : Rate(Weekly(cs)) = Clamp(50 + Rounded(rise, 40))
  BY RateIs
<1>2. 50 + Rounded(rise, 40) \in Int
  BY RoundedIsInt
<1>3. Rate(Weekly(cs)) \in Percent
  BY <1>1, <1>2, ClampIs DEF Percent
<1> QED
  BY <1>3 DEF Momentum

LEMMA AccelerationIs ==
  ASSUME NEW cs \in SUBSET Claims PROVE Acceleration(Weekly(cs)) \in Percent \cup {Missing}
<1>1. PICK a \in Nat, b \in Nat, c \in Nat :
         a = Weekly(cs)[0] /\ b = Weekly(cs)[1] /\ c = Weekly(cs)[2]
  BY WeeksAreCounted
<1>2. PICK n \in Int : n = 25 * (a - 2 * b + c)
  OBVIOUS
<1>3. 50 + Rounded(n, 2) \in Int
  BY RoundedIsInt
<1>4. Clamp(50 + Rounded(n, 2)) \in Percent
  BY <1>3, ClampIs DEF Percent
<1> QED
  BY <1>1, <1>2, <1>4 DEF Acceleration

Parts == {"momentum", "acceleration", "diversity", "quality", "engagement", "novelty", "recency"}

LEMMA PartsAre ==
  ASSUME today \in Nat, NEW cs \in SUBSET Claims
  PROVE  LET parts == Components(cs) IN
         /\ DOMAIN parts = Parts /\ DOMAIN Weights = Parts
         /\ \A p \in Parts : parts[p] \in Percent \cup {Missing} /\ Weights[p] \in Nat \ {0}
         /\ "diversity" \in Measured(parts)
<1>1. Novelty \in Percent
  <2>1. 100 - 20 * (today \div 7) \in Int
    OBVIOUS
  <2> QED
    BY <2>1, ClampIs DEF Novelty, Percent
<1>2. /\ Momentum(Weekly(cs)) \in Percent \cup {Missing}
      /\ Acceleration(Weekly(cs)) \in Percent \cup {Missing}
      /\ Diversity(cs) \in Percent
      /\ Quality(cs) \in Percent \cup {Missing}
      /\ Recency(cs) \in Percent \cup {Missing}
  BY MomentumIs, AccelerationIs, DiversityIs, QualityIs, RecencyIs
<1> QED
  BY <1>1, <1>2 DEF Components, Parts, Weights, Measured, Percent, Missing

\* A weighted mean is within what it is a mean of.
LEMMA MeanIsWithin ==
  ASSUME NEW M, IsFiniteSet(M), M # {}, NEW f, NEW w, NEW low \in Nat, NEW high \in Nat,
         \A p \in M : f[p] \in low .. high /\ w[p] \in Nat \ {0}
  PROVE  LET sum == SumFunctionOnSet([p \in M |-> f[p] * w[p]], M)
             weight == SumFunctionOnSet(w, M)
         IN  /\ Rounded(sum, weight) \in Int
             /\ low <= Rounded(sum, weight) /\ Rounded(sum, weight) <= high
<1> DEFINE e == [p \in M |-> f[p] * w[p]]
           down == [p \in M |-> low * w[p]]
           up == [p \in M |-> high * w[p]]
<1>1. \A p \in M : e[p] \in Nat /\ down[p] \in Nat /\ up[p] \in Nat
  OBVIOUS
<1>2. \A p \in M : down[p] <= e[p] /\ e[p] <= up[p]
  <2> SUFFICES ASSUME NEW p \in M PROVE low * w[p] <= f[p] * w[p] /\ f[p] * w[p] <= high * w[p]
    OBVIOUS
  <2>1. w[p] \in Nat /\ f[p] \in Int /\ low <= f[p] /\ f[p] <= high
    OBVIOUS
  <2> QED
    BY <2>1, TimesKeepsOrder
<1>3. /\ \A p \in M : w[p] \in Nat
      /\ \A p \in M : down[p] = low * w[p] /\ up[p] = high * w[p]
  OBVIOUS
<1> HIDE DEF e, down, up
<1>4. SumFunctionOnSet(down, M) <= SumFunctionOnSet(e, M)
  BY <1>1, <1>2, SumIsMonotone
<1>5. SumFunctionOnSet(e, M) <= SumFunctionOnSet(up, M)
  BY <1>1, <1>2, SumIsMonotone
<1>6. PICK sum \in Nat, weight \in Nat : sum = SumFunctionOnSet(e, M) /\ weight = SumFunctionOnSet(w, M)
  BY <1>1, <1>3, SumIsNat
<1>7. SumFunctionOnSet(down, M) = low * weight /\ SumFunctionOnSet(up, M) = high * weight
  BY <1>3, <1>6, SumOfMultiples
<1>8. weight # 0
  <2>1. PICK p \in M : TRUE
    OBVIOUS
  <2>2. weight = w[p] + SumFunctionOnSet(w, M \ {p})
    BY <1>3, <1>6, SumOfOne
  <2>3. IsFiniteSet(M \ {p}) /\ \A q \in M \ {p} : w[q] \in Nat
    BY <1>3, FS_Subset
  <2>4. SumFunctionOnSet(w, M \ {p}) \in Nat
    BY <2>3, SumIsNat
  <2> QED
    BY <2>1, <2>2, <2>4
<1>9. low * weight <= sum /\ sum <= high * weight
  BY <1>4, <1>5, <1>6, <1>7
<1>10. low <= Rounded(sum, weight) /\ Rounded(sum, weight) <= high
  BY <1>8, <1>9, RoundedBetween
<1>11. sum \in Int /\ weight \in Nat \ {0}
  BY <1>8
<1>12. Rounded(sum, weight) \in Int
  BY <1>11, RoundedIsInt
<1> QED
  BY <1>6, <1>10, <1>12 DEF e

LEMMA ScoreIsWithin ==
  ASSUME today \in Nat, NEW cs \in SUBSET Claims
  PROVE  LET parts == Components(cs)
             values == {parts[p] : p \in Measured(parts)}
         IN  /\ values \subseteq Percent /\ DomainScore(parts) \in Int
             /\ \E v \in values : v <= DomainScore(parts)
             /\ \E v \in values : DomainScore(parts) <= v
<1>1. PICK parts : parts = Components(cs)
  OBVIOUS
<1>2. PICK M : M = Measured(parts)
  OBVIOUS
<1>3. /\ M \subseteq Parts /\ "diversity" \in M
      /\ \A p \in M : parts[p] \in Percent /\ Weights[p] \in Nat \ {0}
  BY <1>1, <1>2, PartsAre DEF Measured
<1>4. IsFiniteSet(M)
  <2>1. IsFiniteSet(Parts)
    <3>1. IsFiniteSet({}) /\ \A S, x : IsFiniteSet(S) => IsFiniteSet(S \cup {x})
      BY FS_EmptySet, FS_AddElement
    <3>2. PICK A : A = {} \cup {"momentum"} \cup {"acceleration"} \cup {"diversity"}
      OBVIOUS
    <3>3. PICK B : B = A \cup {"quality"} \cup {"engagement"}
      OBVIOUS
    <3>4. IsFiniteSet(A)
      BY <3>1, <3>2, Zenon
    <3>5. IsFiniteSet(B)
      BY <3>1, <3>3, <3>4, Zenon
    <3>6. IsFiniteSet(B \cup {"novelty"} \cup {"recency"})
      BY <3>1, <3>5, Zenon
    <3>7. Parts = B \cup {"novelty"} \cup {"recency"}
      BY <3>2, <3>3 DEF Parts
    <3> QED
      BY <3>6, <3>7, Zenon
  <2> QED
    BY <1>3, <2>1, FS_Subset
<1> DEFINE values == {parts[p] : p \in M}
<1>5. values \subseteq Percent /\ values # {} /\ IsFiniteSet(values)
  BY <1>3, <1>4, ImageIsFinite
<1>6. PICK low \in values : \A v \in values : low <= v
  <2>1. values \subseteq Nat
    BY <1>5 DEF Percent
  <2> HIDE DEF values
  <2> QED
    BY <1>5, <2>1, LeastNumber
<1>7. PICK high \in values : \A v \in values : v <= high
  <2>1. values \subseteq Int
    BY <1>5 DEF Percent
  <2> HIDE DEF values
  <2> QED
    BY <1>5, <2>1, HasHighest
<1>8. low \in Nat /\ high \in Nat
  BY <1>5, <1>6, <1>7 DEF Percent
<1>9. \A p \in M : parts[p] \in low .. high
  BY <1>3, <1>6, <1>7, <1>8 DEF Percent
<1>10. DomainScore(parts) = Rounded(SumFunctionOnSet([p \in M |-> parts[p] * Weights[p]], M),
                                    SumFunctionOnSet(Weights, M))
  BY <1>2 DEF DomainScore, Weighted
<1>11. DomainScore(parts) \in Int /\ low <= DomainScore(parts) /\ DomainScore(parts) <= high
  BY <1>3, <1>4, <1>8, <1>9, <1>10, MeanIsWithin
<1> QED
  BY <1>1, <1>2, <1>5, <1>6, <1>7, <1>11

-----------------------------------------------------------------------------
(* Evidence moves the numbers the right way.                               *)

\* Confidence, of the counts it is made from.
Dissent(items, contra) == IF contra = 0 THEN 10 ELSE -Rounded(40 * contra, items + contra)
Sure(items, creators, routes, cited, contra) ==
    Clamp(Least(30, 8 * items) + Least(25, 9 * creators) + (IF routes > 1 THEN 15 ELSE 0)
          + Least(20, 7 * cited) + Dissent(items, contra))

LEMMA ConfidenceIs ==
  ASSUME NEW cs \in SUBSET Claims, NEW counter \in SUBSET Claims
  PROVE  Confidence(cs, counter) =
            Sure(Cardinality(ItemsOf(cs)), Cardinality(Creators(cs)), Cardinality(Routes(cs)),
                 Cardinality(cs \cap Cited), Cardinality(ItemsOf(counter)))
BY DEF Confidence, Sure, Dissent

LEMMA DissentIsInt ==
  ASSUME NEW i \in Nat, NEW k \in Nat PROVE Dissent(i, k) \in Int
<1>1. CASE k # 0
  <2>1. 40 * k \in Int /\ i + k \in Nat \ {0}
    BY <1>1
  <2>2. Rounded(40 * k, i + k) \in Int
    BY <2>1, RoundedIsInt
  <2> QED
    BY <1>1, <2>2 DEF Dissent
<1> QED
  BY <1>1 DEF Dissent

\* Dissent weighs less among more items, and more when there is more of it.
LEMMA DissentMoves ==
  ASSUME NEW i \in Nat, NEW j \in Nat, i <= j, NEW k \in Nat, NEW l \in Nat, k <= l
  PROVE  Dissent(i, k) <= Dissent(j, k) /\ Dissent(i, l) <= Dissent(i, k)
<1>1. Dissent(i, k) <= Dissent(j, k)
  <2>1. CASE k = 0
    BY <2>1 DEF Dissent
  <2>2. CASE k # 0
    <3>1. 40 * k \in Int /\ i + k \in Nat \ {0} /\ j + k \in Nat \ {0}
      BY <2>2
    <3>2. 40 * k * (i + k) <= 40 * k * (j + k)
      <4>1. 40 * k \in Nat /\ i + k <= j + k
        OBVIOUS
      <4> QED
        BY <4>1, TimesKeepsOrder
    <3>3. Rounded(40 * k, j + k) <= Rounded(40 * k, i + k)
      BY <3>1, <3>2, RoundedKeepsOrder
    <3>4. Rounded(40 * k, j + k) \in Int /\ Rounded(40 * k, i + k) \in Int
      BY <3>1, RoundedIsInt
    <3> QED
      BY <2>2, <3>3, <3>4 DEF Dissent
  <2> QED
    BY <2>1, <2>2
<1>2. Dissent(i, l) <= Dissent(i, k)
  <2>1. CASE l = 0
    BY <2>1 DEF Dissent
  <2>2. CASE l # 0 /\ k = 0
    <3>1. 40 * l \in Int /\ i + l \in Nat \ {0} /\ 0 * (i + l) <= 40 * l * 1
      BY <2>2
    <3>2. \A n \in Int : Rounded(n, 1) = n
      BY DEF Rounded
    <3>3. PICK zero \in Int, one \in Nat \ {0} : zero = 0 /\ one = 1
      OBVIOUS
    <3>4. zero * (i + l) <= 40 * l * one
      BY <3>1, <3>3
    <3>5. Rounded(zero, one) <= Rounded(40 * l, i + l)
      BY <3>1, <3>4, RoundedKeepsOrder
    <3>6. Rounded(40 * l, i + l) \in Int /\ 0 <= Rounded(40 * l, i + l)
      BY <3>1, <3>2, <3>3, <3>5, RoundedIsInt
    <3> QED
      BY <2>2, <3>6 DEF Dissent
  <2>3. CASE k # 0
    <3>1. 40 * k \in Int /\ 40 * l \in Int /\ i + k \in Nat \ {0} /\ i + l \in Nat \ {0} /\ l # 0
      BY <2>3
    <3>2. 40 * k * (i + l) <= 40 * l * (i + k)
      <4>1. 40 * k * (i + l) = 40 * (k * i) + 40 * (k * l)
        OBVIOUS
      <4>2. 40 * l * (i + k) = 40 * (l * i) + 40 * (k * l)
        OBVIOUS
      <4>3. k * i <= l * i
        BY TimesKeepsOrder
      <4>4. k * i \in Int /\ l * i \in Int /\ k * l \in Int
        OBVIOUS
      <4> QED
        BY <4>1, <4>2, <4>3, <4>4
    <3>3. Rounded(40 * k, i + k) <= Rounded(40 * l, i + l)
      BY <3>1, <3>2, RoundedKeepsOrder
    <3>4. Rounded(40 * k, i + k) \in Int /\ Rounded(40 * l, i + l) \in Int
      BY <3>1, RoundedIsInt
    <3> QED
      BY <2>3, <3>1, <3>3, <3>4 DEF Dissent
  <2> QED
    BY <2>1, <2>2, <2>3
<1> QED
  BY <1>1, <1>2

LEMMA SureMoves ==
  ASSUME NEW i \in Nat, NEW a \in Nat, NEW r \in Nat, NEW q \in Nat, NEW k \in Nat,
         NEW j \in Nat, NEW b \in Nat, NEW s \in Nat, NEW t \in Nat, NEW l \in Nat,
         i <= j, a <= b, r <= s, q <= t, k <= l
  PROVE  Sure(i, a, r, q, k) <= Sure(j, b, s, t, k) /\ Sure(i, a, r, q, l) <= Sure(i, a, r, q, k)
<1>1. PICK x \in Int, y \in Int, z \in Int :
         /\ x = Dissent(i, k) /\ y = Dissent(j, k) /\ z = Dissent(i, l)
         /\ x <= y /\ z <= x
  BY DissentIsInt, DissentMoves
<1> DEFINE Agreed(m, c, p, n) == Least(30, 8 * m) + Least(25, 9 * c) + (IF p > 1 THEN 15 ELSE 0)
                                 + Least(20, 7 * n)
<1>2. /\ Agreed(i, a, r, q) \in Int /\ Agreed(j, b, s, t) \in Int
      /\ Agreed(i, a, r, q) <= Agreed(j, b, s, t)
  BY DEF Least
<1>3. /\ Sure(i, a, r, q, k) = Clamp(Agreed(i, a, r, q) + x)
      /\ Sure(j, b, s, t, k) = Clamp(Agreed(j, b, s, t) + y)
      /\ Sure(i, a, r, q, l) = Clamp(Agreed(i, a, r, q) + z)
  BY <1>1 DEF Sure
<1> HIDE DEF Agreed
<1>4. /\ Agreed(i, a, r, q) + x \in Int /\ Agreed(j, b, s, t) + y \in Int
      /\ Agreed(i, a, r, q) + z \in Int
      /\ Agreed(i, a, r, q) + x <= Agreed(j, b, s, t) + y
      /\ Agreed(i, a, r, q) + z <= Agreed(i, a, r, q) + x
  BY <1>1, <1>2
<1> QED
  BY <1>3, <1>4, ClampKeepsOrder

LEMMA CountsGrow ==
  ASSUME NEW ds \in SUBSET Claims, NEW cs \in SUBSET ds
  PROVE  /\ Cardinality(ItemsOf(cs)) \in Nat /\ Cardinality(ItemsOf(ds)) \in Nat
         /\ Cardinality(Creators(cs)) \in Nat /\ Cardinality(Creators(ds)) \in Nat
         /\ Cardinality(Routes(cs)) \in Nat /\ Cardinality(Routes(ds)) \in Nat
         /\ Cardinality(cs \cap Cited) \in Nat /\ Cardinality(ds \cap Cited) \in Nat
         /\ Cardinality(ItemsOf(cs)) <= Cardinality(ItemsOf(ds))
         /\ Cardinality(Creators(cs)) <= Cardinality(Creators(ds))
         /\ Cardinality(Routes(cs)) <= Cardinality(Routes(ds))
         /\ Cardinality(cs \cap Cited) <= Cardinality(ds \cap Cited)
<1>1. /\ ItemsOf(cs) \subseteq ItemsOf(ds) /\ Creators(cs) \subseteq Creators(ds)
      /\ Routes(cs) \subseteq Routes(ds) /\ cs \cap Cited \subseteq ds \cap Cited
  BY DEF ItemsOf, Creators, Routes
<1>2. /\ IsFiniteSet(ItemsOf(ds)) /\ IsFiniteSet(Creators(ds)) /\ IsFiniteSet(Routes(ds))
      /\ IsFiniteSet(ds \cap Cited)
  <2>1. IsFiniteSet(ds \cap Cited)
    BY ScoresAssumption, FS_Subset
  <2> QED
    BY <2>1, ItemsAreFinite, ImageIsFinite DEF Creators, Routes
<1>3. \A S, R : IsFiniteSet(S) /\ R \subseteq S =>
         Cardinality(R) \in Nat /\ Cardinality(S) \in Nat /\ Cardinality(R) <= Cardinality(S)
  BY FS_Subset, FS_CardinalityType
<1> QED
  BY <1>1, <1>2, <1>3

LEMMA ConfidenceMoves ==
  ASSUME NEW ds \in SUBSET Claims, NEW cs \in SUBSET ds,
         NEW ms \in SUBSET Claims, NEW ks \in SUBSET ms
  PROVE  /\ Confidence(cs, ks) <= Confidence(ds, ks)
         /\ Confidence(cs, ms) <= Confidence(cs, ks)
<1>1. /\ Cardinality(ItemsOf(ks)) \in Nat /\ Cardinality(ItemsOf(ms)) \in Nat
      /\ Cardinality(ItemsOf(ks)) <= Cardinality(ItemsOf(ms))
  BY CountsGrow
<1>2. /\ Confidence(cs, ks) = Sure(Cardinality(ItemsOf(cs)), Cardinality(Creators(cs)),
             Cardinality(Routes(cs)), Cardinality(cs \cap Cited), Cardinality(ItemsOf(ks)))
      /\ Confidence(ds, ks) = Sure(Cardinality(ItemsOf(ds)), Cardinality(Creators(ds)),
             Cardinality(Routes(ds)), Cardinality(ds \cap Cited), Cardinality(ItemsOf(ks)))
      /\ Confidence(cs, ms) = Sure(Cardinality(ItemsOf(cs)), Cardinality(Creators(cs)),
             Cardinality(Routes(cs)), Cardinality(cs \cap Cited), Cardinality(ItemsOf(ms)))
  BY ConfidenceIs
<1>3. PICK i \in Nat, a \in Nat, r \in Nat, q \in Nat :
         /\ i = Cardinality(ItemsOf(cs)) /\ a = Cardinality(Creators(cs))
         /\ r = Cardinality(Routes(cs)) /\ q = Cardinality(cs \cap Cited)
  BY CountsGrow
<1>4. PICK j \in Nat, b \in Nat, s \in Nat, t \in Nat :
         /\ j = Cardinality(ItemsOf(ds)) /\ b = Cardinality(Creators(ds))
         /\ s = Cardinality(Routes(ds)) /\ t = Cardinality(ds \cap Cited)
  BY CountsGrow
<1>5. i <= j /\ a <= b /\ r <= s /\ q <= t
  BY <1>3, <1>4, CountsGrow
<1>6. PICK k \in Nat, l \in Nat : k = Cardinality(ItemsOf(ks)) /\ l = Cardinality(ItemsOf(ms)) /\ k <= l
  BY <1>1
<1>7. Sure(i, a, r, q, k) <= Sure(j, b, s, t, k) /\ Sure(i, a, r, q, l) <= Sure(i, a, r, q, k)
  BY <1>5, <1>6, SureMoves
<1> QED
  BY <1>2, <1>3, <1>4, <1>6, <1>7

-----------------------------------------------------------------------------
(* What a client's profile finds in a claim.                               *)

LEMMA ComponentIs ==
  ASSUME NEW c \in Claims, NEW g \in Groups PROVE Component(c, g) \in Percent
<1>1. CASE Hits(c, g) = {}
  BY <1>1 DEF Component, Percent
<1>2. CASE Hits(c, g) # {}
  <2> DEFINE ws == {WeightOf[e] : e \in Hits(c, g)}
  <2>1. Hits(c, g) \subseteq Entries /\ IsFiniteSet(Hits(c, g))
    BY ScoresAssumption, FS_Subset DEF Hits
  <2>2. IsFiniteSet(ws) /\ ws \subseteq Int /\ ws \subseteq Nat
    BY <2>1, ScoresAssumption, ImageIsFinite
  <2> HIDE DEF ws
  <2>3. Highest(ws) \in Nat
    <3>1. PICK h \in ws \cup {0} : h = Highest(ws)
      BY <2>2, HighestIs
    <3> QED
      BY <2>2, <3>1
  <2>4. Cardinality(Hits(c, g)) \in Nat \ {0}
    BY <1>2, <2>1, FS_CardinalityType, FS_EmptySet
  <2>5. Highest(ws) + 5 * (Cardinality(Hits(c, g)) - 1) \in Nat
    BY <2>3, <2>4
  <2>6. Component(c, g) = Least(100, Highest(ws) + 5 * (Cardinality(Hits(c, g)) - 1))
    BY <1>2 DEF Component, ws
  <2> QED
    BY <2>5, <2>6 DEF Least, Percent
<1> QED
  BY <1>1, <1>2

LEMMA BestIs ==
  ASSUME NEW cs \in SUBSET Claims, NEW g \in Groups
  PROVE  /\ Best(cs, g) \in Percent
         /\ \A c \in cs : Component(c, g) <= Best(cs, g)
         /\ Best(cs, g) = 0 \/ \E c \in cs : Best(cs, g) = Component(c, g)
<1> DEFINE S == {Component(c, g) : c \in cs}
<1>1. IsFiniteSet(cs)
  BY ScoresAssumption, FS_Subset
<1>2. IsFiniteSet(S)
  <2> DEFINE f == [c \in cs |-> Component(c, g)]
  <2>1. S = {f[c] : c \in cs}
    OBVIOUS
  <2> HIDE DEF f, S
  <2> QED
    BY <1>1, <2>1, ImageIsFinite
<1>3. S \subseteq Percent
  BY ComponentIs
<1>4. S \subseteq Int
  BY <1>3 DEF Percent
<1>5. Best(cs, g) = Highest(S)
  BY DEF Best
<1>6. \A c \in cs : Component(c, g) \in S
  OBVIOUS
<1>7. \A x \in S : \E c \in cs : x = Component(c, g)
  OBVIOUS
<1> HIDE DEF S
<1>8. PICK h : h = Best(cs, g) /\ h \in S \cup {0} /\ \A x \in S \cup {0} : x <= h
  BY <1>2, <1>4, <1>5, HighestIs
<1>9. h \in Percent
  BY <1>3, <1>8 DEF Percent
<1>10. \A c \in cs : Component(c, g) <= h
  BY <1>6, <1>8
<1>11. h = 0 \/ \E c \in cs : h = Component(c, g)
  BY <1>7, <1>8
<1> QED
  BY <1>8, <1>9, <1>10, <1>11

\* What is stronger in every group fits no less.
LEMMA GroupsAreFinite == IsFiniteSet(Groups)
<1> DEFINE names == <<"asset", "audience", "priority">>
<1>1. Groups = {names[n] : n \in 1 .. 3}
  BY DEF Groups
<1>2. \A b \in Int : IsFiniteSet(1 .. b)
  BY FS_Interval
<1> HIDE DEF names
<1> QED
  BY <1>1, <1>2, ImageIsFinite

LEMMA FitKeepsOrder ==
  ASSUME NEW p, NEW q, \A g \in Groups : p[g] \in Percent /\ q[g] \in Percent /\ p[g] <= q[g]
  PROVE  FitOf(p) <= FitOf(q) /\ FitOf(p) \in Int /\ FitOf(q) \in Int
<1> DEFINE e == [g \in Groups |-> p[g] * RankWeights[g]]
           f == [g \in Groups |-> q[g] * RankWeights[g]]
<1>1. IsFiniteSet(Groups)
  BY GroupsAreFinite
<1>2. \A g \in Groups : RankWeights[g] \in Nat
  BY DEF Groups, RankWeights
<1>3. \A g \in Groups : e[g] \in Nat /\ f[g] \in Nat /\ e[g] <= f[g]
  <2> SUFFICES ASSUME NEW g \in Groups
               PROVE  /\ p[g] * RankWeights[g] \in Nat /\ q[g] * RankWeights[g] \in Nat
                      /\ p[g] * RankWeights[g] <= q[g] * RankWeights[g]
    OBVIOUS
  <2>1. p[g] \in Nat /\ q[g] \in Nat /\ p[g] <= q[g] /\ RankWeights[g] \in Nat
    BY <1>2 DEF Percent
  <2> QED
    BY <2>1, TimesKeepsOrder
<1>4. ClientPart(p) = SumFunctionOnSet(e, Groups) /\ ClientPart(q) = SumFunctionOnSet(f, Groups)
  BY DEF ClientPart
<1> HIDE DEF e, f
<1>5. ClientPart(p) \in Nat /\ ClientPart(q) \in Nat /\ ClientPart(p) <= ClientPart(q)
  BY <1>1, <1>3, <1>4, SumIsMonotone, SumIsNat
<1>6. PICK d \in Nat \ {0} : d = 40
  OBVIOUS
<1>7. PICK m \in Int, n \in Int : m = ClientPart(p) /\ n = ClientPart(q) /\ m * d <= n * d
  BY <1>5, <1>6
<1>8. Rounded(m, d) <= Rounded(n, d) /\ Rounded(m, d) \in Int /\ Rounded(n, d) \in Int
  BY <1>7, RoundedKeepsOrder, RoundedIsInt
<1> QED
  BY <1>6, <1>7, <1>8 DEF FitOf

LEMMA FitMoves ==
  ASSUME NEW ds \in SUBSET Claims, NEW cs \in SUBSET ds
  PROVE  /\ Fit(cs) <= Fit(ds)
         /\ \A c \in ds : ClaimFit(c) <= Fit(ds) /\ ClaimFit(c) \in Int /\ Fit(ds) \in Int
<1>1. PICK p, q : p = [g \in Groups |-> Best(cs, g)] /\ q = [g \in Groups |-> Best(ds, g)]
  OBVIOUS
<1>2. \A g \in Groups : p[g] \in Percent /\ q[g] \in Percent
  BY <1>1, BestIs
<1>3. \A g \in Groups : p[g] <= q[g]
  <2> SUFFICES ASSUME NEW g \in Groups PROVE Best(cs, g) <= Best(ds, g)
    BY <1>1
  <2>1. Best(cs, g) = 0 \/ \E c \in ds : Best(cs, g) = Component(c, g)
    BY BestIs
  <2>2. \A c \in ds : Component(c, g) <= Best(ds, g)
    BY BestIs
  <2>3. Best(ds, g) \in Percent
    BY BestIs
  <2> QED
    BY <2>1, <2>2, <2>3 DEF Percent
<1>4. Fit(cs) <= Fit(ds)
  BY <1>1, <1>2, <1>3, FitKeepsOrder DEF Fit
<1>5. ASSUME NEW c \in ds PROVE ClaimFit(c) <= Fit(ds) /\ ClaimFit(c) \in Int /\ Fit(ds) \in Int
  <2>1. PICK r : r = [g \in Groups |-> Component(c, g)]
    OBVIOUS
  <2>2. \A g \in Groups : r[g] \in Percent /\ r[g] <= q[g]
    BY <1>1, <2>1, BestIs, ComponentIs
  <2>3. FitOf(r) <= FitOf(q) /\ FitOf(r) \in Int /\ FitOf(q) \in Int
    BY <1>2, <2>2, FitKeepsOrder
  <2> QED
    BY <1>1, <2>1, <2>3 DEF Fit, ClaimFit, ClaimRelevance
<1> QED
  BY <1>4, <1>5

-----------------------------------------------------------------------------
(* In every behaviour.                                                     *)

LEMMA TypesBegin == ScoresInit => ScoresTypes
BY DEF ScoresInit, ScoresTypes

LEMMA TypesKeep == ScoresTypes /\ [ScoresNext]_scoreVars => ScoresTypes'
BY DEF ScoresTypes, ScoresNext, scoreVars, Analyse, Support, Contradict, Wait

LEMMA TypesAlways == ScoresSpec => []ScoresTypes
BY TypesBegin, TypesKeep, PTL DEF ScoresSpec

\* One more claim is evidence, in one role, or the evidence stays as it is.
LEMMA EvidenceGrows ==
  ASSUME ScoresTypes, ScoresNext
  PROVE  /\ supports \subseteq supports' /\ against \subseteq against'
         /\ supports' \subseteq Claims /\ against' \subseteq Claims
         /\ supports' = supports \/ against' = against
BY DEF ScoresTypes, ScoresNext, Analyse, Support, Contradict, Wait

LEMMA StepCounts == ASSUME ScoresTypes, ScoresNext PROVE EvidenceStep
<1>1. PICK S, T : S = supports /\ T = supports'
  OBVIOUS
<1>2. PICK A, B : A = against /\ B = against'
  OBVIOUS
<1>3. T \in SUBSET Claims /\ S \in SUBSET T /\ B \in SUBSET Claims /\ A \in SUBSET B
  BY <1>1, <1>2, EvidenceGrows
<1>4. Confidence(T, A) >= Confidence(S, A) /\ Confidence(S, B) <= Confidence(S, A)
  <2>1. Confidence(S, A) <= Confidence(T, A) /\ Confidence(S, B) <= Confidence(S, A)
    BY <1>3, ConfidenceMoves
  <2> QED
    BY <2>1
<1>5. Fit(T) >= Fit(S)
  <2>1. Fit(S) <= Fit(T)
    BY <1>3, FitMoves
  <2> QED
    BY <2>1
<1>6. ASSUME NEW c \in T \ S, c \in Section(KindOf[c]) PROVE Fit(T) >= 1
  <2>1. ClaimFit(c) >= 1
    BY <1>6 DEF Section, Relevant
  <2>2. ClaimFit(c) <= Fit(T) /\ ClaimFit(c) \in Int /\ Fit(T) \in Int
    BY <1>3, <1>6, FitMoves
  <2> QED
    BY <2>1, <2>2
<1>7. ASSUME ItemsOf(T \ S) \subseteq ItemsOf(S), (T \ S) \cap Cited = {}
      PROVE  Confidence(T, A) = Confidence(S, A)
  <2>1. ItemsOf(T) = ItemsOf(S)
    BY <1>3, <1>7 DEF ItemsOf
  <2>2. Creators(T) = Creators(S) /\ Routes(T) = Routes(S)
    BY <2>1 DEF Creators, Routes
  <2>3. T \cap Cited = S \cap Cited
    BY <1>3, <1>7
  <2> QED
    BY <2>1, <2>2, <2>3 DEF Confidence
<1> QED
  BY <1>1, <1>2, <1>4, <1>5, <1>6, <1>7 DEF EvidenceStep

\* What is called a measured trend was watched in each of five weeks and rises
\* above the average of four (components.py, _momentum and _maturity).
THEOREM TrendsRise == ScoresSpec => []TrendIsRising
<1>1. ScoresTypes => TrendIsRising
  BY TrendRises DEF ScoresTypes
<1> QED
  BY <1>1, TypesAlways, PTL

\* The score lies between the weakest and the strongest of its measured parts,
\* each of them one of 0 .. 100 (components.py, score).
THEOREM ScoreLiesWithin == ScoresSpec => []WithinItsParts
<1>1. ScoresTypes => WithinItsParts
  BY ScoreIsWithin DEF ScoresTypes, WithinItsParts, Percent
<1> QED
  BY <1>1, TypesAlways, PTL

\* What agrees lowers neither confidence nor fit, what disagrees never raises
\* confidence, repeating adds nothing, and what a client's brief may quote is
\* the client's (components.py, _confidence; relevance.py, score_claim).
THEOREM EvidenceMovesScores == ScoresSpec => EvidenceCounts
<1>1. ASSUME ScoresTypes, [ScoresNext]_scoreVars PROVE [EvidenceStep]_scoreVars
  BY <1>1, StepCounts
<1> QED
  BY <1>1, TypesAlways, PTL DEF ScoresSpec, EvidenceCounts

-----------------------------------------------------------------------------
(* Documents: what rows there may be.                                      *)

BriefsTypes ==
    /\ told \in [Developments -> [Claims -> Roles \cup {NoRole}]]
    /\ shown \in [Developments -> [Observations -> Roles \cup {NoRole}]]
    /\ found \subseteq Developments /\ advised \subseteq Developments
    /\ outline \in Seq(OutlineSection)
    /\ written \in [Developments -> Seq(Observations)]

LEMMA DocumentsBegin == DocumentsInit => ScoresTypes /\ BriefsTypes
BY TypesBegin DEF DocumentsInit, BriefsInit, BriefsTypes

LEMMA DocumentsKeep ==
  ScoresTypes /\ BriefsTypes /\ [DocumentsNext]_<<scoreVars, briefVars>> => ScoresTypes' /\ BriefsTypes'
<1> SUFFICES ASSUME ScoresTypes, BriefsTypes, [DocumentsNext]_<<scoreVars, briefVars>>
             PROVE  ScoresTypes' /\ BriefsTypes'
  OBVIOUS
<1>1. CASE UNCHANGED <<scoreVars, briefVars>>
  BY <1>1 DEF ScoresTypes, BriefsTypes, scoreVars, briefVars
<1>2. CASE ScoresNext /\ UNCHANGED briefVars
  BY <1>2, TypesKeep DEF BriefsTypes, briefVars
<1>3. ASSUME BriefsNext, UNCHANGED scoreVars PROVE ScoresTypes' /\ BriefsTypes'
  <2>1. ScoresTypes'
    BY <1>3 DEF ScoresTypes, scoreVars
  <2>2. ASSUME NEW d \in Developments, NEW role \in Roles, NEW c \in Claims, Tell(d, c, role)
        PROVE  BriefsTypes'
    BY <2>2 DEF BriefsTypes, Tell
  <2>3. ASSUME NEW d \in Developments, NEW role \in Roles, NEW o \in Observations, Show(d, o, role)
        PROVE  BriefsTypes'
    BY <2>3 DEF BriefsTypes, Show
  <2>4. ASSUME NEW d \in Developments, Find(d) \/ Advise(d) PROVE BriefsTypes'
    BY <2>4 DEF BriefsTypes, Find, Advise
  <2>5. ASSUME NEW d \in Developments, NEW o \in Observations, Refer(d, o) PROVE BriefsTypes'
    BY <2>5 DEF BriefsTypes, Refer
  <2>6. ASSUME NEW o \in Observations, Enter(o) PROVE BriefsTypes'
    BY <2>6 DEF BriefsTypes, Enter
  <2>7. ASSUME NEW section \in OutlineSection, AskFor(section) PROVE BriefsTypes'
    BY <2>7 DEF BriefsTypes, AskFor
  <2> QED
    BY <1>3, <2>1, <2>2, <2>3, <2>4, <2>5, <2>6, <2>7 DEF BriefsNext
<1> QED
  BY <1>1, <1>2, <1>3 DEF DocumentsNext

LEMMA DocumentsAlways == DocumentsSpec => [](ScoresTypes /\ BriefsTypes)
BY DocumentsBegin, DocumentsKeep, PTL DEF DocumentsSpec

-----------------------------------------------------------------------------
(* Citing.                                                                 *)

Listing(K) == [sources : Seq(K), lines : Seq([key : K, number : Nat])]
Nothing == [sources |-> <<>>, lines |-> <<>>]

Numbered(brief) ==
    /\ IsInjective(brief.sources)
    /\ \A n \in DOMAIN brief.lines : /\ brief.lines[n].number \in DOMAIN brief.sources
                                     /\ brief.sources[brief.lines[n].number] = brief.lines[n].key
    /\ \A k \in ToSet(brief.sources) : \E n \in DOMAIN brief.lines : brief.lines[n].key = k

LEMMA ToSetOfAppend ==
  ASSUME NEW K, NEW s \in Seq(K), NEW x \in K
  PROVE  /\ Append(s, x) \in Seq(K) /\ ToSet(Append(s, x)) = ToSet(s) \cup {x}
         /\ DOMAIN s = 1 .. Len(s) /\ DOMAIN Append(s, x) = 1 .. (Len(s) + 1)
         /\ Append(s, x)[Len(s) + 1] = x /\ \A i \in DOMAIN s : Append(s, x)[i] = s[i]
<1>1. PICK n \in Nat : n = Len(s)
  OBVIOUS
<1>2. PICK t : t = Append(s, x)
  OBVIOUS
<1>3. /\ t \in Seq(K) /\ DOMAIN t = 1 .. (n + 1) /\ DOMAIN s = 1 .. n
      /\ t[n + 1] = x /\ \A i \in 1 .. n : t[i] = s[i]
  BY <1>1, <1>2
<1>4. ToSet(t) \subseteq ToSet(s) \cup {x}
  <2> SUFFICES ASSUME NEW i \in 1 .. (n + 1) PROVE t[i] \in ToSet(s) \cup {x}
    BY <1>3 DEF ToSet
  <2>1. CASE i = n + 1
    BY <1>3, <2>1
  <2>2. CASE i # n + 1
    <3>1. i \in 1 .. n
      BY <2>2
    <3> QED
      BY <1>3, <3>1 DEF ToSet
  <2> QED
    BY <2>1, <2>2
<1>5. ToSet(s) \subseteq ToSet(t)
  <2> SUFFICES ASSUME NEW i \in 1 .. n PROVE s[i] \in ToSet(t)
    BY <1>3 DEF ToSet
  <2>1. i \in 1 .. (n + 1)
    OBVIOUS
  <2> QED
    BY <1>3, <2>1 DEF ToSet
<1>6. x \in ToSet(t)
  <2>1. n + 1 \in 1 .. (n + 1)
    OBVIOUS
  <2> QED
    BY <1>3, <2>1 DEF ToSet
<1> QED
  BY <1>1, <1>2, <1>3, <1>4, <1>5, <1>6

LEMMA CiteKeeps ==
  ASSUME NEW K, NEW brief \in Listing(K), Numbered(brief), NEW key \in K
  PROVE  /\ Cite(brief, key) \in Listing(K) /\ Numbered(Cite(brief, key))
         /\ ToSet(Cite(brief, key).sources) = ToSet(brief.sources) \cup {key}
<1>1. PICK S, L : S = brief.sources /\ L = brief.lines
  OBVIOUS
<1>2. S \in Seq(K) /\ L \in Seq([key : K, number : Nat])
  BY <1>1 DEF Listing
<1>3. /\ IsInjective(S)
      /\ \A n \in DOMAIN L : L[n].number \in DOMAIN S /\ S[L[n].number] = L[n].key
      /\ \A k \in ToSet(S) : \E n \in DOMAIN L : L[n].key = k
  BY <1>1 DEF Numbered
<1>4. PICK T : T = IF key \in ToSet(S) THEN S ELSE Append(S, key)
  OBVIOUS
<1>5. /\ T \in Seq(K) /\ ToSet(T) = ToSet(S) \cup {key} /\ IsInjective(T)
      /\ DOMAIN S \subseteq DOMAIN T /\ \A n \in DOMAIN S : T[n] = S[n]
  <2>1. CASE key \in ToSet(S)
    BY <1>2, <1>3, <1>4, <2>1
  <2>2. CASE key \notin ToSet(S)
    <3>1. T = Append(S, key)
      BY <1>4, <2>2
    <3>2. PICK n \in Nat : n = Len(S)
      BY <1>2
    <3>3. /\ T \in Seq(K) /\ ToSet(T) = ToSet(S) \cup {key}
          /\ DOMAIN S = 1 .. n /\ DOMAIN T = 1 .. (n + 1)
          /\ T[n + 1] = key /\ \A i \in DOMAIN S : T[i] = S[i]
      BY <1>2, <3>1, <3>2, ToSetOfAppend
    <3>4. \A i \in DOMAIN S : S[i] # key
      BY <2>2 DEF ToSet
    <3>5. ASSUME NEW a \in DOMAIN T, NEW b \in DOMAIN T, T[a] = T[b] PROVE a = b
      <4>1. \A i \in DOMAIN T : i = n + 1 \/ i \in DOMAIN S
        BY <3>3
      <4> QED
        BY <1>3, <3>3, <3>4, <3>5, <4>1 DEF IsInjective
    <3>6. DOMAIN S \subseteq DOMAIN T
      BY <3>3
    <3> QED
      BY <3>3, <3>5, <3>6 DEF IsInjective
  <2> QED
    BY <2>1, <2>2
<1>6. PICK p : p = CHOOSE n \in DOMAIN T : T[n] = key
  OBVIOUS
<1>7. p \in DOMAIN T /\ T[p] = key /\ p \in Nat
  <2>1. key \in ToSet(T)
    BY <1>5
  <2>2. \E n \in DOMAIN T : T[n] = key
    BY <2>1 DEF ToSet
  <2>3. DOMAIN T \subseteq Nat
    BY <1>5
  <2> QED
    BY <1>6, <2>2, <2>3
<1>8. PICK line : line = [key |-> key, number |-> p]
  OBVIOUS
<1>9. Cite(brief, key) = [sources |-> T, lines |-> Append(L, line)]
  BY <1>1, <1>4, <1>6, <1>8 DEF Cite
<1>10. PICK M : M = Append(L, line)
  OBVIOUS
<1>14. PICK m \in Nat : m = Len(L)
  BY <1>2
<1>11. /\ M \in Seq([key : K, number : Nat]) /\ DOMAIN L = 1 .. m /\ DOMAIN M = 1 .. (m + 1)
       /\ M[m + 1] = line /\ \A i \in DOMAIN L : M[i] = L[i]
  <2>1. line \in [key : K, number : Nat]
    BY <1>7, <1>8
  <2> QED
    BY <1>2, <1>10, <1>14, <2>1, ToSetOfAppend
<1>12. ASSUME NEW n \in DOMAIN M PROVE M[n].number \in DOMAIN T /\ T[M[n].number] = M[n].key
  <2>1. CASE n = m + 1
    BY <1>7, <1>8, <1>11, <2>1
  <2>2. CASE n # m + 1
    <3>1. n \in DOMAIN L
      BY <1>11, <2>2
    <3> QED
      BY <1>3, <1>5, <1>11, <3>1
  <2> QED
    BY <2>1, <2>2
<1>13. ASSUME NEW k \in ToSet(T) PROVE \E n \in DOMAIN M : M[n].key = k
  <2>1. CASE k = key
    BY <1>8, <1>11, <2>1
  <2>2. CASE k \in ToSet(S)
    <3>1. PICK n \in DOMAIN L : L[n].key = k
      BY <1>3, <2>2
    <3>2. n \in DOMAIN M
      BY <1>11, <3>1
    <3> QED
      BY <1>11, <3>1, <3>2
  <2> QED
    BY <1>5, <2>1, <2>2
<1>15. PICK r : r = Cite(brief, key)
  OBVIOUS
<1>16. r.sources = T /\ r.lines = M /\ r = [sources |-> T, lines |-> M]
  BY <1>9, <1>10, <1>15
<1>17. r \in Listing(K)
  BY <1>5, <1>11, <1>16 DEF Listing
<1>18. Numbered(r)
  BY <1>5, <1>12, <1>13, <1>16 DEF Numbered
<1> QED
  BY <1>1, <1>5, <1>15, <1>16, <1>17, <1>18

\* What is written of the first keys, for every number of them.
LEMMA WrittenRuns ==
  ASSUME NEW K, NEW keys \in Seq(K), NEW n \in Nat, n = Len(keys)
  PROVE  \E g : /\ g[0] = Nothing /\ \A k \in 1 .. n : g[k] = Cite(g[k - 1], keys[k])
               /\ Written(keys) = g[n]
<1> DEFINE B == {b \in Listing(K) : Numbered(b)}
           step == [p \in (1 .. n) \X B |-> Cite(p[2], keys[p[1]])]
           Iter(f) == f = [s \in SUBSET (1 .. n) |->
                              IF s = {} THEN Nothing ELSE Cite(f[s \ {Max(s)}], keys[Max(s)])]
           f1 == CHOOSE f : Iter(f)
<1>1. Nothing \in B
  <2>1. Nothing.sources = <<>> /\ Nothing.lines = <<>> /\ Nothing \in Listing(K)
    BY DEF Nothing, Listing
  <2> QED
    BY <2>1 DEF Numbered, ToSet, IsInjective
<1>2. step \in [(1 .. n) \X B -> B]
  <2> SUFFICES ASSUME NEW p \in (1 .. n) \X B PROVE Cite(p[2], keys[p[1]]) \in B
    OBVIOUS
  <2>1. p[2] \in Listing(K) /\ Numbered(p[2]) /\ keys[p[1]] \in K
    BY ElementOfSeq
  <2> QED
    BY <2>1, CiteKeeps
<1>3. PICK h \in [SUBSET (1 .. n) -> B] : Folding(h, Nothing, step, SUBSET (1 .. n))
  <2> HIDE DEF step, B
  <2> QED
    BY <1>1, <1>2, FoldExists
<1>4. Iter(h)
  <2> SUFFICES ASSUME NEW s \in SUBSET (1 .. n)
               PROVE  h[s] = IF s = {} THEN Nothing ELSE Cite(h[s \ {Max(s)}], keys[Max(s)])
    <3> HIDE DEF B
    <3> QED
      BY <1>3 DEF Folding
  <2>1. h[s] = IF s = {} THEN Nothing ELSE step[<<Max(s), h[s \ {Max(s)}]>>]
    BY <1>3 DEF Folding
  <2>2. CASE s # {}
    <3>1. Max(s) \in 1 .. n
      BY <2>2, MaxIsIn
    <3>2. h[s \ {Max(s)}] \in B
      BY <1>3
    <3>3. <<Max(s), h[s \ {Max(s)}]>> \in (1 .. n) \X B
      BY <3>1, <3>2
    <3> QED
      BY <2>1, <2>2, <3>3
  <2> QED
    BY <2>1, <2>2
<1>5. Iter(f1)
  <2> HIDE DEF Iter
  <2> QED
    BY <1>4
<1>6. Written(keys) = f1[1 .. n]
  <2>1. DOMAIN keys = 1 .. n
    OBVIOUS
  <2> QED
    BY <2>1 DEF Written, FoldLeft, MapThenFoldSet, Nothing
<1> HIDE DEF f1
<1> DEFINE g == [k \in 0 .. n |-> f1[1 .. k]]
<1>7. g[0] = Nothing
  <2>1. 1 .. 0 = {} /\ {} \in SUBSET (1 .. n)
    OBVIOUS
  <2> QED
    BY <1>5, <2>1
<1>8. ASSUME NEW k \in 1 .. n PROVE g[k] = Cite(g[k - 1], keys[k])
  <2>1. /\ 1 .. k # {} /\ 1 .. k \in SUBSET (1 .. n) /\ k \in 0 .. n /\ k - 1 \in 0 .. n
        /\ Max(1 .. k) = k /\ (1 .. k) \ {k} = 1 .. (k - 1)
    BY PrefixIs
  <2>2. f1[1 .. k] = Cite(f1[(1 .. k) \ {Max(1 .. k)}], keys[Max(1 .. k)])
    BY <1>5, <2>1
  <2> QED
    BY <2>1, <2>2
<1>9. Written(keys) = g[n]
  BY <1>6
<1> HIDE DEF g
<1> QED
  BY <1>7, <1>8, <1>9

LEMMA WrittenIs ==
  ASSUME NEW K, NEW keys \in Seq(K)
  PROVE  /\ Written(keys) \in Listing(K) /\ Numbered(Written(keys))
         /\ ToSet(Written(keys).sources) = ToSet(keys)
<1>1. PICK n \in Nat : n = Len(keys)
  OBVIOUS
<1>2. PICK g : /\ g[0] = Nothing /\ \A k \in 1 .. n : g[k] = Cite(g[k - 1], keys[k])
               /\ Written(keys) = g[n]
  BY <1>1, WrittenRuns
<1> DEFINE Good(k) == /\ g[k] \in Listing(K) /\ Numbered(g[k])
                      /\ ToSet(g[k].sources) = {keys[m] : m \in 1 .. k}
           T == {k \in Nat : k <= n => Good(k)}
<1>3. 0 \in T
  <2>1. Nothing.sources = <<>> /\ Nothing.lines = <<>> /\ Nothing \in Listing(K)
    BY DEF Nothing, Listing
  <2>2. Numbered(Nothing) /\ ToSet(Nothing.sources) = {}
    BY <2>1 DEF Numbered, ToSet, IsInjective
  <2>3. 1 .. 0 = {}
    OBVIOUS
  <2> QED
    BY <1>2, <2>1, <2>2, <2>3
<1>4. ASSUME NEW k \in Nat, k \in T PROVE k + 1 \in T
  <2> SUFFICES ASSUME k + 1 <= n PROVE Good(k + 1)
    OBVIOUS
  <2>1. PICK l \in 1 .. n : l = k + 1 /\ l - 1 = k /\ k <= n
    OBVIOUS
  <2>2. Good(k)
    BY <1>4, <2>1
  <2>3. g[l] = Cite(g[k], keys[l]) /\ keys[l] \in K
    BY <1>1, <1>2, <2>1, ElementOfSeq
  <2>4. /\ g[l] \in Listing(K) /\ Numbered(g[l])
        /\ ToSet(g[l].sources) = ToSet(g[k].sources) \cup {keys[l]}
    <3>1. PICK b : b = g[k]
      OBVIOUS
    <3>2. b \in Listing(K) /\ Numbered(b)
      BY <2>2, <3>1
    <3>3. PICK x \in K : x = keys[l]
      BY <2>3
    <3>4. /\ Cite(b, x) \in Listing(K) /\ Numbered(Cite(b, x))
          /\ ToSet(Cite(b, x).sources) = ToSet(b.sources) \cup {x}
      BY <3>2, CiteKeeps
    <3> QED
      BY <2>3, <3>1, <3>3, <3>4
  <2>5. 1 .. l = (1 .. k) \cup {l}
    BY <2>1
  <2>6. {keys[m] : m \in 1 .. l} = {keys[m] : m \in 1 .. k} \cup {keys[l]}
    BY <2>5
  <2> QED
    BY <2>1, <2>2, <2>4, <2>6
<1>5. n \in T
  <2> HIDE DEF T
  <2> QED
    BY <1>3, <1>4, AllNumbers
<1>6. ToSet(keys) = {keys[m] : m \in 1 .. n}
  BY <1>1 DEF ToSet
<1> QED
  BY <1>2, <1>5, <1>6

-----------------------------------------------------------------------------
(* What is chosen and put in order.                                        *)

LEMMA DistinctIs ==
  ASSUME NEW K, NEW seq \in Seq(K)
  PROVE  Distinct(seq) \in Seq(K) /\ ToSet(Distinct(seq)) = ToSet(seq)
<1>1. PICK n \in Nat : n = Len(seq)
  OBVIOUS
<1> DEFINE Add(kept, x) == IF x \in ToSet(kept) THEN kept ELSE Append(kept, x)
           step == [p \in (1 .. n) \X Seq(K) |-> Add(p[2], seq[p[1]])]
           Iter(f) == f = [s \in SUBSET (1 .. n) |->
                              IF s = {} THEN <<>> ELSE Add(f[s \ {Max(s)}], seq[Max(s)])]
           f1 == CHOOSE f : Iter(f)
<1>2. \A k \in 1 .. n : seq[k] \in K
  BY <1>1, ElementOfSeq
<1>3. ASSUME NEW kept \in Seq(K), NEW x \in K
      PROVE  Add(kept, x) \in Seq(K) /\ ToSet(Add(kept, x)) = ToSet(kept) \cup {x}
  BY ToSetOfAppend
<1> HIDE DEF Add
<1>4. step \in [(1 .. n) \X Seq(K) -> Seq(K)] /\ <<>> \in Seq(K)
  BY <1>2, <1>3
<1>5. PICK h \in [SUBSET (1 .. n) -> Seq(K)] : Folding(h, <<>>, step, SUBSET (1 .. n))
  <2> HIDE DEF step
  <2> QED
    BY <1>4, FoldExists
<1>6. Iter(h)
  <2> SUFFICES ASSUME NEW s \in SUBSET (1 .. n)
               PROVE  h[s] = IF s = {} THEN <<>> ELSE Add(h[s \ {Max(s)}], seq[Max(s)])
    BY <1>5 DEF Folding
  <2>1. h[s] = IF s = {} THEN <<>> ELSE step[<<Max(s), h[s \ {Max(s)}]>>]
    BY <1>5 DEF Folding
  <2>2. CASE s # {}
    <3>1. <<Max(s), h[s \ {Max(s)}]>> \in (1 .. n) \X Seq(K)
      BY <1>5, <2>2, MaxIsIn
    <3> QED
      BY <2>1, <2>2, <3>1
  <2> QED
    BY <2>1, <2>2
<1>7. Iter(f1)
  <2> HIDE DEF Iter
  <2> QED
    BY <1>6
<1>8. Distinct(seq) = f1[1 .. n]
  <2>1. DOMAIN seq = 1 .. n
    BY <1>1
  <2> QED
    BY <2>1 DEF Distinct, FoldLeft, MapThenFoldSet, Add
<1> HIDE DEF f1
<1> DEFINE Good(k) == f1[1 .. k] \in Seq(K) /\ ToSet(f1[1 .. k]) = {seq[m] : m \in 1 .. k}
           T == {k \in Nat : k <= n => Good(k)}
<1>9. 0 \in T
  <2>1. 1 .. 0 = {} /\ {} \in SUBSET (1 .. n) /\ ToSet(<<>>) = {}
    BY DEF ToSet
  <2>2. f1[1 .. 0] = <<>>
    BY <1>7, <2>1
  <2> QED
    BY <1>4, <2>1, <2>2
<1>10. ASSUME NEW k \in Nat, k \in T PROVE k + 1 \in T
  <2> SUFFICES ASSUME k + 1 <= n PROVE Good(k + 1)
    OBVIOUS
  <2>1. PICK l \in 1 .. n : l = k + 1 /\ l - 1 = k /\ k <= n
    OBVIOUS
  <2>2. Good(k)
    BY <1>10, <2>1
  <2>3. 1 .. l # {} /\ 1 .. l \in SUBSET (1 .. n) /\ Max(1 .. l) = l /\ (1 .. l) \ {l} = 1 .. k
    BY <2>1, PrefixIs
  <2>4. f1[1 .. l] = Add(f1[1 .. k], seq[l])
    BY <1>7, <2>3
  <2>5. PICK kept \in Seq(K), x \in K : kept = f1[1 .. k] /\ x = seq[l]
    BY <1>2, <2>2
  <2>6. f1[1 .. l] \in Seq(K) /\ ToSet(f1[1 .. l]) = ToSet(kept) \cup {x}
    BY <1>3, <2>4, <2>5
  <2>7. 1 .. l = (1 .. k) \cup {l}
    BY <2>1
  <2>8. {seq[m] : m \in 1 .. l} = {seq[m] : m \in 1 .. k} \cup {seq[l]}
    BY <2>7
  <2> QED
    BY <2>1, <2>2, <2>5, <2>6, <2>8
<1>11. n \in T
  <2> HIDE DEF T
  <2> QED
    BY <1>9, <1>10, AllNumbers
<1>12. ToSet(seq) = {seq[m] : m \in 1 .. n}
  BY <1>1 DEF ToSet
<1> QED
  BY <1>8, <1>11, <1>12

LEMMA OwnReferencesAre ==
  ASSUME BriefsTypes, NEW d \in Developments
  PROVE  OwnReferences(d) \in Seq(ShownAtAll(d))
<1>1. PICK seq \in Seq(Observations) : seq = written[d]
  BY DEF BriefsTypes
<1>2. PICK n \in Nat : n = Len(seq)
  OBVIOUS
<1> DEFINE K == ShownAtAll(d)
           Add(kept, o) == IF o \in ShownAtAll(d) THEN Append(kept, o) ELSE kept
           step == [p \in (1 .. n) \X Seq(K) |-> Add(p[2], seq[p[1]])]
           Iter(f) == f = [s \in SUBSET (1 .. n) |->
                              IF s = {} THEN <<>> ELSE Add(f[s \ {Max(s)}], seq[Max(s)])]
           f1 == CHOOSE f : Iter(f)
<1>3. ASSUME NEW kept \in Seq(K), NEW o PROVE Add(kept, o) \in Seq(K)
  OBVIOUS
<1>4. OwnReferences(d) = f1[1 .. n]
  <2>1. DOMAIN seq = 1 .. n
    BY <1>2
  <2> QED
    BY <1>1, <2>1 DEF OwnReferences, FoldLeft, MapThenFoldSet
<1> HIDE DEF Add, K
<1>5. step \in [(1 .. n) \X Seq(K) -> Seq(K)] /\ <<>> \in Seq(K)
  BY <1>3
<1>6. PICK h \in [SUBSET (1 .. n) -> Seq(K)] : Folding(h, <<>>, step, SUBSET (1 .. n))
  <2> HIDE DEF step
  <2> QED
    BY <1>5, FoldExists
<1>7. Iter(h)
  <2> SUFFICES ASSUME NEW s \in SUBSET (1 .. n)
               PROVE  h[s] = IF s = {} THEN <<>> ELSE Add(h[s \ {Max(s)}], seq[Max(s)])
    BY <1>6 DEF Folding
  <2>1. h[s] = IF s = {} THEN <<>> ELSE step[<<Max(s), h[s \ {Max(s)}]>>]
    BY <1>6 DEF Folding
  <2>2. CASE s # {}
    <3>1. <<Max(s), h[s \ {Max(s)}]>> \in (1 .. n) \X Seq(K)
      BY <1>6, <2>2, MaxIsIn
    <3> QED
      BY <2>1, <2>2, <3>1
  <2> QED
    BY <2>1, <2>2
<1>8. Iter(f1)
  <2> HIDE DEF Iter
  <2> QED
    BY <1>7
<1> HIDE DEF f1
<1> DEFINE T == {k \in Nat : k <= n => f1[1 .. k] \in Seq(K)}
<1>9. 0 \in T
  <2>1. 1 .. 0 = {} /\ {} \in SUBSET (1 .. n)
    OBVIOUS
  <2>2. f1[1 .. 0] = <<>>
    BY <1>8, <2>1
  <2> QED
    BY <1>5, <2>2
<1>10. ASSUME NEW k \in Nat, k \in T PROVE k + 1 \in T
  <2> SUFFICES ASSUME k + 1 <= n PROVE f1[1 .. (k + 1)] \in Seq(K)
    OBVIOUS
  <2>1. PICK l \in 1 .. n : l = k + 1 /\ l - 1 = k /\ k <= n
    OBVIOUS
  <2>2. 1 .. l # {} /\ 1 .. l \in SUBSET (1 .. n) /\ Max(1 .. l) = l /\ (1 .. l) \ {l} = 1 .. k
    BY <2>1, PrefixIs
  <2>3. f1[1 .. l] = Add(f1[1 .. k], seq[l])
    BY <1>8, <2>2
  <2>4. f1[1 .. k] \in Seq(K)
    BY <1>10, <2>1
  <2> QED
    BY <1>3, <2>1, <2>3, <2>4
<1>11. n \in T
  <2> HIDE DEF T
  <2> QED
    BY <1>9, <1>10, AllNumbers
<1> QED
  BY <1>4, <1>11 DEF K

LEMMA NumbersInOrder ==
  ASSUME NEW S, IsFiniteSet(S), S \subseteq Nat
  PROVE  Ordered(S, <) \in Seq(S) /\ ToSet(Ordered(S, <)) = S
<1> DEFINE R == {p \in S \X S : p[1] < p[2]}
           Sorted(s) == \A m, n \in DOMAIN s : m < n => s[m] < s[n]
<1>1. /\ \A x, y \in S : x # y => <<x, y>> \in R \/ <<y, x>> \in R
      /\ \A x, y, z \in S : <<x, y>> \in R /\ <<y, z>> \in R => <<x, z>> \in R
  OBVIOUS
<1>2. PICK f : InLine(f, S, R)
  <2> HIDE DEF R
  <2> QED
    BY <1>1, HasOrder
<1>3. f \in [1 .. Cardinality(S) -> S] /\ Sorted(f)
  BY <1>2 DEF InLine
<1>4. PICK s : s = Ordered(S, <)
  OBVIOUS
<1>5. s \in [1 .. Cardinality(S) -> S] /\ Sorted(s)
  BY <1>3, <1>4 DEF Ordered
<1>6. \A m, n \in 1 .. Cardinality(S) : m < n => s[m] # s[n]
  <2> SUFFICES ASSUME NEW m \in 1 .. Cardinality(S), NEW n \in 1 .. Cardinality(S), m < n
               PROVE  s[m] # s[n]
    OBVIOUS
  <2>1. s[m] < s[n] /\ s[m] \in Nat /\ s[n] \in Nat
    BY <1>5
  <2> QED
    BY <2>1
<1> QED
  BY <1>4, <1>5, <1>6, LineHolds

LEMMA DatesInOrder ==
  ASSUME NEW S, IsFiniteSet(S), S \subseteq Observations
  PROVE  Ordered(S, ByDate) \in Seq(S) /\ ToSet(Ordered(S, ByDate)) = S
<1> DEFINE R == {p \in S \X S : ByDate(p[1], p[2])}
           Sorted(s) == \A m, n \in DOMAIN s : m < n => ByDate(s[m], s[n])
<1>0. \A o \in S : o \in Nat /\ PublishedOn[o] \in Nat
  BY BriefsAssumption
<1>1. /\ \A x, y \in S : x # y => <<x, y>> \in R \/ <<y, x>> \in R
      /\ \A x, y, z \in S : <<x, y>> \in R /\ <<y, z>> \in R => <<x, z>> \in R
  BY <1>0 DEF ByDate
<1>2. PICK f : InLine(f, S, R)
  <2> HIDE DEF R
  <2> QED
    BY <1>1, HasOrder
<1>3. f \in [1 .. Cardinality(S) -> S] /\ Sorted(f)
  BY <1>2 DEF InLine
<1>4. PICK s : s = Ordered(S, ByDate)
  OBVIOUS
<1>5. s \in [1 .. Cardinality(S) -> S] /\ Sorted(s)
  <2> HIDE DEF ByDate
  <2> QED
    BY <1>3, <1>4 DEF Ordered
<1>6. \A m, n \in 1 .. Cardinality(S) : m < n => s[m] # s[n]
  <2> SUFFICES ASSUME NEW m \in 1 .. Cardinality(S), NEW n \in 1 .. Cardinality(S), m < n
               PROVE  s[m] # s[n]
    OBVIOUS
  <2>1. ByDate(s[m], s[n]) /\ s[m] \in S /\ s[n] \in S
    BY <1>5
  <2> QED
    BY <1>0, <2>1 DEF ByDate
<1> QED
  BY <1>4, <1>5, <1>6, LineHolds

LEMMA RowsInOrder ==
  ASSUME NEW S, S \subseteq Claims
  PROVE  Ordered(S, RowBefore) \in Seq(S) /\ ToSet(Ordered(S, RowBefore)) = S
<1> DEFINE R == {p \in S \X S : RowBefore(p[1], p[2])}
           Sorted(s) == \A m, n \in DOMAIN s : m < n => RowBefore(s[m], s[n])
<1>0. IsFiniteSet(S) /\ \A c \in S : c \in Nat /\ DayOf[ItemOf[c]] \in Nat
  BY BriefsAssumption, ScoresAssumption, FS_Subset
<1>1. /\ \A x, y \in S : x # y => <<x, y>> \in R \/ <<y, x>> \in R
      /\ \A x, y, z \in S : <<x, y>> \in R /\ <<y, z>> \in R => <<x, z>> \in R
  BY <1>0 DEF RowBefore
<1>2. PICK f : InLine(f, S, R)
  <2> HIDE DEF R
  <2> QED
    BY <1>0, <1>1, HasOrder
<1>3. f \in [1 .. Cardinality(S) -> S] /\ Sorted(f)
  BY <1>2 DEF InLine
<1>4. PICK s : s = Ordered(S, RowBefore)
  OBVIOUS
<1>5. s \in [1 .. Cardinality(S) -> S] /\ Sorted(s)
  <2> HIDE DEF RowBefore
  <2> QED
    BY <1>3, <1>4 DEF Ordered
<1>6. \A m, n \in 1 .. Cardinality(S) : m < n => s[m] # s[n]
  <2> SUFFICES ASSUME NEW m \in 1 .. Cardinality(S), NEW n \in 1 .. Cardinality(S), m < n
               PROVE  s[m] # s[n]
    OBVIOUS
  <2>1. RowBefore(s[m], s[n]) /\ s[m] \in S /\ s[n] \in S
    BY <1>5
  <2> QED
    BY <1>0, <2>1 DEF RowBefore
<1> QED
  BY <1>0, <1>4, <1>5, <1>6, LineHolds

LEMMA RankIs ==
  ASSUME today \in Nat, NEW cs \in SUBSET Claims PROVE Rank(cs) \in Int
<1>1. PICK score \in Int : score = DomainScore(Components(cs))
  BY ScoreIsWithin
<1> DEFINE best == [g \in Groups |-> Best(cs, g)]
           f == [g \in Groups |-> best[g] * RankWeights[g]]
<1>2. \A g \in Groups : f[g] \in Nat
  BY BestIs DEF Percent, Groups, RankWeights
<1>3. PICK part \in Nat : part = ClientPart(best)
  <2>1. ClientPart(best) = SumFunctionOnSet(f, Groups)
    BY DEF ClientPart
  <2> HIDE DEF f
  <2> QED
    BY <1>2, <2>1, GroupsAreFinite, SumIsNat
<1>4. PICK d \in Nat \ {0}, n \in Int : d = 100 /\ n = 60 * score + part
  OBVIOUS
<1>5. Rank(cs) = Rounded(n, d)
  BY <1>1, <1>3, <1>4 DEF Rank
<1> QED
  BY <1>4, <1>5, RoundedIsInt

LEMMA LatestIs ==
  ASSUME BriefsTypes, NEW d \in Developments PROVE Latest(d) \in Int
<1> DEFINE items == ItemsOf(Told(d, "supports"))
           days == {DayOf[i] : i \in items}
           dates == {PublishedOn[o] : o \in Shown(d, "supports")}
<1>1. Told(d, "supports") \in SUBSET Claims /\ Shown(d, "supports") \in SUBSET Observations
  BY DEF Told, Shown
<1>2. IsFiniteSet(items) /\ items \subseteq Items
  BY <1>1, ItemsAreFinite
<1>3. IsFiniteSet(Shown(d, "supports"))
  BY <1>1, BriefsAssumption, FS_Subset
<1>4. IsFiniteSet(days) /\ IsFiniteSet(dates)
  <2> HIDE DEF items
  <2> QED
    BY <1>2, <1>3, ImageIsFinite
<1>5. days \subseteq Int /\ dates \subseteq Int
  <2>1. \A i \in items : DayOf[i] \in Int
    BY <1>2, ScoresAssumption
  <2>2. \A o \in Shown(d, "supports") : PublishedOn[o] \in Int
    <3>1. \A o \in Observations : PublishedOn[o] \in Int
      BY BriefsAssumption
    <3> HIDE DEF items
    <3> QED
      BY <1>1, <3>1
  <2>3. days \subseteq Int
    <3> HIDE DEF items
    <3> QED
      BY <2>1
  <2> QED
    BY <2>2, <2>3
<1> HIDE DEF days, dates
<1>6. PICK S : S = days \cup dates
  OBVIOUS
<1>7. IsFiniteSet(S) /\ S \subseteq Int
  BY <1>4, <1>5, <1>6, FS_Union
<1>8. Highest(S) \in S \cup {0}
  BY <1>7, HighestIs
<1> QED
  BY <1>6, <1>7, <1>8 DEF Latest, days, dates

\* The developments of a brief stand in one order.
LEMMA DevelopmentsInOrder ==
  ASSUME ScoresTypes, BriefsTypes
  PROVE  InOrder \in Seq(Approved) /\ ToSet(InOrder) = Approved
<1> DEFINE S == Approved
           R == {p \in S \X S : Before(p[1], p[2])}
           Sorted(s) == \A m, n \in DOMAIN s : m < n => Before(s[m], s[n])
<1>1. S \subseteq Developments /\ IsFiniteSet(S) /\ \A d \in S : d \in Nat
  BY BriefsAssumption, FS_Subset DEF BriefsTypes, Approved
<1> DEFINE standing == [d \in S |-> Standing[Maturity(Told(d, "supports"))]]
           latest == [d \in S |-> Latest(d)]
           rank == [d \in S |-> Rank(Told(d, "supports"))]
<1>2. \A d \in S : standing[d] \in Int /\ latest[d] \in Int /\ rank[d] \in Int
  <2> SUFFICES ASSUME NEW d \in S
               PROVE  /\ Standing[Maturity(Told(d, "supports"))] \in Int /\ Latest(d) \in Int
                      /\ Rank(Told(d, "supports")) \in Int
    OBVIOUS
  <2>1. Told(d, "supports") \in SUBSET Claims
    BY DEF Told
  <2>2. Maturity(Told(d, "supports")) \in {"measured_trend", "recurring", "watch"}
    BY DEF Maturity
  <2>3. Standing[Maturity(Told(d, "supports"))] \in Int
    BY <2>2 DEF Standing
  <2> QED
    BY <1>1, <2>1, <2>3, RankIs, LatestIs DEF ScoresTypes
<1>3. \A d, e \in S :
         Before(d, e) <=>
            \/ standing[d] < standing[e]
            \/ standing[d] = standing[e] /\ latest[d] > latest[e]
            \/ standing[d] = standing[e] /\ latest[d] = latest[e] /\ rank[d] > rank[e]
            \/ standing[d] = standing[e] /\ latest[d] = latest[e] /\ rank[d] = rank[e] /\ d < e
  BY DEF Before
<1> HIDE DEF standing, latest, rank, S
<1>4. \A x, y \in S : x # y => <<x, y>> \in R \/ <<y, x>> \in R
  BY <1>1, <1>2, <1>3
<1>5. \A x, y, z \in S : <<x, y>> \in R /\ <<y, z>> \in R => <<x, z>> \in R
  <2> SUFFICES ASSUME NEW x \in S, NEW y \in S, NEW z \in S, Before(x, y), Before(y, z)
               PROVE  Before(x, z)
    OBVIOUS
  <2> QED
    BY <1>1, <1>2, <1>3
<1>6. PICK f : InLine(f, S, R)
  <2> HIDE DEF R
  <2> QED
    BY <1>1, <1>4, <1>5, HasOrder
<1>7. f \in [1 .. Cardinality(S) -> S] /\ Sorted(f)
  BY <1>6 DEF InLine
<1>8. PICK s : s = InOrder
  OBVIOUS
<1>9. s \in [1 .. Cardinality(S) -> S] /\ Sorted(s)
  BY <1>7, <1>8 DEF InOrder, Ordered, S
<1>10. \A m, n \in 1 .. Cardinality(S) : m < n => s[m] # s[n]
  <2> SUFFICES ASSUME NEW m \in 1 .. Cardinality(S), NEW n \in 1 .. Cardinality(S), m < n
               PROVE  s[m] # s[n]
    OBVIOUS
  <2>1. Before(s[m], s[n]) /\ s[m] \in S /\ s[n] \in S
    BY <1>9
  <2> QED
    BY <1>1, <1>2, <1>3, <2>1
<1> QED
  BY <1>1, <1>8, <1>9, <1>10, LineHolds DEF S

-----------------------------------------------------------------------------
(* The sources of a brief.                                                 *)

\* A line refers to an item or to an observation.
SourceKeys == [kind : {"item"}, key : Items] \cup [kind : {"obs"}, key : Observations]

\* A sequence's members, each looked up.
Through(f, s) == [n \in DOMAIN s |-> f[s[n]]]

LEMMA MappedIs ==
  ASSUME NEW S, NEW s \in Seq(S), NEW K, NEW f, \A x \in S : f[x] \in K
  PROVE  /\ Through(f, s) \in Seq(K)
         /\ \A y : y \in ToSet(Through(f, s)) <=> \E x \in ToSet(s) : y = f[x]
<1>1. PICK n \in Nat : n = Len(s)
  OBVIOUS
<1>2. PICK t : t = Through(f, s)
  OBVIOUS
<1>3. DOMAIN s = 1 .. n /\ \A k \in 1 .. n : s[k] \in S
  BY <1>1, ElementOfSeq
<1>4. t \in [1 .. n -> K]
  BY <1>2, <1>3 DEF Through
<1>5. t \in Seq(K)
  BY <1>4
<1>6. \A y : y \in ToSet(t) <=> \E x \in ToSet(s) : y = f[x]
  BY <1>2, <1>3 DEF ToSet, Through
<1> QED
  BY <1>2, <1>5, <1>6

LEMMA ConcatIs ==
  ASSUME NEW T, NEW s \in Seq(T), NEW t \in Seq(T)
  PROVE  /\ DOMAIN (s \o t) = 1 .. (Len(s) + Len(t))
         /\ \A k \in 1 .. Len(s) : (s \o t)[k] = s[k]
         /\ \A k \in 1 .. Len(t) : (s \o t)[Len(s) + k] = t[k]
OBVIOUS

LEMMA QuotedIs == ASSUME NEW d PROVE Quoted(d) \in Seq(Claims)
<1> DEFINE S == FirstOf(OnePerItem(Told(d, "supports")), Quotes)
                \cup FirstOf(Told(d, "contradicts"), Dissents)
<1>1. S \subseteq Claims
  BY DEF FirstOf, OnePerItem, Told
<1>2. Ordered(S, RowBefore) \in Seq(S)
  <2> HIDE DEF S
  <2> QED
    BY <1>1, RowsInOrder
<1>3. Ordered(S, RowBefore) \in Seq(Claims)
  <2> HIDE DEF S
  <2> QED
    BY <1>1, <1>2, SeqMonotonic
<1> QED
  BY <1>3 DEF Quoted

LEMMA LinesAre == ASSUME NEW d PROVE Lines(d) \in Seq(SourceKeys)
<1>1. PICK claims \in Seq(Claims) : claims = Quoted(d)
  BY QuotedIs
<1>2. ShownAtAll(d) \subseteq Observations /\ IsFiniteSet(ShownAtAll(d))
      /\ ShownAtAll(d) \subseteq Nat
  BY BriefsAssumption, FS_Subset DEF ShownAtAll
<1>3. PICK observations \in Seq(Observations) : observations = Ordered(ShownAtAll(d), <)
  BY <1>2, NumbersInOrder, SeqMonotonic
<1> DEFINE f == [c \in Claims |-> QuoteLine(c)]
           g == [o \in Observations |-> ObservationLine(o)]
<1>4. \A c \in Claims : f[c] \in SourceKeys
  BY ScoresAssumption DEF QuoteLine, Key, SourceKeys
<1>5. \A o \in Observations : g[o] \in SourceKeys
  BY DEF ObservationLine, Key, SourceKeys
<1>6. Through(f, claims) \in Seq(SourceKeys)
  <2> HIDE DEF f
  <2> QED
    BY <1>4, MappedIs
<1>7. Through(g, observations) \in Seq(SourceKeys)
  <2> HIDE DEF g
  <2> QED
    BY <1>5, MappedIs
<1>8. [n \in DOMAIN claims |-> QuoteLine(claims[n])] = Through(f, claims)
  BY ElementOfSeq DEF Through
<1>9. [n \in DOMAIN observations |-> ObservationLine(observations[n])] = Through(g, observations)
  BY ElementOfSeq DEF Through
<1> HIDE DEF f, g
<1>10. Through(f, claims) \o Through(g, observations) \in Seq(SourceKeys)
  BY <1>6, <1>7, ConcatProperties
<1>11. Lines(d) = [n \in DOMAIN claims |-> QuoteLine(claims[n])]
                  \o [n \in DOMAIN observations |-> ObservationLine(observations[n])]
  BY <1>1, <1>3 DEF Lines
<1> QED
  BY <1>8, <1>9, <1>10, <1>11

\* Sections written one after another: what each holds is listed.
LEMMA SectionsAreWritten ==
  ASSUME NEW K, NEW seqs \in Seq(Seq(K))
  PROVE  /\ Numbered(Written(FlattenSeq(seqs)))
         /\ Written(FlattenSeq(seqs)) \in Listing(K)
         /\ ToSet(Written(FlattenSeq(seqs)).sources) = UNION {ToSet(seqs[n]) : n \in 1 .. Len(seqs)}
<1>1. PICK keys \in Seq(K) : /\ keys = FlattenSeq(seqs)
                             /\ ToSet(keys) = UNION {ToSet(seqs[n]) : n \in 1 .. Len(seqs)}
  BY FlattenHolds
<1> QED
  BY <1>1, WrittenIs

LEMMA BriefIs ==
  ASSUME ScoresTypes, BriefsTypes PROVE Brief \in Listing(SourceKeys) /\ Numbered(Brief)
<1>1. PICK ds \in Seq(Approved) : ds = InOrder
  BY DevelopmentsInOrder
<1>2. PICK seqs : seqs = [n \in DOMAIN ds |-> Lines(ds[n])]
  OBVIOUS
<1>3. PICK m \in Nat : m = Len(ds)
  OBVIOUS
<1>4. DOMAIN ds = 1 .. m
  BY <1>3
<1>5. \A n \in 1 .. m : Lines(ds[n]) \in Seq(SourceKeys)
  BY LinesAre
<1>6. seqs \in Seq(Seq(SourceKeys))
  BY <1>2, <1>4, <1>5
<1>7. Brief = Written(FlattenSeq(seqs))
  BY <1>1, <1>2 DEF Brief, Body
<1> QED
  BY <1>6, <1>7, SectionsAreWritten

\* Numbered without repetition, there are as many as numbers.
LEMMA AsManyAsListed ==
  ASSUME NEW K, NEW s \in Seq(K), IsInjective(s)
  PROVE  IsFiniteSet(ToSet(s)) /\ Cardinality(ToSet(s)) = Len(s)
<1>1. PICK n \in Nat : n = Len(s)
  OBVIOUS
<1>2. DOMAIN s = 1 .. n
  BY <1>1
<1> DEFINE R == {s[k] : k \in 1 .. n}
<1>3. s \in Bijection(1 .. n, R)
  <2>1. s \in [1 .. n -> R]
    BY <1>1
  <2> QED
    BY <1>2, <2>1 DEF Bijection, Injection, Surjection, IsInjective
<1>4. IsFiniteSet(1 .. n) /\ Cardinality(1 .. n) = n
  BY FS_Interval
<1>5. IsFiniteSet(R) /\ Cardinality(R) = n
  <2>1. ExistsBijection(1 .. n, R)
    BY <1>3 DEF ExistsBijection
  <2> HIDE DEF R
  <2> QED
    BY <1>4, <2>1, FS_Bijection
<1>6. ToSet(s) = R
  BY <1>2 DEF ToSet
<1> QED
  BY <1>1, <1>5, <1>6

\* Renamed without repetition, there are as many.
LEMMA AsManyKeys ==
  ASSUME NEW S, IsFiniteSet(S), NEW f, \A x, y \in S : f[x] = f[y] => x = y
  PROVE  Cardinality({f[x] : x \in S}) = Cardinality(S)
<1> DEFINE R == {f[x] : x \in S}
           g == [x \in S |-> f[x]]
<1>1. g \in Bijection(S, R)
  BY DEF Bijection, Injection, Surjection, IsInjective
<1>2. ExistsBijection(S, R)
  BY <1>1 DEF ExistsBijection
<1> HIDE DEF R
<1>3. Cardinality(R) = Cardinality(S)
  BY <1>2, FS_Bijection
<1> QED
  BY <1>3 DEF R

LEMMA FrontIs ==
  ASSUME ScoresTypes, BriefsTypes PROVE FrontAgrees
<1>1. PICK brief \in Listing(SourceKeys) : brief = Brief /\ Numbered(brief)
  BY BriefIs
<1>2. PICK listed, cited : /\ listed = ToSet(brief.sources)
                           /\ cited = {brief.lines[n].key : n \in DOMAIN brief.lines}
  OBVIOUS
<1>3. cited = listed
  <2>1. ASSUME NEW n \in DOMAIN brief.lines PROVE brief.lines[n].key \in listed
    BY <1>1, <1>2 DEF Numbered, ToSet
  <2>2. ASSUME NEW k \in listed PROVE k \in cited
    BY <1>1, <1>2 DEF Numbered
  <2> QED
    BY <1>2, <2>1, <2>2
<1>4. listed \subseteq SourceKeys /\ IsFiniteSet(listed)
      /\ Cardinality(listed) = Len(brief.sources)
  <2>1. brief.sources \in Seq(SourceKeys) /\ IsInjective(brief.sources)
    BY <1>1 DEF Listing, Numbered
  <2>2. PICK s \in Seq(SourceKeys) : s = brief.sources
    BY <2>1
  <2>3. ToSet(s) \subseteq SourceKeys
    BY ElementOfSeq DEF ToSet
  <2>4. IsFiniteSet(ToSet(s)) /\ Cardinality(ToSet(s)) = Len(s)
    BY <2>1, <2>2, AsManyAsListed
  <2> QED
    BY <1>2, <2>2, <2>3, <2>4
<1>5. PICK ofItems, ofObs : /\ ofItems = {k \in listed : k.kind = "item"}
                            /\ ofObs = {k \in listed : k.kind = "obs"}
  OBVIOUS
<1>6. /\ listed = ofItems \cup ofObs /\ ofItems \cap ofObs = {}
      /\ IsFiniteSet(ofItems) /\ IsFiniteSet(ofObs)
  <2>1. \A k \in listed : k.kind \in {"item", "obs"}
    BY <1>4 DEF SourceKeys
  <2>2. listed = ofItems \cup ofObs /\ ofItems \cap ofObs = {}
    BY <1>5, <2>1
  <2> QED
    BY <1>4, <2>2, FS_Subset
<1>7. Cardinality(listed) = Cardinality(ofItems) + Cardinality(ofObs)
  <2>1. Cardinality(ofItems \cup ofObs)
           = Cardinality(ofItems) + Cardinality(ofObs) - Cardinality(ofItems \cap ofObs)
    BY <1>6, FS_Union
  <2>2. Cardinality(ofItems \cap ofObs) = 0
    BY <1>6, FS_EmptySet
  <2>3. Cardinality(ofItems) \in Nat /\ Cardinality(ofObs) \in Nat
    BY <1>6, FS_CardinalityType
  <2> QED
    BY <1>6, <2>1, <2>2, <2>3
<1> DEFINE f == [k \in listed |-> k.key]
<1>8. Cardinality({k.key : k \in ofItems}) = Cardinality(ofItems)
  <2>1. \A x, y \in ofItems : f[x] = f[y] => x = y
    BY <1>4, <1>5 DEF SourceKeys
  <2>2. {k.key : k \in ofItems} = {f[k] : k \in ofItems}
    BY <1>6
  <2> HIDE DEF f
  <2>3. Cardinality({f[k] : k \in ofItems}) = Cardinality(ofItems)
    BY <1>6, <2>1, AsManyKeys
  <2> QED
    BY <2>2, <2>3
<1>9. Cardinality({k.key : k \in ofObs}) = Cardinality(ofObs)
  <2>1. \A x, y \in ofObs : f[x] = f[y] => x = y
    BY <1>4, <1>5 DEF SourceKeys
  <2>2. {k.key : k \in ofObs} = {f[k] : k \in ofObs}
    BY <1>6
  <2> HIDE DEF f
  <2>3. Cardinality({f[k] : k \in ofObs}) = Cardinality(ofObs)
    BY <1>6, <2>1, AsManyKeys
  <2> QED
    BY <2>2, <2>3
<1>10. Of(brief, "item") = {k.key : k \in ofItems} /\ Of(brief, "obs") = {k.key : k \in ofObs}
  BY <1>2, <1>5 DEF Of
<1>11. PICK items : items = Of(brief, "item")
  OBVIOUS
<1>12. FrontMatter = [sources |-> Len(brief.sources), items |-> Cardinality(items),
                      observations |-> Cardinality(Of(brief, "obs")),
                      creators |-> {CreatorOf[i] : i \in items},
                      gaps |-> Gaps(brief), inside |-> Inside(brief)]
  BY <1>1, <1>11 DEF FrontMatter, Stated
<1>13. \A i \in items : RouteOf[i] \notin Gaps(brief)
  BY <1>11 DEF Gaps
<1>14. \A i \in items : Older(DayOf[i]) \/ DayOf[i] \in Inside(brief)
  BY <1>11 DEF Inside
<1>15. FrontMatter.sources = Cardinality(cited)
  BY <1>3, <1>4, <1>12
<1>16. FrontMatter.sources = FrontMatter.items + FrontMatter.observations
  BY <1>4, <1>7, <1>8, <1>9, <1>10, <1>11, <1>12
<1>17. items = {k.key : k \in {c \in cited : c.kind = "item"}}
  BY <1>3, <1>5, <1>10, <1>11
<1>18. FrontMatter.creators = {CreatorOf[i] : i \in items}
       /\ FrontMatter.gaps = Gaps(brief) /\ FrontMatter.inside = Inside(brief)
  BY <1>12
<1> QED
  BY <1>1, <1>2, <1>13, <1>14, <1>15, <1>16, <1>17, <1>18 DEF FrontAgrees

\* What an analyst refers to, and all that is attached, is attached.
LEMMA CandidateLinesAre ==
  ASSUME BriefsTypes, NEW d \in Developments
  PROVE  /\ CandidateLines(d) \in Seq(SourceKeys)
         /\ ToSet(CandidateLines(d)) = {Key("obs", o) : o \in ShownAtAll(d)}
<1> DEFINE S == ShownAtAll(d)
           f == [o \in S |-> Key("obs", o)]
<1>1. S \subseteq Observations /\ IsFiniteSet(S)
  BY BriefsAssumption, FS_Subset DEF ShownAtAll
<1>2. PICK cited \in Seq(S) : cited = OwnReferences(d)
  BY OwnReferencesAre
<1>3. PICK listed \in Seq(S) : listed = Ordered(S, ByDate) /\ ToSet(listed) = S
  BY <1>1, DatesInOrder
<1>4. \A o \in S : f[o] \in SourceKeys
  BY <1>1 DEF Key, SourceKeys
<1>5. PICK a : a = Through(f, cited)
  OBVIOUS
<1>6. PICK b : b = Through(f, listed)
  OBVIOUS
<1>7. a = [n \in DOMAIN cited |-> Key("obs", cited[n])]
  BY <1>5, ElementOfSeq DEF Through
<1>8. b = [n \in DOMAIN listed |-> Key("obs", listed[n])]
  BY <1>6, ElementOfSeq DEF Through
<1>9. CandidateLines(d) = a \o b
  BY <1>2, <1>3, <1>7, <1>8 DEF CandidateLines
<1>10. \A o \in S : f[o] = Key("obs", o)
  OBVIOUS
<1> HIDE DEF f, S
<1>11. a \in Seq(SourceKeys) /\ \A y : y \in ToSet(a) <=> \E o \in ToSet(cited) : y = f[o]
  BY <1>4, <1>5, MappedIs
<1>12. b \in Seq(SourceKeys) /\ \A y : y \in ToSet(b) <=> \E o \in S : y = f[o]
  BY <1>3, <1>4, <1>6, MappedIs
<1>13. ToSet(cited) \subseteq S
  BY ElementOfSeq DEF ToSet
<1>14. ToSet(a \o b) = ToSet(a) \cup ToSet(b) /\ a \o b \in Seq(SourceKeys)
  BY <1>11, <1>12, ToSetOfConcat, ConcatProperties
<1>15. ToSet(a) \subseteq ToSet(b)
  BY <1>11, <1>12, <1>13
<1>16. ToSet(b) = {Key("obs", o) : o \in S}
  BY <1>10, <1>12
<1> QED
  BY <1>9, <1>14, <1>15, <1>16 DEF S

LEMMA OpportunityBriefIs ==
  ASSUME BriefsTypes
  PROVE  Numbered(OpportunityBrief) /\ CitesWhatItHolds
<1>1. found \subseteq Developments /\ found \subseteq Nat /\ IsFiniteSet(found)
  BY BriefsAssumption, FS_Subset DEF BriefsTypes
<1>2. PICK ds \in Seq(found) : ds = Ordered(found, <)
  BY <1>1, NumbersInOrder
<1>3. PICK m \in Nat : m = Len(ds)
  OBVIOUS
<1>4. DOMAIN ds = 1 .. m /\ \A n \in 1 .. m : ds[n] \in found
  BY <1>3, ElementOfSeq
<1>5. PICK seqs : seqs = [n \in DOMAIN ds |-> CandidateLines(ds[n])]
  OBVIOUS
<1>6. \A n \in 1 .. m : /\ CandidateLines(ds[n]) \in Seq(SourceKeys)
                        /\ ToSet(CandidateLines(ds[n])) = {Key("obs", o) : o \in ShownAtAll(ds[n])}
  BY <1>1, <1>4, CandidateLinesAre
<1>7. seqs \in Seq(Seq(SourceKeys)) /\ Len(seqs) = m
  BY <1>4, <1>5, <1>6
<1>8. OpportunityBrief = Written(FlattenSeq(seqs))
  BY <1>2, <1>5 DEF OpportunityBrief
<1>9. PICK brief : brief = OpportunityBrief
  OBVIOUS
<1>10. /\ Numbered(brief)
       /\ ToSet(brief.sources) = UNION {ToSet(seqs[n]) : n \in 1 .. Len(seqs)}
  BY <1>7, <1>8, <1>9, SectionsAreWritten
<1>11. ASSUME NEW k \in ToSet(brief.sources) PROVE \E d \in found : k.key \in ShownAtAll(d)
  <2>1. PICK n \in 1 .. m : k \in ToSet(seqs[n])
    BY <1>7, <1>10
  <2>2. k \in ToSet(CandidateLines(ds[n]))
    BY <1>4, <1>5, <2>1
  <2>3. PICK o \in ShownAtAll(ds[n]) : k = Key("obs", o)
    BY <1>6, <2>2
  <2>4. k.key = o
    BY <2>3 DEF Key
  <2> QED
    BY <1>4, <2>3, <2>4
<1> QED
  BY <1>9, <1>10, <1>11 DEF CitesWhatItHolds

\* Whatever rows arrive, in whatever order, and however many days pass, every
\* number printed in a brief is the place of the source it means, the sources
\* are those that are cited, and the first sections describe them.
THEOREM NumbersPointRight == DocumentsSpec => []NumbersAgree
<1>1. ASSUME ScoresTypes, BriefsTypes PROVE NumbersAgree
  <2>1. Agrees(Brief)
    BY <1>1, BriefIs DEF Agrees, Numbered
  <2>2. Agrees(OpportunityBrief) /\ CitesWhatItHolds
    BY <1>1, OpportunityBriefIs DEF Agrees, Numbered
  <2> QED
    BY <1>1, <2>1, <2>2, FrontIs DEF NumbersAgree
<1>2. ScoresTypes /\ BriefsTypes => NumbersAgree
  BY <1>1
<1> QED
  BY <1>2, DocumentsAlways, PTL

-----------------------------------------------------------------------------
(* The references of a content package.                                    *)

LEMMA PositionIs ==
  ASSUME NEW K, NEW s \in Seq(K), NEW x \in ToSet(s)
  PROVE  Position(s, x) \in 1 .. Len(s) /\ s[Position(s, x)] = x
<1>1. \E n \in DOMAIN s : s[n] = x
  BY DEF ToSet
<1>2. DOMAIN s = 1 .. Len(s)
  OBVIOUS
<1> QED
  BY <1>1, <1>2 DEF Position

LEMMA PickedIs ==
  ASSUME BriefsTypes, NEW d, NEW n \in DOMAIN outline
  PROVE  /\ Picked(d, outline[n]).claims \in Seq(Claims)
         /\ Picked(d, outline[n]).observations \in Seq(Observations)
<1>1. PICK section \in OutlineSection : section = outline[n]
  <2>1. outline \in Seq(OutlineSection)
    BY DEF BriefsTypes
  <2> QED
    BY <2>1, ElementOfSeq
<1> DEFINE cs == section.claims \cap (Told(d, "supports") \cup Told(d, "contradicts"))
           os == section.observations \cap ShownAtAll(d)
<1>2. /\ cs \subseteq Claims /\ IsFiniteSet(cs) /\ cs \subseteq Nat
      /\ os \subseteq Observations /\ IsFiniteSet(os) /\ os \subseteq Nat
  <2>1. cs \subseteq Claims /\ os \subseteq Observations
    BY DEF OutlineSection
  <2> HIDE DEF cs, os
  <2> QED
    BY <2>1, ScoresAssumption, BriefsAssumption, FS_Subset
<1>3. Picked(d, section) = [claims |-> Ordered(cs, <), observations |-> Ordered(os, <)]
  BY DEF Picked
<1> HIDE DEF cs, os
<1>4. Ordered(cs, <) \in Seq(Claims) /\ Ordered(os, <) \in Seq(Observations)
  <2>1. Ordered(cs, <) \in Seq(cs)
    BY <1>2, NumbersInOrder
  <2>2. Ordered(os, <) \in Seq(os)
    BY <1>2, NumbersInOrder
  <2> QED
    BY <1>2, <2>1, <2>2, SeqMonotonic
<1>5. PICK p \in Seq(Claims) : p = Ordered(cs, <)
  BY <1>4
<1>6. PICK q \in Seq(Observations) : q = Ordered(os, <)
  BY <1>4
<1>7. Picked(d, section) = [claims |-> p, observations |-> q]
  BY <1>3, <1>5, <1>6
<1> QED
  BY <1>1, <1>7

\* All that a section draws on is numbered.
LEMMA UsedAre ==
  ASSUME BriefsTypes, NEW d
  PROVE  /\ Used(Sections(d)) \in Seq(Claims)
         /\ UsedObservations(Sections(d)) \in Seq(Observations)
         /\ \A n \in DOMAIN outline :
               /\ ToSet(Sections(d)[n].claims) \subseteq ToSet(Used(Sections(d)))
               /\ ToSet(Sections(d)[n].observations) \subseteq ToSet(UsedObservations(Sections(d)))
<1>1. PICK m \in Nat : m = Len(outline)
  BY DEF BriefsTypes
<1>2. DOMAIN outline = 1 .. m
  BY <1>1 DEF BriefsTypes
<1>3. PICK sections : sections = Sections(d)
  OBVIOUS
<1>4. sections = [n \in 1 .. m |-> Picked(d, outline[n])]
  BY <1>2, <1>3 DEF Sections
<1>5. PICK a : a = [n \in 1 .. m |-> sections[n].claims]
  OBVIOUS
<1>6. PICK b : b = [n \in 1 .. m |-> sections[n].observations]
  OBVIOUS
<1>7. \A n \in 1 .. m : a[n] \in Seq(Claims) /\ b[n] \in Seq(Observations)
  BY <1>2, <1>4, <1>5, <1>6, PickedIs
<1>8. a \in Seq(Seq(Claims)) /\ b \in Seq(Seq(Observations)) /\ Len(a) = m /\ Len(b) = m
  BY <1>5, <1>6, <1>7
<1>9. PICK p \in Seq(Claims) : p = FlattenSeq(a) /\ ToSet(p) = UNION {ToSet(a[n]) : n \in 1 .. Len(a)}
  BY <1>8, FlattenHolds
<1>10. PICK q \in Seq(Observations) :
          q = FlattenSeq(b) /\ ToSet(q) = UNION {ToSet(b[n]) : n \in 1 .. Len(b)}
  BY <1>8, FlattenHolds
<1>11. Distinct(p) \in Seq(Claims) /\ ToSet(Distinct(p)) = ToSet(p)
  BY DistinctIs
<1>12. Distinct(q) \in Seq(Observations) /\ ToSet(Distinct(q)) = ToSet(q)
  BY DistinctIs
<1>13. Used(sections) = Distinct(p) /\ UsedObservations(sections) = Distinct(q)
  BY <1>4, <1>5, <1>6, <1>9, <1>10 DEF Used, UsedObservations
<1>14. \A n \in 1 .. m : /\ ToSet(sections[n].claims) \subseteq ToSet(p)
                         /\ ToSet(sections[n].observations) \subseteq ToSet(q)
  BY <1>5, <1>6, <1>8, <1>9, <1>10
<1> QED
  BY <1>2, <1>3, <1>11, <1>12, <1>13, <1>14

\* A content package's references are to the lines they mean, whatever the
\* model asked for and whatever the evidence is by then.
THEOREM ReferencesPointRight == DocumentsSpec => []ReferencesResolve
<1>1. ASSUME BriefsTypes, NEW d \in Developments, NEW n \in DOMAIN outline
      PROVE  /\ \A c \in ToSet(Sections(d)[n].claims) :
                    EvidenceLines(d)[ClaimRef(d, c)] = Key("claim", c)
             /\ \A o \in ToSet(Sections(d)[n].observations) :
                    /\ ObservationRef(d, n, o) \in DOMAIN EvidenceLines(d)
                    /\ EvidenceLines(d)[ObservationRef(d, n, o)] = Key("obs", o)
  <2>1. PICK used \in Seq(Claims) : used = Used(Sections(d))
    BY <1>1, UsedAre
  <2>2. PICK seen \in Seq(Observations) : seen = UsedObservations(Sections(d))
    BY <1>1, UsedAre
  <2>3. PICK i \in Nat : i = Len(used)
    OBVIOUS
  <2>4. PICK j \in Nat : j = Len(seen)
    OBVIOUS
  <2>5. PICK a : a = [k \in 1 .. i |-> Key("claim", used[k])]
    OBVIOUS
  <2>6. PICK b : b = [k \in 1 .. j |-> Key("obs", seen[k])]
    OBVIOUS
  <2>7. EvidenceLines(d) = a \o b
    <3>1. DOMAIN used = 1 .. i /\ DOMAIN seen = 1 .. j
      BY <2>3, <2>4
    <3> QED
      BY <2>1, <2>2, <2>5, <2>6, <3>1 DEF EvidenceLines
  <2> DEFINE U == [kind : {"claim", "obs"}, key : Claims \cup Observations]
  <2>8. a \in Seq(U) /\ Len(a) = i
    BY <2>3, <2>5, ElementOfSeq DEF Key
  <2>9. b \in Seq(U) /\ Len(b) = j
    BY <2>4, <2>6, ElementOfSeq DEF Key
  <2> HIDE DEF U
  <2>10. /\ DOMAIN (a \o b) = 1 .. (i + j)
         /\ \A k \in 1 .. i : (a \o b)[k] = a[k]
         /\ \A k \in 1 .. j : (a \o b)[i + k] = b[k]
    <3>1. PICK s \in Seq(U), t \in Seq(U) : s = a /\ t = b /\ Len(s) = i /\ Len(t) = j
      BY <2>8, <2>9
    <3>2. /\ DOMAIN (s \o t) = 1 .. (Len(s) + Len(t))
          /\ \A k \in 1 .. Len(s) : (s \o t)[k] = s[k]
          /\ \A k \in 1 .. Len(t) : (s \o t)[Len(s) + k] = t[k]
      BY ConcatIs
    <3>3. PICK st : st = s \o t
      OBVIOUS
    <3> QED
      BY <3>1, <3>2, <3>3
  <2>11. ASSUME NEW c \in ToSet(Sections(d)[n].claims)
         PROVE  EvidenceLines(d)[ClaimRef(d, c)] = Key("claim", c)
    <3>1. c \in ToSet(used)
      BY <1>1, <2>1, UsedAre
    <3>2. Position(used, c) \in 1 .. i /\ used[Position(used, c)] = c
      BY <2>3, <3>1, PositionIs
    <3>3. ClaimRef(d, c) = Position(used, c)
      BY <2>1 DEF ClaimRef
    <3> QED
      BY <2>5, <2>7, <2>10, <3>2, <3>3
  <2>12. ASSUME NEW o \in ToSet(Sections(d)[n].observations)
         PROVE  /\ ObservationRef(d, n, o) \in DOMAIN EvidenceLines(d)
                /\ EvidenceLines(d)[ObservationRef(d, n, o)] = Key("obs", o)
    <3>1. o \in ToSet(seen)
      BY <1>1, <2>2, UsedAre
    <3>2. PICK k \in 1 .. j : k = Position(seen, o) /\ seen[k] = o
      BY <2>4, <3>1, PositionIs
    <3>3. ObservationRef(d, n, o) = i + k
      BY <2>1, <2>2, <2>3, <3>2 DEF ObservationRef, Offset
    <3>4. i + k \in 1 .. (i + j) /\ (a \o b)[i + k] = b[k] /\ b[k] = Key("obs", o)
      BY <2>6, <2>10, <3>2
    <3> QED
      BY <2>7, <2>10, <3>3, <3>4
  <2> QED
    BY <2>11, <2>12
<1>2. BriefsTypes => ReferencesResolve
  BY <1>1 DEF ReferencesResolve
<1> QED
  BY <1>2, DocumentsAlways, PTL

=============================================================================
