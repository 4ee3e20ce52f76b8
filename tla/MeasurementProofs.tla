-------------------------- MODULE MeasurementProofs --------------------------
(***************************************************************************)
(* The figures of a report, for any number of requests and workers: what a *)
(* percentile, a sum and a sorted list are, and that the counts are right, *)
(* the order of the answers does not show, the figures are in their order, *)
(* and latencies do not contain the time spent in the queue.               *)
(***************************************************************************)
EXTENDS Measurement, FiniteSetTheorems, TLAPS

-----------------------------------------------------------------------------
\* A rank splits into the sample below it and what it is above that sample.
LEMMA RankSplits ==
  ASSUME NEW k \in Nat
  PROVE  k \div 100 \in Nat /\ k - 100 * (k \div 100) \in 0..99
  <1> DEFINE f == k \div 100
  <1>1. f \in Int /\ f >= 0 /\ 100 * f <= k /\ k < 100 * f + 100
    BY SMT
  <1> HIDE DEF f
  <1>2. f \in Nat /\ k - 100 * f \in 0..99
    BY <1>1
  <1>3. QED
    BY <1>2 DEF f

\* Weighing a larger value more never makes a mixture smaller.
LEMMA HeavierMixture ==
  ASSUME NEW a \in Int, NEW b \in Int, a <= b,
         NEW v \in 0..100, NEW w \in 0..100, v <= w
  PROVE  a * (100 - v) + b * v <= a * (100 - w) + b * w
  <1>1. PICK d \in Nat : b = a + d
    <2>1. b - a \in Nat /\ b = a + (b - a)
      OBVIOUS
    <2>2. QED
      BY <2>1
  <1>2. d * v <= d * w
    <2>1. PICK e \in Nat : w = v + e
      <3>1. w - v \in Nat /\ w = v + (w - v)
        OBVIOUS
      <3>2. QED
        BY <3>1
    <2>2. d * w = d * v + d * e /\ d * e \in Nat /\ d * v \in Nat
      BY <2>1
    <2>3. QED
      BY <2>2
  <1> DEFINE Mixed(x) == a * (100 - x) + b * x
  <1>3. Mixed(v) = 100 * a + d * v /\ Mixed(w) = 100 * a + d * w
    BY <1>1
  <1>4. d * v \in Int /\ d * w \in Int /\ 100 * a \in Int
    OBVIOUS
  <1> HIDE DEF Mixed
  <1>5. Mixed(v) <= Mixed(w)
    BY <1>2, <1>3, <1>4
  <1>6. QED
    BY <1>5 DEF Mixed

\* Percentile, for a rank k in hundredths.
At(s, k) ==
  LET f == k \div 100
      above == k - 100 * f
  IN  IF above = 0 THEN 100 * s[f + 1]
      ELSE s[f + 1] * (100 - above) + s[f + 2] * above

\* A value between two samples lies between them.
LEMMA Between ==
  ASSUME NEW s \in Seq(Int), Ascending(s), s # <<>>,
         NEW k \in 0..((Len(s) - 1) * 100)
  PROVE  /\ At(s, k) \in Int
         /\ 100 * s[k \div 100 + 1] <= At(s, k)
         /\ \A g \in Nat : k <= 100 * g /\ g < Len(s) => At(s, k) <= 100 * s[g + 1]
  <1> DEFINE f == k \div 100
             v == k - 100 * f
  <1>1. f \in Nat /\ v \in 0..99 /\ k = 100 * f + v
    BY RankSplits
  <1>2. /\ Len(s) \in Nat \ {0} /\ f + 1 \in 1..Len(s)
        /\ v # 0 => f + 2 \in 1..Len(s)
    BY <1>1
  <1>3. At(s, k) = IF v = 0 THEN 100 * s[f + 1] ELSE s[f + 1] * (100 - v) + s[f + 2] * v
    BY DEF At
  <1> HIDE DEF f, v
  <1>4. CASE v = 0
    <2>1. At(s, k) = 100 * s[f + 1] /\ s[f + 1] \in Int
      BY <1>2, <1>3, <1>4
    <2>2. \A g \in Nat : k <= 100 * g /\ g < Len(s) => s[f + 1] <= s[g + 1]
      BY <1>1, <1>2, <1>4 DEF Ascending
    <2>3. \A g \in Nat : g < Len(s) => s[g + 1] \in Int
      OBVIOUS
    <2>4. QED
      BY <2>1, <2>2, <2>3 DEF f
  <1>5. CASE v # 0
    <2> DEFINE a == s[f + 1]
               b == s[f + 2]
    <2>1. a \in Int /\ b \in Int /\ a <= b
      BY <1>1, <1>2, <1>5 DEF Ascending
    <2>2. At(s, k) = a * (100 - v) + b * v
      BY <1>3, <1>5
    <2>3. \A g \in Nat : k <= 100 * g /\ g < Len(s) => b <= s[g + 1] /\ s[g + 1] \in Int
      BY <1>1, <1>2, <1>5 DEF Ascending
    <2> HIDE DEF a, b
    <2>4. a * (100 - 0) + b * 0 <= a * (100 - v) + b * v
      BY <1>1, <2>1, HeavierMixture
    <2>5. a * (100 - v) + b * v <= a * (100 - 100) + b * 100
      BY <1>1, <2>1, HeavierMixture, SMTT(30)
    <2>6. At(s, k) \in Int /\ 100 * a <= At(s, k) /\ At(s, k) <= 100 * b
      <3>1. a * (100 - v) + b * v \in Int
        BY <1>1, <2>1
      <3>2. a * (100 - 0) + b * 0 = 100 * a /\ a * (100 - 100) + b * 100 = 100 * b
        BY <2>1
      <3>3. QED
        BY <2>1, <2>2, <2>4, <2>5, <3>1, <3>2
    <2>7. 100 * s[f + 1] <= At(s, k)
      BY <2>6 DEF a
    <2>8. \A g \in Nat : k <= 100 * g /\ g < Len(s) => At(s, k) <= 100 * s[g + 1]
      BY <2>1, <2>3, <2>6
    <2>9. QED
      BY <2>6, <2>7, <2>8 DEF f
  <1>6. QED
    BY <1>4, <1>5

\* A higher rank never has a smaller value.
LEMMA RanksOrdered ==
  ASSUME NEW s \in Seq(Int), Ascending(s), s # <<>>,
         NEW k \in 0..((Len(s) - 1) * 100), NEW m \in 0..((Len(s) - 1) * 100), k <= m
  PROVE  At(s, k) <= At(s, m)
  <1> DEFINE f == k \div 100
             g == m \div 100
             v == k - 100 * f
             w == m - 100 * g
  <1>1. /\ f \in Nat /\ v \in 0..99 /\ k = 100 * f + v
        /\ g \in Nat /\ w \in 0..99 /\ m = 100 * g + w
    BY RankSplits
  <1>2. Len(s) \in Nat \ {0} /\ f + 1 \in 1..Len(s) /\ g + 1 \in 1..Len(s)
    BY <1>1
  <1>3. At(s, k) \in Int /\ At(s, m) \in Int /\ 100 * s[g + 1] <= At(s, m)
    BY Between
  <1>4. CASE f < g
    <2>1. k <= 100 * g /\ g < Len(s)
      BY <1>1, <1>2, <1>4
    <2>2. At(s, k) <= 100 * s[g + 1]
      BY <1>1, <2>1, Between
    <2>3. 100 * s[g + 1] \in Int
      BY <1>2
    <2>4. QED
      BY <1>3, <2>2, <2>3
  <1>5. CASE f = g
    <2>1. v <= w
      BY <1>1, <1>5
    <2>2. CASE v = 0
      <3>1. At(s, k) = 100 * s[f + 1]
        BY <2>2 DEF At
      <3>2. QED
        BY <1>3, <1>5, <3>1
    <2>3. CASE v # 0
      <3>1. /\ At(s, k) = s[f + 1] * (100 - v) + s[f + 2] * v
            /\ At(s, m) = s[f + 1] * (100 - w) + s[f + 2] * w
        BY <1>1, <1>5, <2>1, <2>3 DEF At
      <3>2. f + 2 \in 1..Len(s)
        BY <1>1, <2>3
      <3>3. s[f + 1] \in Int /\ s[f + 2] \in Int /\ s[f + 1] <= s[f + 2]
        BY <1>1, <1>2, <3>2 DEF Ascending
      <3>4. v \in 0..100 /\ w \in 0..100
        BY <1>1
      <3> DEFINE a == s[f + 1]
                 b == s[f + 2]
      <3> HIDE DEF f, v, w, a, b
      <3>5. a * (100 - v) + b * v <= a * (100 - w) + b * w
        BY <2>1, <3>3, <3>4, HeavierMixture DEF a, b
      <3>6. QED
        BY <3>1, <3>5 DEF a, b
    <2>4. QED
      BY <2>2, <2>3
  <1>6. QED
    <2>1. f <= g
      BY <1>1
    <2>2. QED
      BY <1>1, <1>4, <1>5, <2>1

\* A percentile is the value at its rank.
LEMMA PercentileAtRank ==
  ASSUME NEW s \in Seq(Int), s # <<>>, NEW p \in 0..100
  PROVE  /\ (Len(s) - 1) * p \in 0..((Len(s) - 1) * 100)
         /\ Percentile(s, p) = At(s, (Len(s) - 1) * p)
  <1>1. Len(s) - 1 \in Nat
    OBVIOUS
  <1>2. (Len(s) - 1) * p \in 0..((Len(s) - 1) * 100)
    <2>1. \A n \in Nat : n * p \in Nat /\ n * p <= n * 100
      OBVIOUS
    <2>2. QED
      BY <1>1, <2>1
  <1>3. CASE p = 0
    <2>1. (Len(s) - 1) * 0 = 0 /\ 0 \div 100 = 0
      BY <1>1
    <2>2. At(s, 0) = 100 * s[1]
      BY <2>1 DEF At
    <2>3. QED
      BY <1>2, <1>3, <2>1, <2>2 DEF Percentile
  <1>4. CASE p = 100
    <2> DEFINE n == Len(s) - 1
    <2>1. (n * 100) \div 100 = n
      BY <1>1
    <2>2. n + 1 = Len(s) /\ n * 100 - 100 * n = 0
      BY <1>1
    <2>3. At(s, n * 100) = 100 * s[Len(s)]
      BY <2>1, <2>2 DEF At
    <2>4. QED
      BY <1>2, <1>4, <2>3 DEF Percentile
  <1>5. CASE p # 0 /\ p # 100
    BY <1>2, <1>5 DEF Percentile, At
  <1>6. QED
    BY <1>3, <1>4, <1>5

\* In every report the percentiles are in their order, between the smallest
\* and the largest latency.
THEOREM PercentilesOrdered ==
  ASSUME NEW s \in Seq(Int), Ascending(s), s # <<>>,
         NEW p \in 0..100, NEW q \in 0..100, p <= q
  PROVE  /\ 100 * s[1] <= Percentile(s, p)
         /\ Percentile(s, p) <= Percentile(s, q)
         /\ Percentile(s, q) <= 100 * s[Len(s)]
  <1> DEFINE n == Len(s) - 1
  <1>1. n \in Nat /\ n * p <= n * q /\ n * 0 = 0 /\ 0 \in 0..100 /\ 100 \in 0..100
    <2>1. \A m \in Nat : m * p <= m * q
      OBVIOUS
    <2>2. QED
      BY <2>1, SMTT(30)
  <1>2. /\ n * 0 \in 0..(n * 100) /\ n * p \in 0..(n * 100) /\ n * q \in 0..(n * 100)
        /\ Percentile(s, 0) = At(s, n * 0) /\ Percentile(s, p) = At(s, n * p)
        /\ Percentile(s, q) = At(s, n * q)
    BY <1>1, PercentileAtRank
  <1>3. Percentile(s, 0) = 100 * s[1]
    BY DEF Percentile
  <1>4. Percentile(s, 0) <= Percentile(s, p)
    BY <1>1, <1>2, RanksOrdered
  <1>5. Percentile(s, p) <= Percentile(s, q)
    BY <1>1, <1>2, RanksOrdered
  <1>6. Percentile(s, q) <= 100 * s[Len(s)]
    <2>1. n * q <= 100 * n /\ n < Len(s) /\ n + 1 = Len(s)
      BY <1>1, <1>2
    <2>2. At(s, n * q) <= 100 * s[n + 1]
      BY <1>1, <1>2, <2>1, Between
    <2>3. QED
      BY <1>2, <2>1, <2>2
  <1>7. QED
    BY <1>3, <1>4, <1>5, <1>6

-----------------------------------------------------------------------------
\* A set of numbers has a least one.
LEMMA Least ==
  ASSUME NEW S \in SUBSET Nat, S # {}
  PROVE  \E n \in S : \A m \in S : n <= m
  <1>1. PICK n \in S : \A m \in S : <<m, n>> \notin OpToRel(<, Nat)
    BY NatLessThanWellFounded, WFMin
  <1>2. \A m \in S : ~ (m < n)
    <2> SUFFICES ASSUME NEW m \in S, m < n PROVE FALSE
      OBVIOUS
    <2>1. <<m, n>> \in Nat \X Nat /\ <<m, n>>[1] < <<m, n>>[2]
      OBVIOUS
    <2>2. QED
      BY <1>1, <2>1 DEF OpToRel
  <1>3. QED
    BY <1>2

\* Induction, for a set of numbers.
LEMMA Induction ==
  ASSUME NEW S, 0 \in S, \A n \in Nat : n \in S => n + 1 \in S
  PROVE  Nat \subseteq S
  <1> SUFFICES ASSUME Nat \ S # {} PROVE FALSE
    OBVIOUS
  <1>1. PICK n \in Nat \ S : \A m \in Nat \ S : n <= m
    <2>1. Nat \ S \in SUBSET Nat
      OBVIOUS
    <2>2. QED
      BY <2>1, Least
  <1>2. n # 0 /\ n - 1 \in Nat
    BY <1>1
  <1>3. n - 1 \in S
    BY <1>1, <1>2
  <1>4. QED
    BY <1>1, <1>2, <1>3

\* The element that a fold over a set takes first.
First(T) == CHOOSE x \in T : TRUE

\* Induction over the parts of a finite set, in the order of a fold.
LEMMA PartInduction ==
  ASSUME NEW D, IsFiniteSet(D), NEW G, {} \in G,
         \A T \in SUBSET D : T # {} /\ T \ {First(T)} \in G => T \in G
  PROVE  SUBSET D \subseteq G
  <1> DEFINE S == {n \in Nat : \A T \in SUBSET D : Cardinality(T) = n => T \in G}
  <1>1. \A T \in SUBSET D : IsFiniteSet(T) /\ Cardinality(T) \in Nat
    BY FS_Subset, FS_CardinalityType
  <1>2. 0 \in S
    BY <1>1, FS_EmptySet
  <1>3. \A n \in Nat : n \in S => n + 1 \in S
    <2> SUFFICES ASSUME NEW n \in Nat, n \in S,
                        NEW T \in SUBSET D, Cardinality(T) = n + 1
                 PROVE  T \in G
      OBVIOUS
    <2>1. T # {}
      BY FS_EmptySet
    <2>2. First(T) \in T /\ T \ {First(T)} \in SUBSET D
      BY <2>1 DEF First
    <2>3. Cardinality(T \ {First(T)}) = n
      BY <1>1, <2>2, FS_RemoveElement
    <2>4. QED
      BY <2>1, <2>2, <2>3
  <1> HIDE DEF S
  <1>4. Nat \subseteq S
    BY <1>2, <1>3, Induction
  <1>5. QED
    BY <1>1, <1>4 DEF S

-----------------------------------------------------------------------------
\* g adds up s over the part T of its domain.
Adds(g, s, T) == IF T = {} THEN 0 ELSE s[First(T)] + g[T \ {First(T)}]

\* The sum of a function is that of a function that adds it up.
LEMMA SumUnfolds ==
  ASSUME NEW s
  PROVE  SumFunction(s) =
           (CHOOSE g : g = [T \in SUBSET DOMAIN s |-> Adds(g, s, T)])[DOMAIN s]
  BY DEF SumFunction, SumFunctionOnSet, FoldFunctionOnSet, MapThenFoldSet, Adds, First

\* Over a finite domain there is one.
LEMMA SumExists ==
  ASSUME NEW s, IsFiniteSet(DOMAIN s)
  PROVE  \E g : g = [T \in SUBSET DOMAIN s |-> Adds(g, s, T)]
  <1> DEFINE D == DOMAIN s
             Upto(g, n) == \A T \in SUBSET D : Cardinality(T) <= n => g[T] = Adds(g, s, T)
             Longer(g) == [T \in SUBSET D |-> Adds(g, s, T)]
             S == {n \in Nat : \E g : Upto(g, n)}
  <1>1. \A T \in SUBSET D : IsFiniteSet(T) /\ Cardinality(T) \in Nat
    BY FS_Subset, FS_CardinalityType
  <1>2. \A T \in SUBSET D : T # {} =>
          /\ T \ {First(T)} \in SUBSET D
          /\ Cardinality(T \ {First(T)}) = Cardinality(T) - 1
    <2> SUFFICES ASSUME NEW T \in SUBSET D, T # {}
                 PROVE  /\ T \ {First(T)} \in SUBSET D
                        /\ Cardinality(T \ {First(T)}) = Cardinality(T) - 1
      OBVIOUS
    <2>1. First(T) \in T
      BY DEF First
    <2>2. QED
      BY <1>1, <2>1, FS_RemoveElement
  <1>3. 0 \in S
    <2>1. \A T \in SUBSET D : Cardinality(T) <= 0 => T = {}
      BY <1>1, FS_EmptySet
    <2>2. Upto([T \in SUBSET D |-> 0], 0)
      BY <2>1 DEF Adds
    <2>3. QED
      BY <2>2
  <1>4. \A n \in Nat : n \in S => n + 1 \in S
    <2> SUFFICES ASSUME NEW n \in Nat, n \in S PROVE n + 1 \in S
      OBVIOUS
    <2> PICK g : Upto(g, n)
      OBVIOUS
    <2> SUFFICES Upto(Longer(g), n + 1)
      <3>1. n + 1 \in Nat
        OBVIOUS
      <3> HIDE DEF Upto, Longer
      <3>2. QED
        BY <3>1
    <2> SUFFICES ASSUME NEW T \in SUBSET D, Cardinality(T) <= n + 1
                 PROVE  Longer(g)[T] = Adds(Longer(g), s, T)
      OBVIOUS
    <2> DEFINE U == T \ {First(T)}
    <2>1. CASE T = {}
      BY <2>1 DEF Adds
    <2>2. CASE T # {}
      <3>1. U \in SUBSET D /\ Cardinality(U) <= n
        BY <1>1, <1>2, <2>2
      <3>2. Longer(g)[U] = g[U]
        BY <3>1
      <3> HIDE DEF Upto
      <3>3. QED
        BY <2>2, <3>2 DEF Adds
    <2>3. QED
      BY <2>1, <2>2
  <1> HIDE DEF S
  <1>5. Cardinality(D) \in S
    BY <1>1, <1>3, <1>4, Induction
  <1>6. PICK g : Upto(g, Cardinality(D))
    BY <1>5 DEF S
  <1>7. \A T \in SUBSET D : g[T] = Adds(g, s, T)
    <2>1. \A T \in SUBSET D : Cardinality(T) <= Cardinality(D)
      BY FS_Subset
    <2>2. QED
      BY <1>6, <2>1
  <1>8. \A T \in SUBSET D : Longer(g)[T] = Adds(Longer(g), s, T)
    <2> SUFFICES ASSUME NEW T \in SUBSET D PROVE Longer(g)[T] = Adds(Longer(g), s, T)
      OBVIOUS
    <2>1. T \ {First(T)} \in SUBSET D
      OBVIOUS
    <2>2. Longer(g)[T \ {First(T)}] = g[T \ {First(T)}]
      BY <1>7, <2>1
    <2>3. QED
      BY <2>2 DEF Adds
  <1> HIDE DEF Upto
  <1>9. Longer(g) = [T \in SUBSET D |-> Adds(Longer(g), s, T)]
    BY <1>8
  <1>10. QED
    BY <1>9

\* g has the sums of s over the parts of D.
SumsOf(g, s, D) ==
  /\ g \in [SUBSET D -> Int]
  /\ g[D] = SumFunction(s)
  /\ g[{}] = 0
  /\ \A T \in SUBSET D : T # {} => g[T] = s[First(T)] + g[T \ {First(T)}]

\* The sum of numbers over a finite domain, taken apart.
LEMMA SumOfParts ==
  ASSUME NEW D, IsFiniteSet(D), NEW s \in [D -> Int]
  PROVE  \E g : SumsOf(g, s, D)
  <1> DEFINE g == CHOOSE g : g = [T \in SUBSET D |-> Adds(g, s, T)]
             G == {T \in SUBSET D : g[T] \in Int}
  <1>1. DOMAIN s = D
    OBVIOUS
  <1>2. g = [T \in SUBSET D |-> Adds(g, s, T)]
    BY <1>1, SumExists
  <1>3. g[D] = SumFunction(s)
    BY <1>1, SumUnfolds
  <1> HIDE DEF g
  <1>4. g[{}] = 0 /\ \A T \in SUBSET D : T # {} => g[T] = s[First(T)] + g[T \ {First(T)}]
    <2>1. \A T \in SUBSET D : g[T] = Adds(g, s, T)
      BY <1>2
    <2>2. QED
      BY <2>1 DEF Adds
  <1>5. {} \in G
    BY <1>4
  <1>6. \A T \in SUBSET D : T # {} /\ T \ {First(T)} \in G => T \in G
    <2> SUFFICES ASSUME NEW T \in SUBSET D, T # {}, g[T \ {First(T)}] \in Int
                 PROVE  g[T] \in Int
      OBVIOUS
    <2>1. First(T) \in D
      BY DEF First
    <2>2. s[First(T)] \in Int
      BY <2>1
    <2>3. g[T] = s[First(T)] + g[T \ {First(T)}]
      BY <1>4
    <2> HIDE DEF First
    <2>4. QED
      BY <2>2, <2>3
  <1> HIDE DEF G
  <1>7. SUBSET D \subseteq G
    BY <1>5, <1>6, PartInduction
  <1>8. g \in [SUBSET D -> Int]
    BY <1>2, <1>7 DEF G
  <1>9. QED
    BY <1>3, <1>4, <1>8 DEF SumsOf

\* The sum of numbers is a number.
LEMMA SumType ==
  ASSUME NEW D, IsFiniteSet(D), NEW s \in [D -> Int]
  PROVE  SumFunction(s) \in Int
  <1>1. PICK g : SumsOf(g, s, D)
    BY SumOfParts
  <1>2. QED
    BY <1>1 DEF SumsOf

\* When the elements of I grow by one at most, the sum grows by their number.
LEMMA SumGrows ==
  ASSUME NEW D, IsFiniteSet(D), NEW s \in [D -> Int], NEW t \in [D -> Int],
         NEW I \in SUBSET D,
         \A x \in D : t[x] <= s[x] + (IF x \in I THEN 1 ELSE 0)
  PROVE  SumFunction(t) <= SumFunction(s) + Cardinality(I)
  <1>1. PICK g : SumsOf(g, s, D)
    BY SumOfParts
  <1>2. PICK h : SumsOf(h, t, D)
    BY SumOfParts
  <1> DEFINE G == {T \in SUBSET D : h[T] <= g[T] + Cardinality(I \cap T)}
  <1>3. {} \in G
    <2>1. Cardinality(I \cap {}) = 0
      BY FS_EmptySet
    <2>2. QED
      BY <1>1, <1>2, <2>1 DEF SumsOf
  <1>4. \A T \in SUBSET D : T # {} /\ T \ {First(T)} \in G => T \in G
    <2> SUFFICES ASSUME NEW T \in SUBSET D, T # {}, T \ {First(T)} \in G
                 PROVE  T \in G
      OBVIOUS
    <2> DEFINE x == First(T)
               U == T \ {x}
    <2>1. x \in T /\ x \in D /\ U \in SUBSET D
      BY DEF First
    <2>2. IsFiniteSet(I \cap T) /\ Cardinality(I \cap T) \in Nat
      <3>1. I \cap T \in SUBSET D
        OBVIOUS
      <3>2. QED
        BY <3>1, FS_Subset, FS_CardinalityType
    <2>3. Cardinality(I \cap U) = Cardinality(I \cap T) - (IF x \in I THEN 1 ELSE 0)
      <3>1. I \cap U = (I \cap T) \ {x}
        OBVIOUS
      <3>2. x \in I \cap T <=> x \in I
        BY <2>1
      <3>3. Cardinality((I \cap T) \ {x}) =
              IF x \in I \cap T THEN Cardinality(I \cap T) - 1 ELSE Cardinality(I \cap T)
        BY <2>2, FS_RemoveElement
      <3> HIDE DEF x, U
      <3>4. QED
        BY <2>2, <3>1, <3>2, <3>3
    <2>4. h[T] = t[x] + h[U] /\ g[T] = s[x] + g[U]
      BY <1>1, <1>2 DEF SumsOf
    <2>5. h[U] <= g[U] + Cardinality(I \cap U)
      OBVIOUS
    <2>6. t[x] <= s[x] + (IF x \in I THEN 1 ELSE 0) /\ t[x] \in Int /\ s[x] \in Int
      BY <2>1
    <2>7. h[U] \in Int /\ g[U] \in Int
      BY <1>1, <1>2, <2>1 DEF SumsOf
    <2> HIDE DEF x, U
    <2>8. h[T] <= g[T] + Cardinality(I \cap T)
      BY <2>2, <2>3, <2>4, <2>5, <2>6, <2>7
    <2>9. QED
      BY <2>8
  <1> HIDE DEF G, SumsOf
  <1>5. D \in G
    BY <1>3, <1>4, PartInduction
  <1>6. I \cap D = I
    OBVIOUS
  <1>7. QED
    BY <1>1, <1>2, <1>5, <1>6 DEF G, SumsOf

\* A sum lies between as many times a lower bound and an upper bound.
LEMMA SumBetween ==
  ASSUME NEW D, IsFiniteSet(D), NEW s \in [D -> Int], NEW lo \in Int, NEW hi \in Int,
         \A x \in D : lo <= s[x] /\ s[x] <= hi
  PROVE  lo * Cardinality(D) <= SumFunction(s) /\ SumFunction(s) <= hi * Cardinality(D)
  <1>1. PICK g : SumsOf(g, s, D)
    BY SumOfParts
  <1> DEFINE G == {T \in SUBSET D :
                     lo * Cardinality(T) <= g[T] /\ g[T] <= hi * Cardinality(T)}
  <1>2. {} \in G
    BY <1>1, FS_EmptySet DEF SumsOf
  <1>3. \A T \in SUBSET D : T # {} /\ T \ {First(T)} \in G => T \in G
    <2> SUFFICES ASSUME NEW T \in SUBSET D, T # {}, T \ {First(T)} \in G
                 PROVE  T \in G
      OBVIOUS
    <2> DEFINE x == First(T)
               U == T \ {x}
    <2>1. x \in T /\ x \in D /\ U \in SUBSET D
      BY DEF First
    <2>2. Cardinality(U) \in Nat /\ Cardinality(T) = Cardinality(U) + 1
      <3>1. IsFiniteSet(T) /\ Cardinality(T) \in Nat /\ Cardinality(U) \in Nat
        BY <2>1, FS_Subset, FS_CardinalityType
      <3>2. Cardinality(U) = Cardinality(T) - 1
        BY <2>1, <3>1, FS_RemoveElement
      <3>3. QED
        BY <3>1, <3>2
    <2>3. g[T] = s[x] + g[U] /\ s[x] \in Int /\ g[U] \in Int
      BY <1>1, <2>1 DEF SumsOf
    <2>4. lo <= s[x] /\ s[x] <= hi
      BY <2>1
    <2>5. lo * Cardinality(U) <= g[U] /\ g[U] <= hi * Cardinality(U)
      OBVIOUS
    <2> HIDE DEF x, U
    <2>6. \A k \in Int : \A c \in Nat : k * (c + 1) = k * c + k /\ k * c \in Int
      OBVIOUS
    <2>7. lo * Cardinality(T) <= g[T] /\ g[T] <= hi * Cardinality(T)
      BY <2>2, <2>3, <2>4, <2>5, <2>6
    <2>8. QED
      BY <2>7
  <1> HIDE DEF G, SumsOf
  <1>4. D \in G
    BY <1>2, <1>3, PartInduction
  <1>5. QED
    BY <1>1, <1>4 DEF G, SumsOf
-----------------------------------------------------------------------------
\* p is one-to-one from N onto N.
OneToOne(p, N) ==
  /\ p \in [N -> N]
  /\ \A a, b \in N : p[a] = p[b] => a = b
  /\ \A c \in N : \E a \in N : p[a] = c

\* This is what Bijection means.
LEMMA BijectionOn == \A N : \A p : p \in Bijection(N, N) <=> OneToOne(p, N)
  BY DEF Bijection, Injection, Surjection, IsInjective, OneToOne

\* q takes back what p does.
Undoes(q, p, N) ==
  /\ q \in [N -> N]
  /\ \A i \in N : p[q[i]] = i
  /\ \A i, j \in N : q[i] = q[j] => i = j

\* There is such a function.
LEMMA Undone ==
  ASSUME NEW N, NEW p, OneToOne(p, N)
  PROVE  \E q : Undoes(q, p, N)
  <1> DEFINE q == [c \in N |-> CHOOSE a \in N : p[a] = c]
  <1>1. \A c \in N : q[c] \in N /\ p[q[c]] = c
    BY DEF OneToOne
  <1>2. q \in [N -> N]
    BY <1>1
  <1> HIDE DEF q
  <1>3. Undoes(q, p, N)
    <2>1. \A i, j \in N : q[i] = q[j] => i = j
      <3> SUFFICES ASSUME NEW i \in N, NEW j \in N, q[i] = q[j] PROVE i = j
        OBVIOUS
      <3>1. p[q[i]] = i /\ p[q[j]] = j
        BY <1>1
      <3>2. QED
        BY <3>1
    <2>2. QED
      BY <1>1, <1>2, <2>1 DEF Undoes
  <1>4. QED
    BY <1>3

\* p puts the k smallest elements of s first, in their order.
SortsFirst(p, s, k) ==
  \A i, j \in DOMAIN s : i < j /\ i <= k => s[p[i]] <= s[p[j]]

\* One more element can always be put in its place.
LEMMA SortOneMore ==
  ASSUME NEW n \in Nat, NEW s \in [1..n -> Nat], NEW k \in Nat,
         NEW p, OneToOne(p, 1..n), SortsFirst(p, s, k)
  PROVE  \E q : OneToOne(q, 1..n) /\ SortsFirst(q, s, k + 1)
  <1>1. /\ p \in [1..n -> 1..n]
        /\ \A a, b \in 1..n : p[a] = p[b] => a = b
        /\ \A c \in 1..n : \E a \in 1..n : p[a] = c
    BY DEF OneToOne
  <1>2. CASE n <= k
    BY <1>2 DEF SortsFirst
  <1>3. CASE k < n
    <2> DEFINE M == {s[p[m]] : m \in (k + 1)..n}
    <2>1. PICK m \in (k + 1)..n : \A j \in (k + 1)..n : s[p[m]] <= s[p[j]]
      <3>1. M \in SUBSET Nat /\ s[p[k + 1]] \in M
        <4>1. \A j \in (k + 1)..n : j \in 1..n /\ p[j] \in 1..n /\ s[p[j]] \in Nat
          BY <1>1
        <4>2. k + 1 \in (k + 1)..n
          BY <1>3
        <4>3. QED
          BY <4>1, <4>2
      <3>2. PICK v \in M : \A w \in M : v <= w
        <4> HIDE DEF M
        <4>1. QED
          BY <3>1, Least
      <3>3. QED
        BY <3>2
    <2> DEFINE q == [i \in 1..n |-> IF i = k + 1 THEN p[m]
                                    ELSE IF i = m THEN p[k + 1] ELSE p[i]]
    <2>2. k + 1 \in 1..n /\ m \in 1..n
      BY <1>3
    <2>3. q \in [1..n -> 1..n]
      BY <1>1, <2>2
    <2>4. \A a, b \in 1..n : q[a] = q[b] => a = b
      BY <1>1, <2>2
    <2>5. \A c \in 1..n : \E a \in 1..n : q[a] = c
      <3> SUFFICES ASSUME NEW c \in 1..n PROVE \E a \in 1..n : q[a] = c
        OBVIOUS
      <3>1. PICK a \in 1..n : p[a] = c
        BY <1>1
      <3>2. a = m => q[k + 1] = c
        BY <2>2, <3>1
      <3>3. a = k + 1 => q[m] = c
        BY <2>2, <3>1
      <3>4. a # m /\ a # k + 1 => q[a] = c
        BY <3>1
      <3>5. QED
        BY <2>2, <3>2, <3>3, <3>4
    <2>6. OneToOne(q, 1..n)
      BY <2>3, <2>4, <2>5 DEF OneToOne
    <2>7. SortsFirst(q, s, k + 1)
      <3> SUFFICES ASSUME NEW i \in 1..n, NEW j \in 1..n, i < j, i <= k + 1
                   PROVE  s[q[i]] <= s[q[j]]
        BY DEF SortsFirst
      <3>1. PICK l \in 1..n : q[j] = p[l] /\ (i <= k => i < l) /\ (i = k + 1 => l \in (k + 1)..n)
        <4>1. CASE j = k + 1
          BY <2>2, <4>1
        <4>2. CASE j # k + 1 /\ j = m
          BY <2>2, <4>2
        <4>3. CASE j # k + 1 /\ j # m
          BY <2>2, <4>3
        <4>4. QED
          BY <4>1, <4>2, <4>3
      <3>2. CASE i <= k
        <4>1. q[i] = p[i]
          BY <2>2, <3>2
        <4>2. s[p[i]] <= s[p[l]]
          BY <3>1, <3>2 DEF SortsFirst
        <4>3. QED
          BY <3>1, <4>1, <4>2
      <3>3. CASE i = k + 1
        <4>1. q[i] = p[m]
          BY <3>3
        <4>2. QED
          BY <2>1, <3>1, <3>3, <4>1
      <3>4. QED
        BY <3>2, <3>3
    <2>8. QED
      BY <2>6, <2>7
  <1>4. QED
    BY <1>2, <1>3

\* Every sequence of numbers can be sorted.
LEMMA SortExists ==
  ASSUME NEW n \in Nat, NEW s \in [1..n -> Nat]
  PROVE  /\ Sorted(s) \in Rearrangements(s)
         /\ Ascending(Sorted(s))
  <1> DEFINE S == {k \in Nat : \E p : OneToOne(p, 1..n) /\ SortsFirst(p, s, k)}
  <1>1. 0 \in S
    <2> DEFINE id == [i \in 1..n |-> i]
    <2>1. OneToOne(id, 1..n)
      BY DEF OneToOne
    <2>2. SortsFirst(id, s, 0)
      BY DEF SortsFirst
    <2>3. QED
      BY <2>1, <2>2
  <1>2. \A k \in Nat : k \in S => k + 1 \in S
    BY SortOneMore
  <1> HIDE DEF S
  <1>3. n \in S
    BY <1>1, <1>2, Induction
  <1>4. PICK p : OneToOne(p, 1..n) /\ SortsFirst(p, s, n)
    BY <1>3 DEF S
  <1> DEFINE t == [i \in 1..n |-> s[p[i]]]
  <1>5. p \in [1..n -> 1..n]
    BY <1>4 DEF OneToOne
  <1>6. t \in [1..n -> Nat] /\ Len(t) = n
    BY <1>5
  <1>7. Ascending(t)
    <2> SUFFICES ASSUME NEW i \in 1..n, NEW j \in 1..n, i <= j PROVE t[i] <= t[j]
      BY <1>6 DEF Ascending
    <2>1. t[i] = s[p[i]] /\ t[j] = s[p[j]] /\ t[i] \in Nat
      BY <1>6
    <2>2. i < j => s[p[i]] <= s[p[j]]
      BY <1>4 DEF SortsFirst
    <2>3. QED
      BY <2>1, <2>2
  <1>8. t \in Rearrangements(s)
    <2>1. DOMAIN s = 1..n /\ p \in Bijection(1..n, 1..n)
      BY <1>4, BijectionOn
    <2>2. QED
      BY <2>1 DEF Rearrangements
  <1>9. QED
    BY <1>7, <1>8 DEF Sorted

\* a is ascending, and so are its values.
Rises(a, n) == a \in [1..n -> Nat] /\ \A i, j \in 1..n : i <= j => a[i] <= a[j]

\* r finds every value of a somewhere else in b.
Finds(r, a, b, n) ==
  /\ r \in [1..n -> 1..n]
  /\ \A i, j \in 1..n : r[i] = r[j] => i = j
  /\ \A i \in 1..n : a[i] = b[r[i]]

\* Of two ascending sequences of the same numbers none is ahead of the other.
LEMMA NotAhead ==
  ASSUME NEW n \in Nat, NEW a, NEW b, Rises(a, n), Rises(b, n),
         NEW r, Finds(r, a, b, n), NEW k \in 1..n
  PROVE  b[k] <= a[k]
  <1>1. a[k] \in Nat /\ b[k] \in Nat
    BY DEF Rises
  <1> SUFFICES ASSUME a[k] < b[k] PROVE FALSE
    BY <1>1
  <1>2. \A i \in 1..k : r[i] \in 1..(k - 1)
    <2> SUFFICES ASSUME NEW i \in 1..k PROVE r[i] \in 1..(k - 1)
      OBVIOUS
    <2>1. i \in 1..n /\ i <= k
      OBVIOUS
    <2>2. r[i] \in 1..n /\ a[i] = b[r[i]]
      BY <2>1 DEF Finds
    <2>3. a[i] <= a[k] /\ a[i] \in Nat
      BY <2>1 DEF Rises
    <2>4. k <= r[i] => b[k] <= b[r[i]]
      BY <2>2 DEF Rises
    <2>5. QED
      BY <1>1, <2>2, <2>3, <2>4
  <1> DEFINE f == [i \in 1..k |-> r[i]]
             K == 1..k
             L == 1..(k - 1)
  <1>3. f \in [K -> L] /\ \A i, j \in K : f[i] = f[j] => i = j
    <2>1. \A i \in 1..k : i \in 1..n
      OBVIOUS
    <2>2. QED
      BY <1>2, <2>1 DEF Finds
  <1>4. IsFiniteSet(K) /\ IsFiniteSet(L) /\ Cardinality(L) < Cardinality(K)
    <2>1. k \in Int /\ k - 1 \in Int /\ 1 \in Int /\ k > 0
      OBVIOUS
    <2>2. /\ IsFiniteSet(1..k) /\ Cardinality(1..k) = IF 1 > k THEN 0 ELSE k - 1 + 1
          /\ IsFiniteSet(1..(k - 1))
          /\ Cardinality(1..(k - 1)) = IF 1 > k - 1 THEN 0 ELSE k - 1 - 1 + 1
      BY <2>1, FS_Interval
    <2>3. QED
      BY <2>1, <2>2
  <1> HIDE DEF f, K, L
  <1>5. QED
    BY <1>3, <1>4, FS_PigeonHole

\* Sorting puts the elements in another order.
LEMMA SortMoves ==
  ASSUME NEW n \in Nat, NEW s \in [1..n -> Nat]
  PROVE  /\ \E p : OneToOne(p, 1..n) /\ Sorted(s) = [i \in 1..n |-> s[p[i]]]
         /\ Sorted(s) \in [1..n -> Nat] /\ Len(Sorted(s)) = n
         /\ \A i, j \in 1..n : i <= j => Sorted(s)[i] <= Sorted(s)[j]
  <1>1. PICK p : OneToOne(p, 1..n) /\ Sorted(s) = [i \in 1..n |-> s[p[i]]]
    <2>1. DOMAIN s = 1..n /\ Sorted(s) \in Rearrangements(s)
      BY SortExists
    <2>2. QED
      BY <2>1, BijectionOn DEF Rearrangements
  <1>2. Sorted(s) \in [1..n -> Nat] /\ Len(Sorted(s)) = n
    BY <1>1 DEF OneToOne
  <1>3. Ascending(Sorted(s))
    BY SortExists
  <1>4. QED
    BY <1>1, <1>2, <1>3 DEF Ascending

\* t has the elements of s in another order.
Reorders(t, s, p, n) ==
  /\ s \in [1..n -> Nat] /\ t \in [1..n -> Nat]
  /\ OneToOne(p, 1..n)
  /\ \A i \in 1..n : t[i] = s[p[i]]

\* Sorting does not depend on the order in which the numbers come.
LEMMA SortSame ==
  ASSUME NEW n \in Nat, NEW s, NEW t, NEW p, Reorders(t, s, p, n)
  PROVE  Sorted(t) = Sorted(s)
  <1> USE DEF Reorders
  <1> DEFINE N == 1..n
  <1>1. PICK u : OneToOne(u, N) /\ Sorted(s) = [i \in N |-> s[u[i]]]
    BY SortMoves
  <1>2. PICK v : OneToOne(v, N) /\ Sorted(t) = [i \in N |-> t[v[i]]]
    BY SortMoves
  <1> DEFINE a == Sorted(s)
             b == Sorted(t)
             w == [i \in N |-> p[v[i]]]
  <1>3. OneToOne(p, N)
    OBVIOUS
  <1>4. a \in [N -> Nat] /\ b \in [N -> Nat]
    BY SortMoves
  <1>5. /\ \A i, j \in N : i <= j => a[i] <= a[j]
        /\ \A i, j \in N : i <= j => b[i] <= b[j]
    BY SortMoves
  <1>6. \A i \in N : a[i] = s[u[i]] /\ b[i] = s[w[i]]
    BY <1>1, <1>2, SMTT(30) DEF OneToOne
  <1> HIDE DEF N, a, b
  <1>7. OneToOne(w, N)
    <2>1. \A c \in N : \E i \in N : w[i] = c
      <3> SUFFICES ASSUME NEW c \in N PROVE \E i \in N : w[i] = c
        OBVIOUS
      <3>1. PICK d \in N : p[d] = c
        BY <1>3 DEF OneToOne
      <3>2. PICK i \in N : v[i] = d
        BY <1>2 DEF OneToOne
      <3>3. QED
        BY <3>1, <3>2
    <2>2. w \in [N -> N]
      BY <1>2, <1>3 DEF OneToOne
    <2>3. \A i, j \in N : w[i] = w[j] => i = j
      <3> SUFFICES ASSUME NEW i \in N, NEW j \in N, w[i] = w[j] PROVE i = j
        OBVIOUS
      <3>1. v[i] \in N /\ v[j] \in N
        BY <1>2 DEF OneToOne
      <3>2. v[i] = v[j]
        BY <1>3, <3>1, ZenonT(40) DEF OneToOne
      <3>3. QED
        BY <1>2, <3>2 DEF OneToOne
    <2>4. QED
      BY <2>1, <2>2, <2>3 DEF OneToOne
  <1> HIDE DEF w
  <1>8. PICK x : Undoes(x, w, N)
    BY <1>7, Undone
  <1>9. PICK y : Undoes(y, u, N)
    BY <1>1, Undone
  <1> DEFINE r == [i \in N |-> x[u[i]]]
             q == [i \in N |-> y[w[i]]]
  <1>10. /\ r \in [N -> N] /\ \A i, j \in N : r[i] = r[j] => i = j
         /\ q \in [N -> N] /\ \A i, j \in N : q[i] = q[j] => i = j
    BY <1>1, <1>7, <1>8, <1>9 DEF OneToOne, Undoes
  <1>11. \A i \in N : a[i] = b[r[i]] /\ b[i] = a[q[i]]
    <2> SUFFICES ASSUME NEW i \in N PROVE a[i] = b[r[i]] /\ b[i] = a[q[i]]
      OBVIOUS
    <2>1. u[i] \in N /\ w[i] \in N /\ r[i] \in N /\ q[i] \in N
      BY <1>1, <1>7, <1>10 DEF OneToOne
    <2>2. w[r[i]] = u[i] /\ u[q[i]] = w[i]
      BY <1>8, <1>9, <2>1 DEF Undoes
    <2> HIDE DEF r, q
    <2>3. QED
      BY <1>6, <2>1, <2>2
  <1> HIDE DEF r, q
  <1>12. \A k \in N : b[k] <= a[k] /\ a[k] <= b[k]
    <2>1. Rises(a, n) /\ Rises(b, n)
      BY <1>4, <1>5 DEF Rises, N
    <2>2. Finds(r, a, b, n) /\ Finds(q, b, a, n)
      BY <1>10, <1>11 DEF Finds, N
    <2>3. QED
      BY <2>1, <2>2, NotAhead DEF N
  <1>13. a = b
    BY <1>4, <1>12
  <1>14. QED
    BY <1>13 DEF a, b

-----------------------------------------------------------------------------
\* The parts of a report that count requests.
LEMMA ReportCounts ==
  ASSUME NEW rs, NEW wall
  PROVE  LET r == BuildReport(rs, wall)
         IN  /\ r.total = Len(rs)
             /\ r.success = Cardinality(Successes(rs))
             /\ r.failure = Cardinality(Failures(rs))
             /\ r.successRate = SuccessRate(rs)
             /\ r.codes["201"] = Cardinality(WithStatus(rs, "201"))
             /\ r.codes["500"] = Cardinality(WithStatus(rs, "500"))
             /\ r.errors["Timeout"] = Cardinality(WithStatus(rs, "Timeout"))
  BY DEF BuildReport, Status, Exceptions

\* Requests split into successes and failures, failures into codes and errors.
LEMMA Partition ==
  ASSUME NEW rs \in Seq(Result)
  PROVE  /\ Cardinality(Successes(rs)) \in Nat /\ Cardinality(Failures(rs)) \in Nat
         /\ Cardinality(Successes(rs)) + Cardinality(Failures(rs)) = Len(rs)
         /\ Successes(rs) = WithStatus(rs, "201")
         /\ Cardinality(Failures(rs)) =
              Cardinality(WithStatus(rs, "500")) + Cardinality(WithStatus(rs, "Timeout"))
  <1>1. /\ DOMAIN rs = 1..Len(rs) /\ Len(rs) \in Nat
        /\ \A i \in DOMAIN rs : rs[i].status \in Status
    <2>1. \A i \in DOMAIN rs : rs[i] \in Result
      OBVIOUS
    <2>2. QED
      BY <2>1 DEF Result
  <1>2. IsFiniteSet(DOMAIN rs) /\ Cardinality(DOMAIN rs) = Len(rs)
    <2>1. /\ IsFiniteSet(1..Len(rs))
          /\ Cardinality(1..Len(rs)) = IF 1 > Len(rs) THEN 0 ELSE Len(rs) - 1 + 1
      BY <1>1, FS_Interval
    <2>2. QED
      BY <1>1, <2>1
  <1>3. /\ Successes(rs) \cup Failures(rs) = DOMAIN rs
        /\ Successes(rs) \cap Failures(rs) = {}
        /\ Successes(rs) = WithStatus(rs, "201")
        /\ Failures(rs) = WithStatus(rs, "500") \cup WithStatus(rs, "Timeout")
        /\ WithStatus(rs, "500") \cap WithStatus(rs, "Timeout") = {}
    BY <1>1 DEF Successes, Failures, WithStatus, Ok, Status
  <1>4. /\ IsFiniteSet(Successes(rs)) /\ IsFiniteSet(Failures(rs))
        /\ IsFiniteSet(WithStatus(rs, "500")) /\ IsFiniteSet(WithStatus(rs, "Timeout"))
    <2>1. /\ Successes(rs) \subseteq DOMAIN rs /\ Failures(rs) \subseteq DOMAIN rs
          /\ WithStatus(rs, "500") \subseteq DOMAIN rs
          /\ WithStatus(rs, "Timeout") \subseteq DOMAIN rs
      BY DEF Successes, Failures, WithStatus
    <2>2. QED
      BY <1>2, <2>1, FS_Subset
  <1>5. Cardinality({}) = 0
    BY FS_EmptySet
  <1>6. /\ Cardinality(Successes(rs)) \in Nat /\ Cardinality(Failures(rs)) \in Nat
        /\ Cardinality(WithStatus(rs, "500")) \in Nat
        /\ Cardinality(WithStatus(rs, "Timeout")) \in Nat
    BY <1>4, FS_CardinalityType
  <1>7. Cardinality(Successes(rs) \cup Failures(rs)) =
          Cardinality(Successes(rs)) + Cardinality(Failures(rs))
            - Cardinality(Successes(rs) \cap Failures(rs))
    BY <1>4, FS_Union
  <1>8. Cardinality(WithStatus(rs, "500") \cup WithStatus(rs, "Timeout")) =
          Cardinality(WithStatus(rs, "500")) + Cardinality(WithStatus(rs, "Timeout"))
            - Cardinality(WithStatus(rs, "500") \cap WithStatus(rs, "Timeout"))
    BY <1>4, FS_Union
  <1>9. Cardinality(Successes(rs)) + Cardinality(Failures(rs)) = Len(rs)
    <2>1. Cardinality(Successes(rs) \cup Failures(rs)) = Len(rs)
      BY <1>2, <1>3
    <2>2. Cardinality(Successes(rs) \cap Failures(rs)) = 0
      BY <1>3, <1>5
    <2>3. QED
      BY <1>6, <1>7, <2>1, <2>2
  <1>10. Cardinality(Failures(rs)) =
           Cardinality(WithStatus(rs, "500")) + Cardinality(WithStatus(rs, "Timeout"))
    <2>1. Cardinality(WithStatus(rs, "500") \cap WithStatus(rs, "Timeout")) = 0
      BY <1>3, <1>5
    <2>2. QED
      BY <1>3, <1>6, <1>8, <2>1
  <1>11. QED
    BY <1>3, <1>6, <1>9, <1>10

\* Below 20000 requests the rounding does not hide a failure.
LEMMA FullMarks ==
  ASSUME NEW n \in Nat, 0 < n, n < 20000, NEW s \in 0..n, NEW a, a = 10000 * s
  PROVE  Rounded(a, n) = 10000 <=> s = n
  <1>1. CASE s = n
    <2>1. (2 * (10000 * n) + n) \div (2 * n) = 10000
      BY SMT
    <2>2. QED
      BY <1>1, <2>1 DEF Rounded
  <1>2. CASE s # n
    <2>1. 2 * (10000 * s) + n < 10000 * (2 * n)
      BY <1>2
    <2>2. \A k \in Nat : \A d \in Nat \ {0} : k < 10000 * d => k \div d # 10000
      BY SMT
    <2>3. QED
      BY <1>2, <2>1, <2>2 DEF Rounded
  <1>3. QED
    BY <1>1, <1>2

\* The report that is made counts what it should.
LEMMA ReportInv ==
  ASSUME CountsInv, Report
  PROVE  CountsInv'
  <1> DEFINE n == Len(results)
             s == Cardinality(Successes(results))
             f == Cardinality(Failures(results))
  <1>1. results \in Seq(Result) /\ results' = results /\ n = Requests
    BY DEF CountsInv, Report
  <1>2. /\ report'.total = n /\ report'.success = s /\ report'.failure = f
        /\ report'.successRate = Rounded(10000 * s, n)
        /\ report'.codes["201"] = Cardinality(WithStatus(results, "201"))
        /\ report'.codes["500"] = Cardinality(WithStatus(results, "500"))
        /\ report'.errors["Timeout"] = Cardinality(WithStatus(results, "Timeout"))
    BY ReportCounts DEF Report, SuccessRate
  <1>3. s \in Nat /\ f \in Nat /\ s + f = n /\ n \in Nat
    BY <1>1, Partition
  <1>4. EveryRequestCounted'
    BY <1>1, <1>2, Partition DEF EveryRequestCounted
  <1> HIDE DEF s, f, n
  <1>5. FullMarksAreEarned'
    <2> SUFFICES ASSUME Requests < 20000
                 PROVE  report'.successRate = 10000 <=> report'.failure = 0
      BY DEF FullMarksAreEarned
    <2>1. n \in Nat /\ 0 < n /\ n < 20000 /\ s \in 0..n
      BY <1>1, <1>3, MeasurementAssumption
    <2>2. Rounded(10000 * s, n) = 10000 <=> s = n
      BY <2>1, FullMarks
    <2>3. f = 0 <=> s = n
      BY <1>3
    <2>4. QED
      BY <1>2, <2>2, <2>3
  <1>6. QED
    BY <1>1, <1>4, <1>5 DEF CountsInv, Report

\* Finishing a request gives it a status.
LEMMA FinishInv ==
  ASSUME CountsInv, NEW i \in Request, Finish(i)
  PROVE  CountsInv'
  <1> PICK status \in Status :
        outcome' = [outcome EXCEPT ![i] = [status |-> status, latency |-> now - sentAt[i]]]
    BY DEF Finish
  <1> DEFINE new == [status |-> status, latency |-> now - sentAt[i]]
  <1>1. now - sentAt[i] \in Int
    BY DEF CountsInv
  <1>2. /\ new \in [status: Status \cup {"none"}, latency: Int]
        /\ new.status \in Status /\ "none" \notin Status
    BY <1>1 DEF Status
  <1>3. outcome' = [outcome EXCEPT ![i] = new]
    OBVIOUS
  <1>4. UNCHANGED <<now, sentAt, results, report>>
    BY DEF Finish
  <1> HIDE DEF new
  <1>5. outcome' \in [Request -> [status: Status \cup {"none"}, latency: Int]]
    BY <1>2, <1>3 DEF CountsInv
  <1>6. \A j \in Request : outcome'[j].status = "none" => outcome'[j] = Pending
    BY <1>2, <1>3 DEF CountsInv
  <1>7. (EveryRequestCounted /\ FullMarksAreEarned)'
    BY <1>4 DEF CountsInv, EveryRequestCounted, FullMarksAreEarned, Done
  <1>8. QED
    BY <1>4, <1>5, <1>6, <1>7 DEF CountsInv

\* Collecting a request appends what came of it.
LEMMA CollectInv ==
  ASSUME CountsInv, NEW i \in Request, Collect(i)
  PROVE  CountsInv'
  <1> DEFINE new == [request |-> i, status |-> outcome[i].status,
                     latency |-> outcome[i].latency]
  <1>1. outcome[i] \in [status: Status \cup {"none"}, latency: Int]
    BY DEF CountsInv
  <1>2. outcome[i].status \in Status /\ outcome[i].latency \in Int
    BY <1>1 DEF CountsInv, Collect
  <1>3. new \in Result
    BY <1>2 DEF Result
  <1>4. results' = Append(results, new) /\ UNCHANGED <<now, sentAt, outcome, report>>
    BY DEF Collect
  <1> HIDE DEF new
  <1>5. results' \in Seq(Result)
    BY <1>3, <1>4 DEF CountsInv
  <1>6. (EveryRequestCounted /\ FullMarksAreEarned)'
    BY <1>4 DEF CountsInv, EveryRequestCounted, FullMarksAreEarned, Done
  <1>7. QED
    BY <1>4, <1>5, <1>6 DEF CountsInv

\* Every step preserves the invariant behind the counts.
LEMMA CountsNext == CountsInv /\ [Next]_vars => CountsInv'
  <1> SUFFICES ASSUME CountsInv, [Next]_vars PROVE CountsInv'
    OBVIOUS
  <1>1. CASE Report
    BY <1>1, ReportInv
  <1>2. CASE \E i \in Request : Finish(i) \/ Collect(i)
    BY <1>2, FinishInv, CollectInv
  <1>3. CASE Tick \/ \E i \in Request : Send(i)
    <2>1. UNCHANGED <<outcome, results, report>>
      BY <1>3 DEF Tick, Send
    <2>2. now' \in Nat /\ sentAt' \in [Request -> Int]
      BY <1>3 DEF Tick, Send, CountsInv
    <2>3. QED
      BY <2>1, <2>2 DEF CountsInv, EveryRequestCounted, FullMarksAreEarned, Done
  <1>4. CASE UNCHANGED <<now, sentAt, outcome, results, report>>
    BY <1>4 DEF CountsInv, EveryRequestCounted, FullMarksAreEarned, Done
  <1>5. QED
    BY <1>1, <1>2, <1>3, <1>4 DEF Next, WarmUp, Start, Reported, vars

\* No report is made before the load.
LEMMA CountsInit == Init => CountsInv
  BY DEF Init, CountsInv, Pending, Status, NoReport, EveryRequestCounted,
    FullMarksAreEarned, Done

\* The counts behind the report are kept right.
THEOREM CountsKept == Spec => []CountsInv
  <1>1. Init => CountsInv
    BY CountsInit
  <1>2. CountsInv /\ [Next]_vars => CountsInv'
    BY CountsNext
  <1>3. QED
    BY <1>1, <1>2, PTL DEF Spec

\* Whatever the order of the answers, every request is counted once.
THEOREM RequestsCounted == Spec => []EveryRequestCounted
  BY CountsKept, PTL DEF CountsInv

\* In a load of less than 20000 requests, 100.0 means that none failed.
THEOREM FullMarksEarned == Spec => []FullMarksAreEarned
  BY CountsKept, PTL DEF CountsInv

-----------------------------------------------------------------------------
\* Counting along a permutation.
LEMMA SameNumber ==
  ASSUME NEW N, IsFiniteSet(N), NEW p, OneToOne(p, N),
         NEW A \in SUBSET N, NEW B \in SUBSET N, \A k \in N : k \in A <=> p[k] \in B
  PROVE  Cardinality(A) = Cardinality(B)
  <1> DEFINE f == [k \in A |-> p[k]]
  <1>1. f \in [A -> B] /\ \A i, j \in A : f[i] = f[j] => i = j
    BY DEF OneToOne
  <1>2. \A c \in B : \E k \in A : f[k] = c
    <2> SUFFICES ASSUME NEW c \in B PROVE \E k \in A : f[k] = c
      OBVIOUS
    <2>1. PICK k \in N : p[k] = c
      BY DEF OneToOne
    <2>2. k \in A /\ f[k] = c
      BY <2>1
    <2>3. QED
      BY <2>2
  <1> HIDE DEF f
  <1>3. f \in Bijection(A, B)
    BY <1>1, <1>2 DEF Bijection, Injection, Surjection, IsInjective
  <1>4. ExistsBijection(A, B) /\ IsFiniteSet(A)
    BY <1>3, FS_Subset DEF ExistsBijection
  <1>5. QED
    BY <1>4, FS_Bijection

\* A one-to-one function into a finite set reaches all of it.
LEMMA InjectiveIsOneToOne ==
  ASSUME NEW N, IsFiniteSet(N), NEW p \in [N -> N], \A i, j \in N : p[i] = p[j] => i = j
  PROVE  OneToOne(p, N)
  <1>1. p \in Injection(N, N)
    BY DEF Injection, IsInjective
  <1>2. p \in Surjection(N, N)
    BY <1>1, FS_Injection
  <1>3. QED
    BY <1>2 DEF Surjection, OneToOne

-----------------------------------------------------------------------------
\* The median is the middle percentile.
LEMMA MedianIsPercentile ==
  ASSUME NEW s \in Seq(Int), s # <<>>
  PROVE  Median(s) = Percentile(s, 50)
  <1> DEFINE n == Len(s)
             half == n \div 2
  <1>1. n \in Nat \ {0}
    OBVIOUS
  <1>2. half \in Nat /\ (n % 2 = 1 => n = 2 * half + 1) /\ (n % 2 # 1 => n = 2 * half /\ half > 0)
    BY <1>1, SMT
  <1>3. Percentile(s, 50) = At(s, (n - 1) * 50)
    BY PercentileAtRank
  <1> HIDE DEF n, half
  <1>4. CASE n % 2 = 1
    <2>1. (n - 1) * 50 = 100 * half
      BY <1>2, <1>4
    <2>2. (100 * half) \div 100 = half /\ 100 * half - 100 * half = 0
      BY <1>2
    <2>3. At(s, 100 * half) = 100 * s[half + 1]
      BY <2>2 DEF At
    <2>4. QED
      BY <1>3, <1>4, <2>1, <2>3 DEF Median, n, half
  <1>5. CASE n % 2 # 1
    <2> DEFINE h == half - 1
    <2>1. h \in Nat /\ (n - 1) * 50 = 100 * h + 50 /\ h + 1 = half /\ h + 2 = half + 1
      BY <1>2, <1>5
    <2> HIDE DEF h
    <2>2. (100 * h + 50) \div 100 = h
      BY <2>1, SMT
    <2>3. At(s, 100 * h + 50) = s[h + 1] * 50 + s[h + 2] * 50
      <3>1. (100 * h + 50) - 100 * h = 50 /\ 100 - 50 = 50
        BY <2>1
      <3>2. QED
        BY <2>2, <3>1 DEF At
    <2>4. s[half] \in Int /\ s[half + 1] \in Int
      BY <1>2, <1>5 DEF n
    <2>5. s[half] * 50 + s[half + 1] * 50 = 50 * (s[half] + s[half + 1])
      BY <2>4
    <2>6. Median(s) = 50 * (s[half] + s[half + 1])
      BY <1>5 DEF Median, n, half
    <2>7. QED
      BY <1>3, <2>1, <2>3, <2>5, <2>6
  <1>6. QED
    BY <1>4, <1>5

\* A rounded quotient stays between whole bounds of the quotient.
LEMMA RoundedBetween ==
  ASSUME NEW n \in Nat \ {0}, NEW x \in Int, NEW lo \in Int, NEW hi \in Int,
         lo * n <= x, x <= hi * n
  PROVE  lo <= Rounded(x, n) /\ Rounded(x, n) <= hi
  <1> DEFINE d == 2 * n
             y == 2 * x + n
             q == y \div d
  <1>1. d \in Nat \ {0} /\ y \in Int
    OBVIOUS
  <1>2. q \in Int /\ q * d <= y /\ y < q * d + d
    <2> HIDE DEF d, y
    <2>1. QED
      BY <1>1, SMT
  <1>3. lo * d = 2 * (lo * n) /\ hi * d = 2 * (hi * n) /\ lo * n \in Int /\ hi * n \in Int
    OBVIOUS
  <1>4. lo * d <= y /\ y < hi * d + d
    BY <1>3
  <1>5. Rounded(x, n) = q
    BY DEF Rounded
  <1> HIDE DEF d, y, q
  <1>6. \A a, b \in Int : a * d < b * d + d => a <= b
    <2> SUFFICES ASSUME NEW a \in Int, NEW b \in Int, b < a PROVE b * d + d <= a * d
      <3>1. \A a, b \in Int : a * d \in Int /\ b * d \in Int
        BY <1>1
      <3>2. QED
        BY <1>1, <3>1
    <2>1. PICK c \in Nat : a = b + 1 + c
      <3>1. a - b - 1 \in Nat /\ a = b + 1 + (a - b - 1)
        OBVIOUS
      <3>2. QED
        BY <3>1
    <2>2. a * d = b * d + d + c * d /\ c * d \in Nat /\ b * d \in Int
      BY <1>1, <2>1
    <2>3. QED
      BY <1>1, <2>2
  <1>7. q * d \in Int /\ lo * d \in Int /\ hi * d \in Int
    BY <1>1, <1>2
  <1>8. lo * d < q * d + d /\ q * d < hi * d + d
    BY <1>1, <1>2, <1>4, <1>7
  <1>9. QED
    BY <1>2, <1>5, <1>6, <1>8

-----------------------------------------------------------------------------
\* There are finitely many requests.
LEMMA RequestsFinite ==
  IsFiniteSet(Request) /\ Cardinality(Request) = Requests /\ Requests \in Nat \ {0}
  <1>1. Requests \in Nat \ {0} /\ Requests \in Int /\ 1 \in Int
    BY MeasurementAssumption
  <1>2. /\ IsFiniteSet(1..Requests)
        /\ Cardinality(1..Requests) = IF 1 > Requests THEN 0 ELSE Requests - 1 + 1
    BY <1>1, FS_Interval
  <1>3. QED
    BY <1>1, <1>2 DEF Request

\* What the results say of the order in which requests end.
Ended == [k \in DOMAIN results |-> results[k].request]

\* When there is a result of every request, it is a permutation of them.
LEMMA AllEnded ==
  ASSUME CountsInv, ResultsInv, Len(results) = Requests
  PROVE  /\ DOMAIN results = Request /\ OneToOne(Ended, Request)
         /\ \A k \in Request :
              /\ results[k].status = outcome[Ended[k]].status
              /\ results[k].latency = outcome[Ended[k]].latency
         /\ \A i \in Request : outcome[i] # Pending /\ i \in Collected
  <1>1. DOMAIN results = Request
    BY DEF CountsInv, Request
  <1>2. \A k \in Request : results[k] \in Result
    BY <1>1 DEF CountsInv
  <1>3. Ended \in [Request -> Request]
    BY <1>1, <1>2 DEF Ended, Result
  <1>4. \A j, k \in Request : Ended[j] = Ended[k] => j = k
    BY <1>1 DEF Ended, ResultsInv
  <1>5. OneToOne(Ended, Request)
    BY <1>3, <1>4, RequestsFinite, InjectiveIsOneToOne
  <1>6. \A k \in Request :
          /\ results[k].status = outcome[Ended[k]].status
          /\ results[k].latency = outcome[Ended[k]].latency
          /\ outcome[Ended[k]] # Pending
    BY <1>1 DEF Ended, ResultsInv
  <1>7. \A i \in Request : outcome[i] # Pending /\ i \in Collected
    <2> SUFFICES ASSUME NEW i \in Request PROVE outcome[i] # Pending /\ i \in Collected
      OBVIOUS
    <2>1. PICK k \in Request : Ended[k] = i
      BY <1>5 DEF OneToOne
    <2>2. QED
      BY <1>1, <1>6, <2>1 DEF Collected, Ended
  <1>8. QED
    BY <1>1, <1>5, <1>6, <1>7

\* The time spent on a request is a number, and not less than its latency.
LEMMA SpentType ==
  ASSUME CountsInv, ClocksInv
  PROVE  /\ Spending \in [Request -> Int]
         /\ [i \in Request |-> outcome[i].latency] \in [Request -> Int]
         /\ \A i \in Request : outcome[i].latency <= Spending[i]
  <1>1. \A i \in Request : outcome[i].latency \in Int /\ Spent(i) \in Int
    BY DEF CountsInv, Spent
  <1>2. \A i \in Request : outcome[i].latency <= Spent(i)
    <2> SUFFICES ASSUME NEW i \in Request PROVE outcome[i].latency <= Spent(i)
      OBVIOUS
    <2>1. CASE outcome[i] # Pending
      BY <1>1, <2>1 DEF Spent
    <2>2. CASE outcome[i] = Pending
      <3>1. outcome[i].latency = 0
        BY <2>2 DEF Pending
      <3>2. 0 <= Spent(i)
        BY <2>2 DEF Spent, ClocksInv, CountsInv
      <3>3. QED
        BY <3>1, <3>2
    <2>3. QED
      BY <2>1, <2>2
  <1>3. QED
    BY <1>1, <1>2 DEF Spending

-----------------------------------------------------------------------------
\* A tick of the clock is spent by the workers that are busy, at most.
LEMMA TickClocks ==
  ASSUME MeasurementInv, Tick
  PROVE  ClocksInv'
  <1>1. now' = now + 1 /\ UNCHANGED <<started, sentAt, outcome>> /\ now \in Nat
    BY DEF Tick, MeasurementInv, CountsInv
  <1>2. InFlight' = InFlight /\ InFlight \in SUBSET Request
    BY <1>1 DEF InFlight
  <1>3. \A i \in Request : Spent(i)' = Spent(i) + (IF i \in InFlight THEN 1 ELSE 0)
    <2> SUFFICES ASSUME NEW i \in Request
                 PROVE  Spent(i)' = Spent(i) + (IF i \in InFlight THEN 1 ELSE 0)
      OBVIOUS
    <2>1. sentAt[i] \in Int /\ outcome[i].latency \in Int
      BY DEF MeasurementInv, CountsInv
    <2>2. QED
      BY <1>1, <2>1 DEF Spent, InFlight
  <1>4. Spending \in [Request -> Int] /\ \A i \in Request : Spent(i) \in Int
    BY SpentType DEF MeasurementInv, Spending
  <1>5. Spending' \in [Request -> Int]
    BY <1>3, <1>4 DEF Spending
  <1>6. \A i \in Request : Spending'[i] <= Spending[i] + (IF i \in InFlight THEN 1 ELSE 0)
    BY <1>3, <1>4 DEF Spending
  <1>7. SumFunction(Spending') <= SumFunction(Spending) + Cardinality(InFlight)
    BY <1>2, <1>4, <1>5, <1>6, RequestsFinite, SumGrows
  <1>8. SumFunction(Spending) \in Int /\ SumFunction(Spending') \in Int
    BY <1>4, <1>5, RequestsFinite, SumType
  <1>9. Cardinality(InFlight) \in Nat
    BY <1>2, RequestsFinite, FS_Subset, FS_CardinalityType
  <1>10. SumFunction(Spending') <= Concurrency * (now' - started')
    <2>1. Concurrency \in Nat /\ started \in Int
      BY MeasurementAssumption DEF MeasurementInv, ClocksInv
    <2>2. /\ Concurrency * (now + 1 - started) = Concurrency * (now - started) + Concurrency
          /\ Concurrency * (now - started) \in Int
      BY <1>1, <2>1
    <2>3. /\ Cardinality(InFlight) <= Concurrency
          /\ SumFunction(Spending) <= Concurrency * (now - started)
      BY DEF MeasurementInv, ClocksInv
    <2>4. QED
      BY <1>1, <1>7, <1>8, <1>9, <2>1, <2>2, <2>3
  <1>11. QED
    BY <1>1, <1>2, <1>10 DEF MeasurementInv, CountsInv, ClocksInv

\* Before the load nothing has been spent.
LEMMA StartClocks ==
  ASSUME MeasurementInv, Start
  PROVE  ClocksInv'
  <1>1. /\ started = -1 /\ started' = now /\ UNCHANGED <<now, sentAt, outcome>>
        /\ now \in Nat
    BY DEF Start, MeasurementInv, CountsInv
  <1>2. \A i \in Request : sentAt[i] = -1 /\ outcome[i] = Pending
    BY <1>1 DEF MeasurementInv, ClocksInv
  <1>3. \A i \in Request : Spent(i)' = 0
    BY <1>1, <1>2 DEF Spent
  <1>4. Spending' \in [Request -> Int] /\ \A i \in Request : Spending'[i] = 0
    BY <1>3 DEF Spending
  <1>5. SumFunction(Spending') <= 0 * Cardinality(Request)
    BY <1>4, RequestsFinite, SumBetween
  <1>6. SumFunction(Spending') <= Concurrency * (now' - started')
    BY <1>1, <1>5, RequestsFinite, MeasurementAssumption
  <1>7. InFlight' = InFlight
    BY <1>1 DEF InFlight
  <1>8. QED
    BY <1>1, <1>2, <1>6, <1>7 DEF MeasurementInv, ClocksInv

\* A worker that takes a request has spent nothing on it yet.
LEMMA SendClocks ==
  ASSUME MeasurementInv, NEW i \in Request, Send(i)
  PROVE  ClocksInv'
  <1>1. /\ 0 <= started /\ sentAt[i] = -1 /\ Cardinality(InFlight) < Concurrency
        /\ sentAt' = [sentAt EXCEPT ![i] = now]
        /\ UNCHANGED <<now, started, outcome>>
    BY DEF Send
  <1>2. /\ now \in Nat /\ started \in Int /\ sentAt \in [Request -> Int]
        /\ outcome[i] = Pending
    BY <1>1 DEF MeasurementInv, CountsInv, ClocksInv
  <1>3. \A j \in Request : Spent(j)' = Spent(j)
    BY <1>1, <1>2 DEF Spent
  <1>4. Spending' = Spending
    BY <1>3 DEF Spending
  <1>5. Cardinality(InFlight') <= Concurrency
    <2>1. InFlight' \subseteq InFlight \cup {i} /\ InFlight \in SUBSET Request
      BY <1>1, <1>2 DEF InFlight
    <2>2. IsFiniteSet(InFlight) /\ Cardinality(InFlight) \in Nat
      BY <2>1, RequestsFinite, FS_Subset, FS_CardinalityType
    <2>3. /\ IsFiniteSet(InFlight \cup {i})
          /\ Cardinality(InFlight \cup {i}) <= Cardinality(InFlight) + 1
          /\ Cardinality(InFlight \cup {i}) \in Nat
      BY <2>2, FS_AddElement, FS_CardinalityType
    <2>4. Cardinality(InFlight') <= Cardinality(InFlight \cup {i}) /\ IsFiniteSet(InFlight')
      BY <2>1, <2>3, FS_Subset
    <2>5. Cardinality(InFlight') \in Nat
      BY <2>4, FS_CardinalityType
    <2>6. QED
      BY <1>1, <2>2, <2>3, <2>4, <2>5, MeasurementAssumption
  <1>6. \A j \in Request :
          /\ sentAt'[j] = -1 \/ (0 <= started /\ started <= sentAt'[j] /\ sentAt'[j] <= now)
          /\ outcome[j] # Pending => 0 <= sentAt'[j] /\ 0 <= outcome[j].latency
    BY <1>1, <1>2 DEF MeasurementInv, ClocksInv
  <1>7. QED
    BY <1>1, <1>4, <1>5, <1>6 DEF MeasurementInv, ClocksInv

\* The latency of a request is the time spent on it when it ends.
LEMMA FinishClocks ==
  ASSUME MeasurementInv, NEW i \in Request, Finish(i)
  PROVE  ClocksInv'
  <1>1. PICK status \in Status :
          outcome' = [outcome EXCEPT ![i] = [status |-> status, latency |-> now - sentAt[i]]]
    BY DEF Finish
  <1> DEFINE new == [status |-> status, latency |-> now - sentAt[i]]
  <1>2. /\ sentAt[i] >= 0 /\ outcome[i] = Pending /\ UNCHANGED <<now, started, sentAt>>
    BY DEF Finish, InFlight
  <1>3. /\ now \in Nat /\ started \in Int /\ sentAt[i] \in Int /\ sentAt[i] <= now
        /\ DOMAIN outcome = Request
    BY <1>2 DEF MeasurementInv, CountsInv, ClocksInv
  <1>4. new # Pending /\ new.latency = now - sentAt[i] /\ 0 <= new.latency
    <2>1. new.status # Pending.status
      BY DEF Status, Pending
    <2>2. QED
      BY <1>2, <1>3, <2>1
  <1>5. outcome'[i] = new /\ \A j \in Request \ {i} : outcome'[j] = outcome[j]
    BY <1>1, <1>3
  <1> HIDE DEF new
  <1>6. \A j \in Request : Spent(j)' = Spent(j)
    <2> SUFFICES ASSUME NEW j \in Request PROVE Spent(j)' = Spent(j)
      OBVIOUS
    <2>1. CASE j = i
      BY <1>2, <1>4, <1>5, <2>1 DEF Spent
    <2>2. CASE j # i
      BY <1>2, <1>5, <2>2 DEF Spent
    <2>3. QED
      BY <2>1, <2>2
  <1>7. Spending' = Spending
    BY <1>6 DEF Spending
  <1>8. Cardinality(InFlight') <= Concurrency
    <2>1. InFlight' \subseteq InFlight /\ InFlight \in SUBSET Request
      BY <1>2, <1>4, <1>5 DEF InFlight
    <2>2. IsFiniteSet(InFlight) /\ Cardinality(InFlight) \in Nat
      BY <2>1, RequestsFinite, FS_Subset, FS_CardinalityType
    <2>3. /\ IsFiniteSet(InFlight') /\ Cardinality(InFlight') <= Cardinality(InFlight)
      BY <2>1, <2>2, FS_Subset
    <2>4. Cardinality(InFlight') \in Nat /\ Cardinality(InFlight) <= Concurrency
      BY <2>3, FS_CardinalityType DEF MeasurementInv, ClocksInv
    <2>5. QED
      BY <2>2, <2>3, <2>4, MeasurementAssumption
  <1>9. \A j \in Request :
          outcome'[j] # Pending => 0 <= sentAt[j] /\ 0 <= outcome'[j].latency
    BY <1>2, <1>4, <1>5 DEF MeasurementInv, ClocksInv
  <1>10. QED
    BY <1>2, <1>7, <1>8, <1>9 DEF MeasurementInv, ClocksInv

\* Nothing else touches the clocks.
LEMMA AsideClocks ==
  ASSUME MeasurementInv, UNCHANGED <<now, started, sentAt, outcome>>
  PROVE  ClocksInv'
  <1>1. InFlight' = InFlight /\ \A i \in Request : Spent(i)' = Spent(i)
    BY DEF InFlight, Spent
  <1>2. Spending' = Spending
    BY <1>1 DEF Spending
  <1>3. QED
    BY <1>1, <1>2 DEF MeasurementInv, ClocksInv

-----------------------------------------------------------------------------
\* A report is only made, and only stands, when the load is over.
LEMMA ReportStands ==
  ASSUME MeasurementInv, Done
  PROVE  /\ Len(results) = Requests /\ 0 <= started
         /\ \A i \in Request : i \in Collected /\ i \notin InFlight
  <1>1. Len(results) = Requests
    BY DEF MeasurementInv, ResultsInv
  <1>2. \A i \in Request : outcome[i] # Pending /\ i \in Collected
    BY <1>1, AllEnded DEF MeasurementInv
  <1>3. 1 \in Request
    BY MeasurementAssumption DEF Request
  <1>4. 0 <= started
    <2>1. 0 <= sentAt[1]
      BY <1>2, <1>3 DEF MeasurementInv, ClocksInv
    <2>2. sentAt[1] # -1
      BY <2>1
    <2>3. QED
      BY <1>3, <2>2 DEF MeasurementInv, ClocksInv
  <1>5. QED
    BY <1>1, <1>2, <1>4 DEF InFlight

\* The report keeps being the report of these results.
LEMMA ResultsNext ==
  ASSUME MeasurementInv, [Next]_vars
  PROVE  ResultsInv'
  <1> USE DEF MeasurementInv
  <1>0. /\ DOMAIN results = 1..Len(results) /\ Len(results) \in Nat
        /\ \A k \in DOMAIN results : results[k].request \in Request
    <2>1. results \in Seq(Result)
      BY DEF CountsInv
    <2>2. \A k \in DOMAIN results : results[k] \in Result
      BY <2>1
    <2>3. QED
      BY <2>1, <2>2 DEF Result
  <1>1. CASE Tick
    BY <1>1 DEF Tick, ResultsInv, Done
  <1>2. CASE Start
    <2>1. ~ Done
      <3>1. started = -1
        BY <1>2 DEF Start
      <3>2. QED
        BY <3>1, ReportStands
    <2>2. QED
      BY <1>2, <2>1 DEF Start, ResultsInv, Done
  <1>3. CASE Report
    BY <1>3 DEF Report, ResultsInv, Done
  <1>4. ASSUME NEW i \in Request, Finish(i) PROVE ResultsInv'
    <2>1. outcome[i] = Pending /\ \A j \in Request : outcome[j] # Pending => outcome'[j] = outcome[j]
      BY <1>4 DEF Finish, InFlight, CountsInv
    <2>2. UNCHANGED <<now, started, results, report>>
      BY <1>4 DEF Finish
    <2>3. QED
      BY <1>0, <2>1, <2>2 DEF ResultsInv, Done
  <1>5. ASSUME NEW i \in Request, Collect(i) PROVE ResultsInv'
    <2> DEFINE new == [request |-> i, status |-> outcome[i].status,
                       latency |-> outcome[i].latency]
               n == Len(results)
    <2>1. /\ results' = Append(results, new) /\ UNCHANGED <<now, started, outcome, report>>
          /\ outcome[i] # Pending /\ i \notin Collected
      BY <1>5 DEF Collect
    <2>2. ~ Done
      BY <2>1, ReportStands
    <2>3. /\ DOMAIN results' = 1..(n + 1) /\ results'[n + 1] = new
          /\ \A k \in 1..n : results'[k] = results[k]
      <3>1. results \in Seq(Result) /\ new \in Result
        <4>1. outcome[i] \in [status: Status \cup {"none"}, latency: Int]
          BY DEF CountsInv
        <4>2. outcome[i].status \in Status /\ outcome[i].latency \in Int
          BY <2>1, <4>1 DEF CountsInv
        <4>3. QED
          BY <4>2 DEF CountsInv, Result
      <3> HIDE DEF new
      <3>2. QED
        BY <2>1, <3>1
    <2>4. new.request = i /\ new.status = outcome[i].status /\ new.latency = outcome[i].latency
      OBVIOUS
    <2>5. \A k \in 1..n : results[k].request # i
      BY <1>0, <2>1 DEF Collected
    <2> HIDE DEF new, n
    <2>6. \A k \in DOMAIN results' : k = n + 1 \/ k \in 1..n
      BY <1>0, <2>3 DEF n
    <2>7. QED
      BY <1>0, <2>1, <2>2, <2>3, <2>4, <2>5, <2>6 DEF ResultsInv, Done, n
  <1>6. CASE UNCHANGED <<now, started, outcome, results, report>>
    BY <1>6 DEF ResultsInv, Done
  <1>7. QED
    BY <1>1, <1>2, <1>3, <1>4, <1>5, <1>6 DEF Next, WarmUp, Send, Reported, vars

\* Every step preserves the invariant.
LEMMA MeasurementNext == MeasurementInv /\ [Next]_vars => MeasurementInv'
  <1> SUFFICES ASSUME MeasurementInv, [Next]_vars PROVE MeasurementInv'
    OBVIOUS
  <1>1. CountsInv'
    BY CountsNext DEF MeasurementInv
  <1>2. ResultsInv'
    BY ResultsNext
  <1>3. ClocksInv'
    <2>1. CASE UNCHANGED <<now, started, sentAt, outcome>>
      BY <2>1, AsideClocks
    <2>2. QED
      BY <2>1, TickClocks, StartClocks, SendClocks, FinishClocks
      DEF Next, WarmUp, Collect, Report, Reported, vars
  <1>4. QED
    BY <1>1, <1>2, <1>3 DEF MeasurementInv

\* It holds before the load.
LEMMA MeasurementInit == Init => MeasurementInv
  <1> SUFFICES ASSUME Init PROVE MeasurementInv
    OBVIOUS
  <1>1. CountsInv
    BY CountsInit
  <1>2. ResultsInv
    BY DEF Init, ResultsInv, Done
  <1>3. InFlight = {} /\ \A i \in Request : Spent(i) = 0
    BY DEF Init, InFlight, Spent
  <1>4. Spending \in [Request -> Int] /\ \A i \in Request : Spending[i] = 0
    BY <1>3 DEF Spending
  <1>5. SumFunction(Spending) <= 0 * Cardinality(Request) /\ SumFunction(Spending) \in Int
    BY <1>4, RequestsFinite, SumBetween, SumType
  <1>6. SumFunction(Spending) <= Concurrency * (now - started)
    BY <1>5, RequestsFinite, MeasurementAssumption DEF Init
  <1>7. Cardinality(InFlight) <= Concurrency
    BY <1>3, FS_EmptySet, MeasurementAssumption
  <1>8. ClocksInv
    BY <1>6, <1>7 DEF Init, ClocksInv
  <1>9. QED
    BY <1>1, <1>2, <1>8 DEF MeasurementInv

\* The invariant behind the figures holds throughout.
THEOREM MeasurementKept == Spec => []MeasurementInv
  <1>1. MeasurementInv /\ UNCHANGED vars => MeasurementInv'
    BY MeasurementNext
  <1>2. QED
    BY MeasurementInit, MeasurementNext, PTL DEF Spec

-----------------------------------------------------------------------------
\* With the times of all workers together, latencies stay below the wall time.
LEMMA LatenciesFit ==
  ASSUME MeasurementInv
  PROVE  LittlesLaw
  <1> SUFFICES ASSUME Done
               PROVE  SumFunction([i \in Request |-> outcome[i].latency])
                        <= Concurrency * report.wall
    BY DEF LittlesLaw
  <1> DEFINE latency == [i \in Request |-> outcome[i].latency]
  <1>1. report.wall = now - started
    BY DEF MeasurementInv, ResultsInv, BuildReport
  <1>2. /\ Spending \in [Request -> Int] /\ latency \in [Request -> Int]
        /\ \A i \in Request : latency[i] <= Spending[i]
    BY SpentType DEF MeasurementInv
  <1> HIDE DEF latency
  <1>3. SumFunction(latency) <= SumFunction(Spending) + Cardinality({})
    <2>1. \A i \in Request : latency[i] <= Spending[i] + (IF i \in {} THEN 1 ELSE 0)
      BY <1>2
    <2>2. {} \in SUBSET Request
      OBVIOUS
    <2>3. QED
      BY <1>2, <2>1, <2>2, RequestsFinite, SumGrows
  <1>4. SumFunction(latency) \in Int /\ SumFunction(Spending) \in Int
    BY <1>2, RequestsFinite, SumType
  <1>5. SumFunction(latency) <= SumFunction(Spending)
    BY <1>3, <1>4, FS_EmptySet
  <1>6. /\ SumFunction(Spending) <= Concurrency * (now - started)
        /\ Concurrency * (now - started) \in Int
    BY MeasurementAssumption DEF MeasurementInv, ClocksInv, CountsInv
  <1> HIDE DEF MeasurementInv
  <1>7. QED
    BY <1>1, <1>4, <1>5, <1>6 DEF latency

\* The latencies of all requests, sorted.
LEMMA SortedLatencies ==
  ASSUME MeasurementInv, Done
  PROVE  /\ Latencies(results) \in [Request -> Nat] /\ Len(Latencies(results)) = Requests
         /\ Ascending(Latencies(results))
         /\ Latencies(results) = Latencies(outcome)
  <1> DEFINE s == [i \in Request |-> outcome[i].latency]
             t == [k \in Request |-> results[k].latency]
  <1>1. Len(results) = Requests
    BY DEF MeasurementInv, ResultsInv
  <1>2. /\ DOMAIN results = Request /\ OneToOne(Ended, Request)
        /\ \A k \in Request : results[k].latency = outcome[Ended[k]].latency
        /\ \A i \in Request : outcome[i] # Pending
    BY <1>1, AllEnded DEF MeasurementInv
  <1>3. DOMAIN outcome = Request
    BY DEF MeasurementInv, CountsInv
  <1>4. s \in [Request -> Nat]
    <2>1. \A i \in Request : outcome[i].latency \in Int /\ 0 <= outcome[i].latency
      BY <1>2 DEF MeasurementInv, CountsInv, ClocksInv
    <2>2. QED
      BY <2>1
  <1>5. t \in [Request -> Nat] /\ \A k \in Request : t[k] = s[Ended[k]]
    <2>1. \A k \in Request : Ended[k] \in Request
      BY <1>2 DEF OneToOne
    <2>2. \A k \in Request : t[k] = s[Ended[k]] /\ s[Ended[k]] \in Nat
      BY <1>2, <1>4, <2>1
    <2>3. QED
      BY <2>2
  <1>6. Latencies(results) = Sorted(t) /\ Latencies(outcome) = Sorted(s)
    BY <1>2, <1>3 DEF Latencies
  <1> HIDE DEF s, t
  <1>7. Requests \in Nat
    BY MeasurementAssumption
  <1>8. Sorted(t) = Sorted(s)
    <2>1. Reorders(t, s, Ended, Requests)
      BY <1>2, <1>4, <1>5 DEF Request, Reorders
    <2>2. QED
      BY <1>7, <2>1, SortSame
  <1>9. Sorted(t) \in [Request -> Nat] /\ Len(Sorted(t)) = Requests
    BY <1>5, <1>7, SortMoves DEF Request
  <1>10. Ascending(Sorted(t))
    BY <1>5, <1>7, SortExists DEF Request
  <1>11. QED
    BY <1>6, <1>8, <1>9, <1>10

\* Whatever the order of the results, the report is the same.
LEMMA SameReport ==
  ASSUME MeasurementInv
  PROVE  OrderIrrelevant
  <1> SUFFICES ASSUME Done PROVE report = BuildReport(outcome, report.wall)
    BY DEF OrderIrrelevant
  <1>1. Len(results) = Requests /\ report = BuildReport(results, now - started)
    BY DEF MeasurementInv, ResultsInv
  <1>2. /\ DOMAIN results = Request /\ OneToOne(Ended, Request)
        /\ \A k \in Request : results[k].status = outcome[Ended[k]].status
    BY <1>1, AllEnded DEF MeasurementInv
  <1>3. DOMAIN outcome = Request /\ Len(outcome) = Requests
    BY MeasurementAssumption DEF MeasurementInv, CountsInv, Request
  <1>4. Latencies(results) = Latencies(outcome)
    BY SortedLatencies
  <1>5. /\ Cardinality(Successes(results)) = Cardinality(Successes(outcome))
        /\ Cardinality(Failures(results)) = Cardinality(Failures(outcome))
        /\ \A c : Cardinality(WithStatus(results, c)) = Cardinality(WithStatus(outcome, c))
    <2>1. \A k \in Request : Ended[k] \in Request
      BY <1>2 DEF OneToOne
    <2>2. Cardinality(Successes(results)) = Cardinality(Successes(outcome))
      <3>1. /\ Successes(results) \in SUBSET Request /\ Successes(outcome) \in SUBSET Request
            /\ \A k \in Request : k \in Successes(results) <=> Ended[k] \in Successes(outcome)
        BY <1>2, <1>3, <2>1 DEF Successes
      <3>2. QED
        BY <1>2, <3>1, RequestsFinite, SameNumber
    <2>3. Cardinality(Failures(results)) = Cardinality(Failures(outcome))
      <3>1. /\ Failures(results) \in SUBSET Request /\ Failures(outcome) \in SUBSET Request
            /\ \A k \in Request : k \in Failures(results) <=> Ended[k] \in Failures(outcome)
        BY <1>2, <1>3, <2>1 DEF Failures
      <3>2. QED
        BY <1>2, <3>1, RequestsFinite, SameNumber
    <2>4. ASSUME NEW c
          PROVE  Cardinality(WithStatus(results, c)) = Cardinality(WithStatus(outcome, c))
      <3>1. /\ WithStatus(results, c) \in SUBSET Request
            /\ WithStatus(outcome, c) \in SUBSET Request
            /\ \A k \in Request : k \in WithStatus(results, c) <=> Ended[k] \in WithStatus(outcome, c)
        BY <1>2, <1>3, <2>1 DEF WithStatus
      <3>2. QED
        BY <1>2, <3>1, RequestsFinite, SameNumber
    <2>5. QED
      BY <2>2, <2>3, <2>4
  <1>6. SuccessRate(results) = SuccessRate(outcome)
    BY <1>1, <1>3, <1>5 DEF SuccessRate
  <1> DEFINE wall == now - started
  <1>7. /\ [c \in Status \ Exceptions |-> Cardinality(WithStatus(results, c))] =
             [c \in Status \ Exceptions |-> Cardinality(WithStatus(outcome, c))]
        /\ [c \in Exceptions |-> Cardinality(WithStatus(results, c))] =
             [c \in Exceptions |-> Cardinality(WithStatus(outcome, c))]
    BY <1>5
  <1> HIDE DEF wall
  <1>8. BuildReport(results, wall) = BuildReport(outcome, wall)
    BY <1>1, <1>3, <1>4, <1>5, <1>6, <1>7 DEF BuildReport
  <1>9. report.wall = wall
    BY <1>1 DEF BuildReport, wall
  <1>10. QED
    BY <1>1, <1>8, <1>9 DEF wall

\* The figures of a report are in their order.
LEMMA FiguresOrdered ==
  ASSUME MeasurementInv
  PROVE  LatenciesOrdered
  <1> SUFFICES ASSUME Done
               PROVE  /\ report.min <= report.median /\ report.median <= report.p90
                      /\ report.p90 <= report.p95 /\ report.p95 <= report.p99
                      /\ report.p99 <= report.max
                      /\ report.min <= report.avg /\ report.avg <= report.max
    BY DEF LatenciesOrdered
  <1> DEFINE l == Latencies(results)
             n == Requests
  <1>1. Len(results) = n /\ report = BuildReport(results, now - started)
    BY DEF MeasurementInv, ResultsInv
  <1>2. l \in [1..n -> Nat] /\ Len(l) = n /\ Ascending(l)
    BY SortedLatencies DEF Request
  <1>3. n \in Nat \ {0}
    BY MeasurementAssumption
  <1>4. /\ report.min = 100 * l[1] /\ report.max = 100 * l[n]
        /\ report.avg = Rounded(100 * SumFunction(l), n) /\ report.median = Median(l)
        /\ report.p90 = Percentile(l, 90) /\ report.p95 = Percentile(l, 95)
        /\ report.p99 = Percentile(l, 99)
    BY <1>1 DEF BuildReport
  <1> HIDE DEF l, n
  <1>5. l \in Seq(Int) /\ l # <<>> /\ l \in [1..n -> Int]
    BY <1>2, <1>3
  <1>6. Median(l) = Percentile(l, 50)
    BY <1>5, MedianIsPercentile
  <1>7. /\ 100 * l[1] <= Percentile(l, 50) /\ Percentile(l, 50) <= Percentile(l, 90)
        /\ Percentile(l, 90) <= Percentile(l, 95) /\ Percentile(l, 95) <= Percentile(l, 99)
        /\ Percentile(l, 99) <= 100 * l[n]
    <2> DEFINE P == [p \in 0..100 |-> Percentile(l, p)]
    <2>1. /\ P[50] = Percentile(l, 50) /\ P[90] = Percentile(l, 90)
          /\ P[95] = Percentile(l, 95) /\ P[99] = Percentile(l, 99)
      OBVIOUS
    <2> DEFINE lo == 100 * l[1]
               hi == 100 * l[n]
    <2>2. \A p, q \in 0..100 : p <= q => lo <= P[p] /\ P[p] <= P[q] /\ P[q] <= hi
      BY <1>2, <1>5, PercentilesOrdered
    <2>3. 50 \in 0..100 /\ 90 \in 0..100 /\ 95 \in 0..100 /\ 99 \in 0..100
      OBVIOUS
    <2> HIDE DEF P, lo, hi
    <2>4. 50 <= 90 /\ 90 <= 95 /\ 95 <= 99
      OBVIOUS
    <2>5. lo <= P[50] /\ P[50] <= P[90] /\ P[90] <= P[95] /\ P[95] <= P[99] /\ P[99] <= hi
      <3>1. lo <= P[50] /\ P[50] <= P[90]
        BY <2>2, <2>3, <2>4, ZenonT(40)
      <3>2. P[90] <= P[95]
        BY <2>2, <2>3, <2>4, ZenonT(40)
      <3>3. P[95] <= P[99]
        BY <2>2, <2>3, <2>4, ZenonT(40)
      <3>4. P[99] <= hi
        BY <2>2, <2>3, <2>4, ZenonT(40)
      <3>5. QED
        BY <3>1, <3>2, <3>3, <3>4
    <2>6. QED
      BY <2>1, <2>5 DEF lo, hi
  <1>8. /\ l[1] \in Int /\ l[n] \in Int
        /\ \A i \in 1..n : l[1] <= l[i] /\ l[i] <= l[n]
    BY <1>2, <1>3, <1>5 DEF Ascending
  <1>9. IsFiniteSet(1..n) /\ Cardinality(1..n) = n
    BY RequestsFinite DEF Request, n
  <1>10. l[1] * n <= SumFunction(l) /\ SumFunction(l) <= l[n] * n /\ SumFunction(l) \in Int
    BY <1>5, <1>8, <1>9, SumBetween, SumType
  <1>11. (100 * l[1]) * n <= 100 * SumFunction(l) /\ 100 * SumFunction(l) <= (100 * l[n]) * n
    <2> DEFINE a == l[1] * n
               b == l[n] * n
    <2>1. (100 * l[1]) * n = 100 * a /\ (100 * l[n]) * n = 100 * b /\ a \in Int /\ b \in Int
      BY <1>3, <1>8
    <2>2. a <= SumFunction(l) /\ SumFunction(l) <= b
      BY <1>10
    <2> HIDE DEF a, b
    <2>3. QED
      BY <1>10, <2>1, <2>2
  <1>12. 100 * l[1] <= Rounded(100 * SumFunction(l), n) /\ Rounded(100 * SumFunction(l), n) <= 100 * l[n]
    <2> DEFINE lo == 100 * l[1]
               hi == 100 * l[n]
               x == 100 * SumFunction(l)
    <2>1. lo \in Int /\ hi \in Int /\ x \in Int
      BY <1>8, <1>10
    <2>2. lo * n <= x /\ x <= hi * n
      BY <1>11
    <2> HIDE DEF lo, hi, x
    <2>3. lo <= Rounded(x, n) /\ Rounded(x, n) <= hi
      BY <1>3, <2>1, <2>2, RoundedBetween
    <2>4. QED
      BY <2>3 DEF lo, hi, x
  <1>13. QED
    BY <1>4, <1>6, <1>7, <1>12

\* The order in which the answers come does not show in the report.
THEOREM OrderDoesNotShow == Spec => []OrderIrrelevant
  BY MeasurementKept, SameReport, PTL

\* The latencies of a report are in the order a reader expects.
THEOREM LatenciesInOrder == Spec => []LatenciesOrdered
  BY MeasurementKept, FiguresOrdered, PTL

\* Latencies do not contain the time a request waits for a worker.
THEOREM LittlesLawHolds == Spec => []LittlesLaw
  BY MeasurementKept, LatenciesFit, PTL
=============================================================================
