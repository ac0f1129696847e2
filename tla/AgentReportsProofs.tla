-------------------------- MODULE AgentReportsProofs --------------------------
(***************************************************************************)
(* What the pages of the market and the reports of the agents say, for     *)
(* every database, universe, portfolio and number of stocks.               *)
(*                                                                         *)
(*  PagesAreOneStory   the ranking, a stock's page and the movers agree,   *)
(*                     and a ranking explains its own scores               *)
(*  ReportsAreBacked   the guardrails of a portfolio agree with each other *)
(*                     and an analysis follows its ranking                 *)
(*                                                                         *)
(* The arithmetic of fractions, sums and roundings is that of              *)
(* BacktestProofs.                                                         *)
(***************************************************************************)
EXTENDS AgentReports, BacktestProofs

-----------------------------------------------------------------------------
(* A set sorted by an order *)

\* How many elements come before one.
Placed(D, R, x) == Cardinality({y \in D : <<y, x>> \in R})

\* In a row, the numbers from 0 on are taken, each by one element, in the order of the row.
LEMMA PlacesAre ==
  ASSUME NEW D, IsFiniteSet(D), NEW R, InARow(D, R)
  PROVE  /\ \A x \in D : Placed(D, R, x) \in Nat /\ Placed(D, R, x) < Cardinality(D)
         /\ \A x, y \in D : <<y, x>> \in R <=> Placed(D, R, y) < Placed(D, R, x)
         /\ \A x, y \in D : Placed(D, R, x) = Placed(D, R, y) => x = y
         /\ \A k \in 1 .. Cardinality(D) : \E x \in D : Placed(D, R, x) = k - 1
<1> DEFINE InFront(x) == {y \in D : <<y, x>> \in R}
           place == [x \in D |-> Cardinality(InFront(x))]
           N == Cardinality(D)
<1>1. \A x \in D : IsFiniteSet(InFront(x)) /\ Cardinality(InFront(x)) \in Nat
  <2> SUFFICES ASSUME NEW x \in D PROVE IsFiniteSet(InFront(x)) /\ Cardinality(InFront(x)) \in Nat
    OBVIOUS
  <2>1. InFront(x) \subseteq D
    OBVIOUS
  <2> HIDE DEF InFront
  <2>2. QED  BY <2>1, FS_Subset, FS_CardinalityType
<1>2. \A x, y \in D : <<y, x>> \in R => Cardinality(InFront(y)) < Cardinality(InFront(x))
  <2> SUFFICES ASSUME NEW x \in D, NEW y \in D, <<y, x>> \in R
               PROVE  Cardinality(InFront(y)) < Cardinality(InFront(x))
    OBVIOUS
  <2>1. InFront(y) \subseteq InFront(x) /\ y \in InFront(x) /\ y \notin InFront(y)
    BY DEF InARow
  <2>2. IsFiniteSet(InFront(x)) /\ IsFiniteSet(InFront(y))
    BY <1>1
  <2> DEFINE s == InFront(y)  t == InFront(x)
  <2> HIDE DEF InFront, s, t
  <2>3. s \subseteq t /\ s # t /\ IsFiniteSet(t)
    BY <2>1, <2>2 DEF s, t
  <2>4. Cardinality(s) < Cardinality(t)
    BY <2>3, FS_Subset, FS_CardinalityType
  <2>5. QED  BY <2>4 DEF s, t
<1>3. place \in [D -> Int] /\ \A x \in D : place[x] = Cardinality(InFront(x))
  BY <1>1
<1>4. \A x, y \in D : <<y, x>> \in R <=> place[y] < place[x]
  <2> SUFFICES ASSUME NEW x \in D, NEW y \in D PROVE <<y, x>> \in R <=> place[y] < place[x]
    OBVIOUS
  <2>1. place[x] \in Int /\ place[y] \in Int
    BY <1>3
  <2>2. <<y, x>> \in R => place[y] < place[x]
    BY <1>2, <1>3
  <2>3. <<x, y>> \in R => place[x] < place[y]
    BY <1>2, <1>3
  <2>4. x = y \/ <<x, y>> \in R \/ <<y, x>> \in R
    BY DEF InARow
  <2> HIDE DEF place
  <2>5. QED  BY <2>1, <2>2, <2>3, <2>4
<1>5. \A x, y \in D : place[x] = place[y] => x = y
  <2> SUFFICES ASSUME NEW x \in D, NEW y \in D, place[x] = place[y] PROVE x = y
    OBVIOUS
  <2>1. place[x] \in Int
    BY <1>3
  <2>2. <<x, y>> \notin R /\ <<y, x>> \notin R
    BY <1>4, <2>1
  <2>3. QED  BY <2>2 DEF InARow
<1>6. \A k \in 1 .. N : \E x \in D : place[x] = k - 1
  <2> SUFFICES ASSUME NEW k \in 1 .. N PROVE \E x \in D : place[x] = k - 1
    OBVIOUS
  <2> HIDE DEF place
  <2>1. place \in [D -> Int] /\ \A x, y \in D : place[x] = place[y] => x = y
    BY <1>3, <1>5
  <2>2. \A j \in 1 .. Cardinality(D) : \E x \in D : Cardinality({y \in D : place[y] < place[x]}) = j - 1
    BY <2>1, RankIsTaken
  <2>3. PICK x \in D : Cardinality({y \in D : place[y] < place[x]}) = k - 1
    BY <2>2
  <2>4. {y \in D : place[y] < place[x]} = InFront(x)
    BY <1>4
  <2>5. place[x] = k - 1
    BY <1>3, <2>3, <2>4
  <2>6. QED  BY <2>5
<1>7. N \in Nat
  BY FS_CardinalityType
<1>8. \A x \in D : place[x] \in Nat /\ place[x] < N
  <2> SUFFICES ASSUME NEW x \in D PROVE place[x] \in Nat /\ place[x] < N
    OBVIOUS
  <2> DEFINE s == InFront(x)
  <2>1. s \subseteq D /\ x \notin s
    BY DEF InARow
  <2>2. place[x] = Cardinality(s) /\ Cardinality(s) \in Nat
    BY <1>1, <1>3
  <2> HIDE DEF s, place
  <2>3. s # D
    BY <2>1
  <2>4. Cardinality(s) < N
    BY <1>7, <2>1, <2>3, FS_Subset, FS_CardinalityType
  <2>5. QED  BY <2>2, <2>4
<1>9. \A x \in D : place[x] = Placed(D, R, x)
  BY DEF Placed
<1> HIDE DEF place, InFront
<1>10. QED  BY <1>4, <1>5, <1>6, <1>8, <1>9

\* q lists the n elements of D, each once, in the order of R.
Lists(q, D, R, n) ==
  /\ n \in Nat /\ q \in [1 .. n -> D] /\ Len(q) = n /\ DOMAIN q = 1 .. n
  /\ \A x \in D : \E i \in 1 .. n : q[i] = x
  /\ \A i, j \in 1 .. n : i < j <=> <<q[i], q[j]>> \in R
  /\ \A i, j \in 1 .. n : q[i] = q[j] => i = j

LEMMA SortedIs ==
  ASSUME NEW D, IsFiniteSet(D), NEW R, InARow(D, R)
  PROVE  Lists(Sorted(D, R), D, R, Cardinality(D))
<1> DEFINE N == Cardinality(D)  q == Sorted(D, R)
<1>1. /\ \A x \in D : Placed(D, R, x) \in Nat /\ Placed(D, R, x) < N
      /\ \A x, y \in D : <<y, x>> \in R <=> Placed(D, R, y) < Placed(D, R, x)
      /\ \A x, y \in D : Placed(D, R, x) = Placed(D, R, y) => x = y
      /\ \A k \in 1 .. N : \E x \in D : Placed(D, R, x) = k - 1
  BY PlacesAre
<1>2. N \in Nat
  BY FS_CardinalityType
<1>3. q = [k \in 1 .. N |-> CHOOSE x \in D : Placed(D, R, x) = k - 1]
  BY DEF Sorted, Placed
<1> HIDE DEF N, q
<1>4. \A k \in 1 .. N : q[k] \in D /\ Placed(D, R, q[k]) = k - 1
  <2> SUFFICES ASSUME NEW k \in 1 .. N PROVE q[k] \in D /\ Placed(D, R, q[k]) = k - 1
    OBVIOUS
  <2>1. q[k] = CHOOSE x \in D : Placed(D, R, x) = k - 1
    BY <1>3
  <2>2. \E x \in D : Placed(D, R, x) = k - 1
    BY <1>1
  <2>3. QED  BY <2>1, <2>2
<1>5. q \in [1 .. N -> D] /\ Len(q) = N /\ DOMAIN q = 1 .. N
  BY <1>2, <1>3, <1>4
<1>6. \A x \in D : \E i \in 1 .. N : q[i] = x
  <2> SUFFICES ASSUME NEW x \in D PROVE \E i \in 1 .. N : q[i] = x
    OBVIOUS
  <2> DEFINE i == Placed(D, R, x) + 1
  <2>1. i \in 1 .. N /\ i - 1 = Placed(D, R, x)
    BY <1>1, <1>2
  <2> HIDE DEF i
  <2>2. q[i] \in D /\ Placed(D, R, q[i]) = Placed(D, R, x)
    BY <1>4, <2>1
  <2>3. q[i] = x
    BY <1>1, <2>2
  <2>4. QED  BY <2>1, <2>3
<1>7. \A i, j \in 1 .. N : i < j <=> <<q[i], q[j]>> \in R
  <2> SUFFICES ASSUME NEW i \in 1 .. N, NEW j \in 1 .. N PROVE i < j <=> <<q[i], q[j]>> \in R
    OBVIOUS
  <2>1. /\ q[i] \in D /\ Placed(D, R, q[i]) = i - 1
        /\ q[j] \in D /\ Placed(D, R, q[j]) = j - 1
    BY <1>4
  <2>2. <<q[i], q[j]>> \in R <=> i - 1 < j - 1
    BY <1>1, <2>1
  <2>3. QED  BY <2>2
<1>8. \A i, j \in 1 .. N : q[i] = q[j] => i = j
  <2> SUFFICES ASSUME NEW i \in 1 .. N, NEW j \in 1 .. N, q[i] = q[j] PROVE i = j
    OBVIOUS
  <2>1. Placed(D, R, q[i]) = i - 1 /\ Placed(D, R, q[j]) = j - 1
    BY <1>4
  <2>2. i - 1 = j - 1
    BY <2>1
  <2>3. QED  BY <2>2
<1>9. QED  BY <1>2, <1>5, <1>6, <1>7, <1>8 DEF Lists, N, q

-----------------------------------------------------------------------------
(* Sums of sequences *)

\* Over a common denominator the numerators of a sequence add up.
Numerators(s, k, c, n) ==
  /\ n \in Nat /\ c \in Nat \ {0} /\ s \in [1 .. n -> Fractions] /\ k \in [1 .. n -> Int]
  /\ \A i \in 1 .. n : Equals(s[i], k[i], c)

LEMMA SeriesSum ==
  ASSUME NEW n, NEW s, NEW c, NEW k, Numerators(s, k, c, n)
  PROVE  Equals(Sum(s), SumFunction(k), c)
<1> USE DEF Numerators
<1>1. PICK h : PartSums(h, s, n) /\ Sum(s) = h[n]
  BY SumIs
<1>2. IsFiniteSet(1 .. n)
  BY FS_Interval
<1>3. PICK sums : Adds(k, 1 .. n, sums) /\ sums[1 .. n] = SumFunction(k)
  BY <1>2, SumHas
<1> DEFINE G == {i \in 0 .. n : Equals(h[i], sums[1 .. i], c)}
<1>4. 0 \in G
  <2>1. h[0] = Zero /\ 1 .. 0 = {} /\ sums[{}] = 0 /\ c \in Int
    BY <1>1, <1>3 DEF PartSums, Adds
  <2>2. Equals(Zero, 0, c)
    BY <2>1, ZeroEquals
  <2>3. QED  BY <2>1, <2>2
<1>5. ASSUME NEW i \in 0 .. n - 1, i \in G PROVE i + 1 \in G
  <2> DEFINE j == i + 1  t == 1 .. j
  <2>1. j \in 0 .. n /\ j # 0 /\ j - 1 = i /\ j \in 1 .. n /\ t \in SUBSET (1 .. n) /\ j \in t
        /\ t \ {j} = 1 .. i /\ 1 .. i \in SUBSET (1 .. n)
    OBVIOUS
  <2>2. h[j] = Plus(h[i], s[j])
    BY <1>1, <2>1 DEF PartSums
  <2>3. sums[t] = k[j] + sums[1 .. i] /\ sums[1 .. i] \in Int
    <3> DEFINE r == 1 .. i
    <3>1. t \in SUBSET (1 .. n) /\ j \in t /\ t \ {j} = r /\ r \in SUBSET (1 .. n)
      BY <2>1
    <3> HIDE DEF t, j, r
    <3>2. sums[t] = k[j] + sums[t \ {j}] /\ sums[r] \in Int
      BY <1>3, <3>1 DEF Adds
    <3>3. QED  BY <3>1, <3>2 DEF r
  <2>4. Equals(h[i], sums[1 .. i], c) /\ Equals(s[j], k[j], c) /\ k[j] \in Int
    BY <1>5, <2>1
  <2> DEFINE a == sums[1 .. i]  b == k[j]
  <2> HIDE DEF a, b, j, t
  <2>5. Equals(Plus(h[i], s[j]), a + b, c)
    <3>1. a \in Int /\ b \in Int /\ c \in Nat \ {0}
      BY <2>3, <2>4 DEF a, b
    <3>2. Equals(h[i], a, c) /\ Equals(s[j], b, c)
      BY <2>4 DEF a, b
    <3>3. QED  BY <3>1, <3>2, PlusIs
  <2>6. a + b = sums[t]
    BY <2>3, <2>4 DEF a, b
  <2>7. Equals(h[j], sums[t], c)
    BY <2>2, <2>5, <2>6
  <2>8. QED  BY <2>1, <2>7 DEF j, t
<1>6. 0 \in Int /\ n \in Int
  OBVIOUS
<1>7. 0 .. n \subseteq G
  <2> HIDE DEF G
  <2>1. QED  BY <1>4, <1>5, <1>6, CountingFrom
<1>8. n \in G
  BY <1>7
<1>9. QED  BY <1>1, <1>3, <1>8

\* Summing in another order, or by other names, is the same sum.
Renames(b, A, D) ==
  /\ b \in [A -> D] /\ \A x, y \in A : b[x] = b[y] => x = y
  /\ \A d \in D : \E x \in A : b[x] = d

LEMMA SumRenamed ==
  ASSUME NEW A, IsFiniteSet(A), NEW D, IsFiniteSet(D), NEW b, Renames(b, A, D),
         NEW f \in [D -> Int], NEW g \in [A -> Int], \A x \in A : g[x] = f[b[x]]
  PROVE  SumFunction(g) = SumFunction(f)
<1>1. PICK hf : Adds(f, D, hf) /\ hf[D] = SumFunction(f)
  BY SumHas
<1>2. PICK hg : Adds(g, A, hg) /\ hg[A] = SumFunction(g)
  BY SumHas
<1> DEFINE Im(s) == {b[x] : x \in s}
           G == {s \in SUBSET A : hg[s] = hf[Im(s)]}
<1>3. {} \in G
  <2>1. Im({}) = {}
    OBVIOUS
  <2>2. hf[{}] = 0 /\ hg[{}] = 0
    BY <1>1, <1>2 DEF Adds
  <2>3. QED  BY <2>1, <2>2
<1>4. ASSUME NEW s \in SUBSET A, s # {}, \A x \in s : s \ {x} \in G PROVE s \in G
  <2>1. PICK z \in s : TRUE
    BY <1>4
  <2> DEFINE r == s \ {z}
  <2>2. hg[r] = hf[Im(r)]
    BY <1>4, <2>1
  <2>3. Im(r) = Im(s) \ {b[z]} /\ b[z] \in Im(s) /\ Im(s) \in SUBSET D
    BY <2>1 DEF Renames
  <2>4. hg[s] = g[z] + hg[r]
    BY <1>2, <2>1 DEF Adds
  <2> HIDE DEF Im, r
  <2>5. hf[Im(s)] = f[b[z]] + hf[Im(s) \ {b[z]}]
    BY <1>1, <2>3 DEF Adds
  <2>6. g[z] = f[b[z]]
    BY <2>1
  <2>7. hg[s] = hf[Im(s)]
    BY <2>2, <2>3, <2>4, <2>5, <2>6
  <2>8. QED  BY <2>7
<1>5. SUBSET A \subseteq G
  <2> HIDE DEF G
  <2>1. QED  BY <1>3, <1>4, Growing
<1>6. hg[A] = hf[Im(A)]
  BY <1>5
<1>7. Im(A) = D
  BY DEF Renames
<1>8. QED  BY <1>1, <1>2, <1>6, <1>7

\* One larger term, larger sum.
LEMMA SumLess ==
  ASSUME NEW D, IsFiniteSet(D), NEW f \in [D -> Int], NEW g \in [D -> Int],
         \A x \in D : f[x] <= g[x], NEW z \in D, f[z] < g[z]
  PROVE  SumFunction(f) < SumFunction(g)
<1> DEFINE E == D \ {z}  f1 == Restrict(f, E)  g1 == Restrict(g, E)
<1>1. /\ f1 \in [E -> Int] /\ SumFunction(f1) \in Int /\ SumFunction(f) = f[z] + SumFunction(f1)
      /\ g1 \in [E -> Int] /\ SumFunction(g1) \in Int /\ SumFunction(g) = g[z] + SumFunction(g1)
  <2>1. f1 \in [E -> Int] /\ SumFunction(f1) \in Int /\ SumFunction(f) = f[z] + SumFunction(f1)
    BY SumSplits
  <2>2. g1 \in [E -> Int] /\ SumFunction(g1) \in Int /\ SumFunction(g) = g[z] + SumFunction(g1)
    BY SumSplits
  <2> HIDE DEF E, f1, g1
  <2>3. QED  BY <2>1, <2>2
<1>2. IsFiniteSet(E)
  BY FS_Subset
<1>3. \A x \in E : f1[x] <= g1[x]
  BY DEF Restrict
<1> HIDE DEF E, f1, g1
<1>4. SumFunction(f1) <= SumFunction(g1)
  BY <1>1, <1>2, <1>3, SumAtMost
<1>5. f[z] \in Int /\ g[z] \in Int
  OBVIOUS
<1>6. QED  BY <1>1, <1>4, <1>5

\* Putting another number for one term.
OnlyAt(D, f, g, z) == \A x \in D : x # z => g[x] = f[x]

LEMMA SumWith ==
  ASSUME NEW D, IsFiniteSet(D), NEW f \in [D -> Int], NEW g \in [D -> Int], NEW z \in D,
         OnlyAt(D, f, g, z)
  PROVE  SumFunction(g) = SumFunction(f) + (g[z] - f[z])
<1> DEFINE E == D \ {z}  f1 == Restrict(f, E)  g1 == Restrict(g, E)
<1>1. /\ f1 \in [E -> Int] /\ SumFunction(f1) \in Int /\ SumFunction(f) = f[z] + SumFunction(f1)
      /\ g1 \in [E -> Int] /\ SumFunction(g1) \in Int /\ SumFunction(g) = g[z] + SumFunction(g1)
  <2>1. f1 \in [E -> Int] /\ SumFunction(f1) \in Int /\ SumFunction(f) = f[z] + SumFunction(f1)
    BY SumSplits
  <2>2. g1 \in [E -> Int] /\ SumFunction(g1) \in Int /\ SumFunction(g) = g[z] + SumFunction(g1)
    BY SumSplits
  <2> HIDE DEF E, f1, g1
  <2>3. QED  BY <2>1, <2>2
<1>2. f1 = g1
  BY DEF Restrict, OnlyAt
<1>3. f[z] \in Int /\ g[z] \in Int
  OBVIOUS
<1> HIDE DEF f1, g1
<1>4. QED  BY <1>1, <1>2, <1>3

-----------------------------------------------------------------------------
(* The factors and their scores *)

LEMMA FactorsAre ==
  /\ IsFiniteSet(Factors)
  /\ \A f \in Factors : /\ Position(f) \in 1 .. 6 /\ FACTOR_COLUMNS[Position(f)] = f
                        /\ WEIGHTS[f] \in Nat \ {0}
<1>1. /\ DOMAIN FACTOR_COLUMNS = 1 .. 6 /\ Len(FACTOR_COLUMNS) = 6
      /\ FACTOR_COLUMNS[1] = "technical" /\ FACTOR_COLUMNS[2] = "fundamental"
      /\ FACTOR_COLUMNS[3] = "valuation" /\ FACTOR_COLUMNS[4] = "momentum"
      /\ FACTOR_COLUMNS[5] = "quality" /\ FACTOR_COLUMNS[6] = "risk"
  BY DEF FACTOR_COLUMNS
<1>2. Factors = {FACTOR_COLUMNS[i] : i \in 1 .. 6}
  BY <1>1 DEF Factors, Range
<1>3. IsFiniteSet(1 .. 6)
  <2> DEFINE b == 6
  <2>1. b \in Int /\ 1 \in Int
    OBVIOUS
  <2> HIDE DEF b
  <2>2. IsFiniteSet(1 .. b)
    BY <2>1, FS_Interval
  <2>3. QED  BY <2>2 DEF b
<1>4. IsFiniteSet(Factors)
  <2> DEFINE q == FACTOR_COLUMNS  I == 1 .. 6
  <2>1. DOMAIN q = I /\ Factors = {q[i] : i \in I} /\ IsFiniteSet(I)
    BY <1>1, <1>2, <1>3
  <2> HIDE DEF q, I
  <2>2. IsFiniteSet({q[i] : i \in I})
    BY <2>1, ImageIsFinite
  <2>3. QED  BY <2>1, <2>2
<1>5. \A f \in Factors : Position(f) \in 1 .. 6 /\ FACTOR_COLUMNS[Position(f)] = f
  <2> SUFFICES ASSUME NEW f \in Factors
               PROVE  Position(f) \in 1 .. 6 /\ FACTOR_COLUMNS[Position(f)] = f
    OBVIOUS
  <2>1. \E i \in 1 .. 6 : FACTOR_COLUMNS[i] = f
    BY <1>2
  <2>2. Position(f) = CHOOSE i \in 1 .. 6 : FACTOR_COLUMNS[i] = f
    BY <1>1 DEF Position
  <2>3. QED  BY <2>1, <2>2
<1>6. \A f \in Factors : WEIGHTS[f] \in Nat \ {0}
  <2>1. Factors = {"technical", "fundamental", "valuation", "momentum", "quality", "risk"}
    <3>1. 1 .. 6 = {1, 2, 3, 4, 5, 6}
      OBVIOUS
    <3>2. QED  BY <1>1, <1>2, <3>1
  <2>2. QED  BY <2>1 DEF WEIGHTS
<1>7. QED  BY <1>4, <1>5, <1>6

\* Raw values of the factors, which may be negative and some of them missing.
RawShape(raws, D) == IsFiniteSet(D) /\ raws \in [D -> [Factors -> Fractions \cup {Missing}]]

LEMMA FactorScoresAre ==
  ASSUME NEW D, NEW raws, RawShape(raws, D), NEW s \in D
  PROVE  ScoreShape(compute_factor_scores(raws[s], raws))
<1> DEFINE raw == raws[s]  marks == compute_factor_scores(raw, raws)
<1>1. IsFiniteSet(D) /\ DOMAIN raws = D /\ raw \in [Factors -> Fractions \cup {Missing}]
  BY DEF RawShape
<1>2. marks = [f \in Factors |-> IF raw[f] = Missing THEN Missing
                                  ELSE percentile_rank(raw[f], Distribution(raws, f))]
  BY DEF compute_factor_scores
<1> HIDE DEF marks
<1>3. ASSUME NEW f \in Factors, raw[f] # Missing PROVE Amount(marks[f])
  <2> DEFINE d == Distribution(raws, f)  E == {t \in D : raws[t][f] # Missing}
             p == [t \in E |-> <<t, raws[t][f]>>]  less == {x \in d : Less(x[2], raw[f])}
  <2>1. d = {p[t] : t \in E} /\ DOMAIN p = E
    BY <1>1 DEF Distribution
  <2>2. s \in E /\ E \subseteq D
    BY <1>3
  <2> HIDE DEF p, E, d
  <2>3. IsFiniteSet(E)
    BY <1>1, <2>2, FS_Subset
  <2>4. IsFiniteSet(d)
    <3>1. IsFiniteSet({p[t] : t \in E})
      BY <2>1, <2>3, ImageIsFinite
    <3>2. QED  BY <2>1, <3>1
  <2>5. p[s] \in d
    BY <2>1, <2>2
  <2>6. Cardinality(d) \in Nat \ {0}
    BY <2>4, <2>5, FS_CardinalityType, FS_EmptySet
  <2>7. IsFiniteSet(less) /\ Cardinality(less) \in Nat
    BY <2>4, FS_Subset, FS_CardinalityType
  <2>8. marks[f] = Frac(100 * Cardinality(less), Cardinality(d))
    BY <1>2, <1>3 DEF percentile_rank, d
  <2>9. 100 * Cardinality(less) \in Nat
    BY <2>7
  <2> HIDE DEF less
  <2>10. QED  BY <2>6, <2>8, <2>9, AmountFrac
<1>4. \A f \in Factors : raw[f] = Missing => marks[f] = Missing
  BY <1>2
<1>5. \A f \in Factors : marks[f] \in Fractions \cup {Missing}
  BY <1>3, <1>4 DEF Amount
<1>6. \A f \in Factors : marks[f] # Missing => Amount(marks[f])
  BY <1>3, <1>4
<1>7. marks \in [Factors -> Fractions \cup {Missing}]
  BY <1>2, <1>5
<1>8. QED  BY <1>6, <1>7 DEF ScoreShape, marks, Amount

LEMMA AvailableIs ==
  ASSUME NEW marks, ScoreShape(marks)
  PROVE  /\ Available(marks) \subseteq Factors /\ IsFiniteSet(Available(marks))
         /\ \A f \in Available(marks) : /\ marks[f] \in Fractions /\ Amount(marks[f])
                                         /\ f \in Factors /\ WEIGHTS[f] \in Nat \ {0}
<1>1. Available(marks) \subseteq Factors
  BY DEF Available
<1>2. IsFiniteSet(Available(marks))
  BY <1>1, FactorsAre, FS_Subset
<1>3. \A f \in Available(marks) : marks[f] \in Fractions /\ Amount(marks[f])
  BY DEF Available, ScoreShape, Amount
<1>4. QED  BY <1>1, <1>2, <1>3, FactorsAre

\* The scores over a common denominator c: k[f] each, m[f] with its weight.
Weighing(marks, D, c, k, m) ==
  /\ ScoreShape(marks) /\ D = Available(marks) /\ D # {}
  /\ c \in Nat \ {0} /\ k \in [D -> Int] /\ m \in [D -> Int]
  /\ \A f \in D : Equals(marks[f], k[f], c) /\ m[f] = WEIGHTS[f] * k[f]

LEMMA WeightSumIs ==
  ASSUME NEW marks, ScoreShape(marks), Available(marks) # {}
  PROVE  WeightSum(marks) \in Nat \ {0}
<1> DEFINE D == Available(marks)  w == [f \in D |-> WEIGHTS[f]]
<1>1. IsFiniteSet(D) /\ D # {} /\ \A f \in D : WEIGHTS[f] \in Nat \ {0}
  BY AvailableIs
<1>2. WeightSum(marks) = SumFunction(w)
  BY DEF WeightSum
<1> HIDE DEF D
<1>3. w \in [D -> Int] /\ \A f \in D : w[f] > 0
  BY <1>1
<1> HIDE DEF w
<1>4. SumFunction(w) \in Int /\ SumFunction(w) > 0
  BY <1>1, <1>3, SumType, SumPositive
<1>5. QED  BY <1>2, <1>4

\* The overall score is the weighted mean.
LEMMA OverallScoreIs ==
  ASSUME NEW marks, NEW D, NEW c, NEW k, NEW m, Weighing(marks, D, c, k, m)
  PROVE  /\ Equals(compute_overall_score(marks), SumFunction(m), c * WeightSum(marks))
         /\ SumFunction(m) \in Nat
<1>1. /\ ScoreShape(marks) /\ D = Available(marks) /\ D # {} /\ c \in Nat \ {0}
      /\ k \in [D -> Int] /\ m \in [D -> Int]
      /\ \A f \in D : Equals(marks[f], k[f], c) /\ m[f] = WEIGHTS[f] * k[f]
  BY DEF Weighing
<1>2. IsFiniteSet(D) /\ \A f \in D : marks[f] \in Fractions /\ Amount(marks[f])
                                     /\ WEIGHTS[f] \in Nat \ {0}
  BY <1>1, AvailableIs
<1> DEFINE v == [f \in D |-> Times(Whole(WEIGHTS[f]), marks[f])]  W == WeightSum(marks)
           n == SumFunction(m)
<1>3. W \in Nat \ {0}
  BY <1>1, WeightSumIs
<1>4. ASSUME NEW f \in D PROVE Equals(v[f], m[f], c) /\ m[f] >= 0
  <2> DEFINE a == WEIGHTS[f]  b == k[f]
  <2>1. a \in Nat \ {0} /\ b \in Int /\ Equals(marks[f], b, c) /\ m[f] = a * b /\ c \in Nat \ {0}
        /\ v[f] = Times(Whole(a), marks[f])
    BY <1>1, <1>2
  <2>2. Amount(marks[f])
    BY <1>2
  <2> HIDE DEF a, b, v
  <2>3. b >= 0
    BY <2>1, <2>2, AmountIs
  <2>4. a * b >= 0
    BY <2>1, <2>3
  <2>5. Equals(Whole(a), a, 1)
    <3>1. a * 1 = a /\ 1 \in Int /\ a \in Int
      BY <2>1
    <3>2. Equals(Whole(a), a * 1, 1)
      BY <3>1, WholeEquals
    <3>3. QED  BY <3>1, <3>2
  <2>6. Equals(Times(Whole(a), marks[f]), a * b, 1 * c)
    <3>1. 1 \in Nat \ {0} /\ a \in Int
      BY <2>1
    <3>2. QED  BY <2>1, <2>5, <3>1, TimesIs
  <2>7. 1 * c = c
    BY <2>1
  <2>8. QED  BY <2>1, <2>4, <2>6, <2>7
<1>5. v \in [D -> Fractions]
  <2>1. \A f \in D : v[f] \in Fractions
    BY <1>4 DEF Equals
  <2>2. v = [f \in D |-> v[f]]
    OBVIOUS
  <2> HIDE DEF v
  <2>3. QED  BY <2>1, <2>2
<1>6. compute_overall_score(marks) = Over2(TotalOf(v), Whole(W))
  BY <1>1 DEF compute_overall_score
<1> HIDE DEF v, W
<1>7. Equals(TotalOf(v), n, c)
  BY <1>1, <1>2, <1>4, <1>5, TotalSum
<1>8. n \in Nat
  BY <1>1, <1>2, <1>4, SumNat
<1> HIDE DEF n
<1>9. Equals(Over2(TotalOf(v), Whole(W)), n * 1, c * W)
  <2>1. Equals(Whole(W), W, 1)
    <3>1. W * 1 = W /\ 1 \in Int /\ W \in Int
      BY <1>3
    <3>2. Equals(Whole(W), W * 1, 1)
      BY <3>1, WholeEquals
    <3>3. QED  BY <3>1, <3>2
  <2>2. n \in Int /\ W \in Int /\ W # 0 /\ c \in Nat \ {0} /\ 1 \in Nat \ {0}
    BY <1>1, <1>3, <1>8
  <2>3. QED  BY <1>7, <2>1, <2>2, Over2Is
<1>10. n * 1 = n
  BY <1>8
<1>11. QED  BY <1>6, <1>8, <1>9, <1>10 DEF W, n

LEMMA WeighingExists ==
  ASSUME NEW marks, ScoreShape(marks), Available(marks) # {}
  PROVE  \E c, k, m : Weighing(marks, Available(marks), c, k, m)
<1> DEFINE D == Available(marks)  v == [f \in D |-> marks[f]]
<1>1. IsFiniteSet(D) /\ v \in [D -> Fractions] /\ \A f \in D : WEIGHTS[f] \in Nat \ {0}
  BY AvailableIs
<1>2. \A f \in D : v[f] = marks[f]
  OBVIOUS
<1> HIDE DEF v, D
<1>3. \E c \in Nat \ {0} : \E k \in [D -> Int] : \A f \in D : Equals(v[f], k[f], c)
  BY <1>1, CommonDenominator
<1>4. PICK c \in Nat \ {0}, k \in [D -> Int] : \A f \in D : Equals(v[f], k[f], c)
  BY <1>3
<1> DEFINE m == [f \in D |-> WEIGHTS[f] * k[f]]
<1>5. \A f \in D : WEIGHTS[f] * k[f] \in Int
  <2> SUFFICES ASSUME NEW f \in D PROVE WEIGHTS[f] * k[f] \in Int
    OBVIOUS
  <2>1. WEIGHTS[f] \in Int /\ k[f] \in Int
    BY <1>1
  <2>2. QED  BY <2>1
<1>6. m \in [D -> Int] /\ \A f \in D : m[f] = WEIGHTS[f] * k[f]
  BY <1>5
<1> HIDE DEF m
<1>7. Weighing(marks, D, c, k, m)
  BY <1>2, <1>4, <1>6 DEF Weighing, D
<1>8. QED  BY <1>7 DEF D

LEMMA OverallScoreType ==
  ASSUME NEW marks, ScoreShape(marks)
  PROVE  /\ Available(marks) = {} => compute_overall_score(marks) = Missing
         /\ Available(marks) # {} => compute_overall_score(marks) \in Fractions
<1>1. Available(marks) = {} => compute_overall_score(marks) = Missing
  BY DEF compute_overall_score
<1>2. ASSUME Available(marks) # {} PROVE compute_overall_score(marks) \in Fractions
  <2>1. PICK c, k, m : Weighing(marks, Available(marks), c, k, m)
    BY <1>2, WeighingExists
  <2>2. Equals(compute_overall_score(marks), SumFunction(m), c * WeightSum(marks))
    BY <2>1, OverallScoreIs
  <2>3. QED  BY <2>2 DEF Equals
<1>3. QED  BY <1>1, <1>2

\* With the better factors, and the same ones missing, the overall score is larger.
LEMMA DominatingIsMore ==
  ASSUME NEW a, ScoreShape(a), NEW b, ScoreShape(b), Dominates(a, b)
  PROVE  Less(compute_overall_score(b), compute_overall_score(a))
<1> DEFINE D == Available(a)
<1>1. /\ D = Available(b) /\ D # {} /\ \A f \in D : ~Less(a[f], b[f])
      /\ \E f \in D : Less(b[f], a[f])
  BY DEF Dominates
<1>2. IsFiniteSet(D) /\ \A f \in D : WEIGHTS[f] \in Nat \ {0}
  BY AvailableIs
<1>3. PICK c1, k1, m1 : Weighing(a, D, c1, k1, m1)
  BY <1>1, WeighingExists
<1>4. PICK c2, k2, m2 : Weighing(b, D, c2, k2, m2)
  BY <1>1, WeighingExists
<1> HIDE DEF D
<1> DEFINE c == c1 * c2  k == [f \in D |-> k1[f] * c2]  l == [f \in D |-> k2[f] * c1]
           p == [f \in D |-> WEIGHTS[f] * k[f]]  q == [f \in D |-> WEIGHTS[f] * l[f]]
<1>5. c1 \in Nat \ {0} /\ c2 \in Nat \ {0} /\ c \in Nat \ {0}
  BY <1>3, <1>4 DEF Weighing
<1>6. k1 \in [D -> Int] /\ k2 \in [D -> Int]
  BY <1>3, <1>4 DEF Weighing
<1>7. k \in [D -> Int] /\ l \in [D -> Int]
  BY <1>5, <1>6
<1>8. ASSUME NEW f \in D PROVE Equals(a[f], k[f], c) /\ Equals(b[f], l[f], c)
  <2> DEFINE x == k1[f]  y == k2[f]
  <2>1. x \in Int /\ y \in Int /\ k[f] = x * c2 /\ l[f] = y * c1 /\ c = c1 * c2 /\ c = c2 * c1
        /\ k[f] \in Int /\ l[f] \in Int /\ c \in Int /\ c1 \in Int /\ c2 \in Int
    BY <1>5, <1>6, <1>7
  <2>2. Equals(a[f], x, c1) /\ Equals(b[f], y, c2)
    BY <1>3, <1>4 DEF Weighing
  <2> HIDE DEF x, y, k, l, c
  <2>3. Equals(a[f], k[f], c)
    BY <2>1, <2>2, Rescaled
  <2>4. Equals(b[f], l[f], c)
    BY <2>1, <2>2, Rescaled
  <2>5. QED  BY <2>3, <2>4
<1> HIDE DEF k, l, c
<1>9. \A f \in D : WEIGHTS[f] * k[f] \in Int /\ WEIGHTS[f] * l[f] \in Int
  <2> SUFFICES ASSUME NEW f \in D PROVE WEIGHTS[f] * k[f] \in Int /\ WEIGHTS[f] * l[f] \in Int
    OBVIOUS
  <2>1. WEIGHTS[f] \in Int /\ k[f] \in Int /\ l[f] \in Int
    BY <1>2, <1>7
  <2>2. QED  BY <2>1
<1>10. p \in [D -> Int] /\ q \in [D -> Int]
       /\ \A f \in D : p[f] = WEIGHTS[f] * k[f] /\ q[f] = WEIGHTS[f] * l[f]
  BY <1>9
<1> HIDE DEF p, q
<1>11. Weighing(a, D, c, k, p) /\ Weighing(b, D, c, l, q)
  BY <1>1, <1>5, <1>7, <1>8, <1>10 DEF Weighing, D
<1>12. ASSUME NEW f \in D PROVE q[f] <= p[f] /\ (Less(b[f], a[f]) => q[f] < p[f])
  <2> DEFINE w == WEIGHTS[f]  x == k[f]  y == l[f]
  <2>1. w \in Nat \ {0} /\ x \in Int /\ y \in Int /\ p[f] = w * x /\ q[f] = w * y
    BY <1>2, <1>7, <1>10
  <2>2. Equals(a[f], x, c) /\ Equals(b[f], y, c) /\ ~Less(a[f], b[f])
    BY <1>1, <1>8
  <2> HIDE DEF w, x, y
  <2>3. (Less(a[f], b[f]) <=> x < y) /\ (Less(b[f], a[f]) <=> y < x)
    BY <1>5, <2>1, <2>2, LessIs
  <2>4. y <= x
    BY <2>1, <2>2, <2>3
  <2>5. w * y <= w * x /\ (y < x => w * y < w * x)
    BY <2>1, <2>4
  <2>6. QED  BY <2>1, <2>3, <2>5
<1>13. PICK z \in D : Less(b[z], a[z])
  BY <1>1
<1>14. SumFunction(q) < SumFunction(p)
  <2>1. \A f \in D : q[f] <= p[f]
    BY <1>12
  <2>2. q[z] < p[z]
    BY <1>12, <1>13
  <2>3. QED  BY <1>2, <1>10, <2>1, <2>2, SumLess
<1> DEFINE W == WeightSum(a)  P == SumFunction(p)  Q == SumFunction(q)  e == c * W
<1>15. WeightSum(b) = W
  BY <1>1 DEF WeightSum, D
<1>16. W \in Nat \ {0}
  BY <1>1, WeightSumIs DEF D
<1>17. /\ Equals(compute_overall_score(a), P, e) /\ P \in Nat
       /\ Equals(compute_overall_score(b), Q, e) /\ Q \in Nat
  BY <1>11, <1>15, OverallScoreIs
<1>18. e \in Nat \ {0}
  BY <1>5, <1>16
<1>19. Q < P
  BY <1>14
<1> HIDE DEF P, Q, e, W
<1>20. P \in Int /\ Q \in Int
  BY <1>17
<1>21. QED  BY <1>17, <1>18, <1>19, <1>20, LessIs

-----------------------------------------------------------------------------
(* The contributions of the factors to a score *)

PartOf(marks, f) ==
  Contribution(f, marks[f], NormalWeight(marks, f), compute_overall_score(marks))
PartsOf(marks) == {PartOf(marks, f) : f \in Available(marks)}
ByShares(D) == {p \in D \X D : LargerShare(p[1], p[2])}

\* What a factor contributes, over the denominators of the score and of its shares.
LEMMA PartIs ==
  ASSUME NEW marks, NEW D, NEW c, NEW k, NEW m, Weighing(marks, D, c, k, m), NEW f \in D
  PROVE  /\ PartOf(marks, f).factor = f
         /\ Equals(PartOf(marks, f).weighted_score, m[f], c * WeightSum(marks))
         /\ compute_overall_score(marks) = Zero => PartOf(marks, f).contribution_pct = Missing
         /\ compute_overall_score(marks) # Zero /\ Missing \notin Fractions =>
              /\ SumFunction(m) \in Nat \ {0}
              /\ Equals(PartOf(marks, f).contribution_pct, m[f], SumFunction(m))
<1> DEFINE W == WeightSum(marks)  o == compute_overall_score(marks)  x == PartOf(marks, f)
           w == WEIGHTS[f]  n == SumFunction(m)  a == k[f]  e == c * W
           t == Times(marks[f], NormalWeight(marks, f))
<1>1. /\ ScoreShape(marks) /\ D = Available(marks) /\ D # {} /\ c \in Nat \ {0}
      /\ Equals(marks[f], a, c) /\ a \in Int /\ m[f] = w * a
  BY DEF Weighing
<1>2. W \in Nat \ {0} /\ w \in Nat \ {0}
  BY <1>1, WeightSumIs, AvailableIs
<1>3. Equals(o, n, e) /\ n \in Nat
  BY OverallScoreIs
<1>4. x.factor = f /\ x.weighted_score = t /\ x.contribution_pct = RatioOf(t, o)
  BY DEF PartOf, Contribution
<1>5. NormalWeight(marks, f) = Frac(w, W)
  BY DEF NormalWeight
<1> HIDE DEF W, w, a, n, o, e, x, t
<1>6. Equals(t, m[f], e)
  <2>1. Equals(Frac(w, W), w, W)
    <3>1. w \in Int /\ W \in Int /\ W # 0
      BY <1>2
    <3>2. QED  BY <3>1, FracIs
  <2>2. Equals(Times(marks[f], Frac(w, W)), a * w, c * W)
    <3>1. w \in Int
      BY <1>2
    <3>2. QED  BY <1>1, <1>2, <2>1, <3>1, TimesIs
  <2>3. a * w = m[f]
    BY <1>1, <1>2
  <2>4. QED  BY <1>5, <2>2, <2>3 DEF t, e
<1>7. e \in Nat \ {0} /\ m[f] \in Int /\ n \in Int
  BY <1>1, <1>2, <1>3 DEF e
<1>8. o = Zero => x.contribution_pct = Missing
  BY <1>4 DEF RatioOf
<1>9. ASSUME o # Zero, Missing \notin Fractions
      PROVE  n \in Nat \ {0} /\ Equals(x.contribution_pct, m[f], n)
  <2>1. n # 0
    <3> SUFFICES ASSUME n = 0 PROVE o = Zero
      BY <1>9
    <3>1. Equals(o, 0, e) /\ e \in Int /\ e # 0 /\ 0 \in Int
      BY <1>3, <1>7
    <3>2. Equals(Zero, 0, e)
      BY <3>1, ZeroEquals
    <3>3. QED  BY <3>1, <3>2, SameValue
  <2>2. t \in Fractions /\ o \in Fractions
    BY <1>3, <1>6 DEF Equals
  <2>3. x.contribution_pct = Over2(t, o)
    BY <1>4, <1>9, <2>2 DEF RatioOf
  <2> DEFINE u == m[f] * e  v == e * n  i == m[f]
  <2>4. Equals(Over2(t, o), u, v)
    BY <1>3, <1>6, <1>7, <2>1, Over2Is
  <2>5. u = i * e /\ v = n * e /\ u \in Int /\ v \in Int /\ i \in Int /\ e \in Int /\ e # 0
    BY <1>7
  <2> HIDE DEF u, v, i
  <2>6. Equals(Over2(t, o), i, n)
    BY <1>7, <2>4, <2>5, Reduced
  <2>7. QED  BY <1>3, <2>1, <2>3, <2>6 DEF i
<1>10. QED  BY <1>4, <1>6, <1>8, <1>9 DEF W, n, o, e, x

\* Shares put the contributions in a row: factors of one share keep their order.
LEMMA SharesAreARow ==
  ASSUME NEW D, \A x \in D : x.factor \in Factors /\ ShareOrZero(x) \in Fractions,
         \A x, y \in D : x.factor = y.factor => x = y
  PROVE  InARow(D, ByShares(D))
<1> DEFINE R == ByShares(D)
<1>1. \A x, y \in D : <<x, y>> \in R <=> LargerShare(x, y)
  BY DEF ByShares
<1>2. \A x \in D : Position(x.factor) \in Int
  BY FactorsAre
<1>3. \A x, y \in D : Position(x.factor) = Position(y.factor) => x = y
  BY FactorsAre
<1> HIDE DEF R
<1>4. ASSUME NEW x \in D, NEW y \in D PROVE x = y \/ <<x, y>> \in R \/ <<y, x>> \in R
  <2> DEFINE a == ShareOrZero(x)  b == ShareOrZero(y)
  <2>1. Less(a, b) \/ Less(b, a) \/ a = b
    BY LessTotal
  <2>2. x = y \/ Position(x.factor) < Position(y.factor) \/ Position(y.factor) < Position(x.factor)
    BY <1>2, <1>3
  <2>3. QED  BY <1>1, <2>1, <2>2 DEF LargerShare
<1>5. ASSUME NEW x \in D PROVE <<x, x>> \notin R
  <2>1. ~Less(ShareOrZero(x), ShareOrZero(x))
    BY LessTotal
  <2>2. QED  BY <1>1, <1>2, <2>1 DEF LargerShare
<1>6. ASSUME NEW x \in D, NEW y \in D, NEW z \in D, <<x, y>> \in R, <<y, z>> \in R
      PROVE  <<x, z>> \in R
  <2> DEFINE a == ShareOrZero(x)  b == ShareOrZero(y)  d == ShareOrZero(z)
             i == Position(x.factor)  j == Position(y.factor)  l == Position(z.factor)
  <2>1. a \in Fractions /\ b \in Fractions /\ d \in Fractions /\ i \in Int /\ j \in Int /\ l \in Int
    BY <1>2
  <2>2. (Less(b, a) \/ (a = b /\ i < j)) /\ (Less(d, b) \/ (b = d /\ j < l))
    BY <1>1, <1>6 DEF LargerShare
  <2> HIDE DEF a, b, d, i, j, l
  <2>3. Less(d, b) /\ Less(b, a) => Less(d, a)
    BY <2>1, LessOn
  <2>4. Less(d, a) \/ (a = d /\ i < l)
    BY <2>1, <2>2, <2>3
  <2>5. QED  BY <1>1, <2>4 DEF LargerShare, a, d, i, l
<1>7. QED  BY <1>4, <1>5, <1>6 DEF InARow, R

\* The contributions of a decomposition: one per available factor.
LEMMA DecomposedIs ==
  ASSUME NEW marks, ScoreShape(marks), Missing \notin Fractions
  PROVE  /\ decompose_score(marks).overall_score = compute_overall_score(marks)
         /\ \E n : Lists(decompose_score(marks).contributions, PartsOf(marks), ByShares(PartsOf(marks)), n)
<1> DEFINE D == PartsOf(marks)  A == Available(marks)  g == [f \in A |-> PartOf(marks, f)]
<1>1. /\ decompose_score(marks).overall_score = compute_overall_score(marks)
      /\ decompose_score(marks).contributions = ByShare(D)
  BY DEF decompose_score, PartsOf, PartOf
<1>2. ByShare(D) = Sorted(D, ByShares(D))
  BY DEF ByShare, ByShares
<1>3. IsFiniteSet(A) /\ A \subseteq Factors
  BY AvailableIs
<1>4. IsFiniteSet(D)
  <2>1. D = {g[f] : f \in A} /\ DOMAIN g = A
    BY DEF PartsOf
  <2> HIDE DEF D, g, A
  <2>2. IsFiniteSet({g[f] : f \in A})
    BY <1>3, <2>1, ImageIsFinite
  <2>3. QED  BY <2>1, <2>2
<1>5. ASSUME NEW f \in A
      PROVE  PartOf(marks, f).factor = f /\ ShareOrZero(PartOf(marks, f)) \in Fractions
  <2>1. PICK c, k, m : Weighing(marks, A, c, k, m)
    BY WeighingExists
  <2>2. /\ PartOf(marks, f).factor = f
        /\ \/ PartOf(marks, f).contribution_pct = Missing
           \/ Equals(PartOf(marks, f).contribution_pct, m[f], SumFunction(m))
    <3> HIDE DEF A
    <3>1. QED  BY <2>1, PartIs
  <2>3. Zero \in Fractions
    BY WholeIs DEF Zero
  <2>4. QED  BY <2>2, <2>3 DEF ShareOrZero, Equals
<1>6. \A x \in D : x.factor \in Factors /\ ShareOrZero(x) \in Fractions
  BY <1>3, <1>5 DEF PartsOf
<1>7. \A x, y \in D : x.factor = y.factor => x = y
  BY <1>5 DEF PartsOf
<1> HIDE DEF D, A, g
<1>8. InARow(D, ByShares(D))
  BY <1>6, <1>7, SharesAreARow
<1>9. Lists(Sorted(D, ByShares(D)), D, ByShares(D), Cardinality(D))
  BY <1>4, <1>8, SortedIs
<1>10. QED  BY <1>1, <1>2, <1>9 DEF D

\* The contributions add up to the overall score and, unless it is zero, their shares to one.
LEMMA ContributionsAddUp ==
  ASSUME NEW marks, ScoreShape(marks), Missing \notin Fractions, Available(marks) # {},
         NEW q, NEW n, Lists(q, PartsOf(marks), ByShares(PartsOf(marks)), n)
  PROVE  /\ n # 0
         /\ Sum([i \in 1 .. n |-> q[i].weighted_score]) = compute_overall_score(marks)
         /\ compute_overall_score(marks) # Zero =>
              /\ \A i \in 1 .. n : q[i].contribution_pct \in Fractions
              /\ Sum([i \in 1 .. n |-> q[i].contribution_pct]) = Whole(1)
<1> DEFINE D == Available(marks)  o == compute_overall_score(marks)  W == WeightSum(marks)
<1>1. PICK c, k, m : Weighing(marks, D, c, k, m)
  BY WeighingExists
<1>2. /\ n \in Nat /\ q \in [1 .. n -> PartsOf(marks)]
      /\ \A x \in PartsOf(marks) : \E i \in 1 .. n : q[i] = x
      /\ \A i, j \in 1 .. n : q[i] = q[j] => i = j
  BY DEF Lists
<1>3. IsFiniteSet(D) /\ D # {} /\ m \in [D -> Int] /\ c \in Nat \ {0}
  BY <1>1, AvailableIs DEF Weighing
<1>4. \A f \in D : PartOf(marks, f) \in PartsOf(marks)
  BY DEF PartsOf
<1>5. \A x \in PartsOf(marks) : \E f \in D : x = PartOf(marks, f)
  BY DEF PartsOf
<1> HIDE DEF D
<1>6. \A f \in D : PartOf(marks, f).factor = f
  BY <1>1, PartIs
<1> DEFINE b == [i \in 1 .. n |-> q[i].factor]
<1>7. \A i \in 1 .. n : q[i].factor \in D /\ q[i] = PartOf(marks, q[i].factor)
  BY <1>2, <1>5, <1>6
<1>8. \A i \in 1 .. n : b[i] = q[i].factor
  OBVIOUS
<1>9. Renames(b, 1 .. n, D)
  <2>1. b \in [1 .. n -> D]
    BY <1>7
  <2>2. \A i, j \in 1 .. n : b[i] = b[j] => i = j
    BY <1>2, <1>7, <1>8
  <2>3. \A f \in D : \E i \in 1 .. n : b[i] = f
    BY <1>2, <1>4, <1>6, <1>8
  <2>4. QED  BY <2>1, <2>2, <2>3 DEF Renames
<1> HIDE DEF b
<1> DEFINE g == [i \in 1 .. n |-> m[b[i]]]
<1>10. g \in [1 .. n -> Int] /\ \A i \in 1 .. n : g[i] = m[b[i]]
  BY <1>3, <1>9 DEF Renames
<1> HIDE DEF g
<1>11. IsFiniteSet(1 .. n)
  BY <1>2, FS_Interval
<1>12. SumFunction(g) = SumFunction(m)
  <2> DEFINE I == 1 .. n
  <2>1. IsFiniteSet(I) /\ Renames(b, I, D) /\ g \in [I -> Int] /\ \A i \in I : g[i] = m[b[i]]
    BY <1>9, <1>10, <1>11
  <2>2. m \in [D -> Int] /\ IsFiniteSet(D)
    BY <1>3
  <2> HIDE DEF I
  <2>3. QED  BY <2>1, <2>2, SumRenamed
<1> DEFINE N == SumFunction(m)  e == c * W
<1>13. Equals(o, N, e) /\ N \in Nat
  BY <1>1, OverallScoreIs
<1>14. e \in Nat \ {0}
  <2>1. W \in Nat \ {0}
    BY WeightSumIs
  <2>2. QED  BY <1>3, <2>1
<1>15. \A i \in 1 .. n : Equals(q[i].weighted_score, g[i], e)
  <2> SUFFICES ASSUME NEW i \in 1 .. n PROVE Equals(q[i].weighted_score, g[i], e)
    OBVIOUS
  <2>1. b[i] \in D /\ q[i] = PartOf(marks, b[i]) /\ g[i] = m[b[i]]
    BY <1>7, <1>8, <1>10
  <2>2. Equals(PartOf(marks, b[i]).weighted_score, m[b[i]], e)
    BY <1>1, <2>1, PartIs
  <2>3. QED  BY <2>1, <2>2
<1> DEFINE s == [i \in 1 .. n |-> q[i].weighted_score]
<1>16. Sum(s) = o
  <2>1. \A i \in 1 .. n : s[i] = q[i].weighted_score
    OBVIOUS
  <2>2. \A i \in 1 .. n : q[i].weighted_score \in Fractions
    BY <1>15 DEF Equals
  <2>3. s \in [1 .. n -> Fractions]
    BY <2>2
  <2> HIDE DEF s, e
  <2>4. Numerators(s, g, e, n)
    BY <1>2, <1>10, <1>14, <1>15, <2>1, <2>3 DEF Numerators
  <2>5. Equals(Sum(s), SumFunction(g), e)
    BY <2>4, SeriesSum
  <2> HIDE DEF N, o
  <2>6. Equals(Sum(s), N, e)
    BY <1>12, <2>5 DEF N
  <2>7. e \in Int /\ e # 0 /\ N \in Int
    BY <1>13, <1>14
  <2>8. QED  BY <1>13, <2>6, <2>7, SameValue
<1> DEFINE t == [i \in 1 .. n |-> q[i].contribution_pct]
<1>17. ASSUME o # Zero
       PROVE  (\A i \in 1 .. n : q[i].contribution_pct \in Fractions) /\ Sum(t) = Whole(1)
  <2>1. \A i \in 1 .. n : Equals(q[i].contribution_pct, g[i], N) /\ N \in Nat \ {0}
    <3> SUFFICES ASSUME NEW i \in 1 .. n
                 PROVE  Equals(q[i].contribution_pct, g[i], N) /\ N \in Nat \ {0}
      OBVIOUS
    <3>1. b[i] \in D /\ q[i] = PartOf(marks, b[i]) /\ g[i] = m[b[i]]
      BY <1>7, <1>8, <1>10
    <3>2. N \in Nat \ {0} /\ Equals(PartOf(marks, b[i]).contribution_pct, m[b[i]], N)
      BY <1>1, <1>17, <3>1, PartIs
    <3>3. QED  BY <3>1, <3>2
  <2>2. N \in Nat \ {0}
    <3>1. PICK f \in D : TRUE
      BY <1>3
    <3>2. QED  BY <1>1, <1>17, <3>1, PartIs
  <2>3. \A i \in 1 .. n : t[i] = q[i].contribution_pct
    OBVIOUS
  <2>4. \A i \in 1 .. n : q[i].contribution_pct \in Fractions
    BY <2>1 DEF Equals
  <2>5. t \in [1 .. n -> Fractions]
    BY <2>4
  <2> HIDE DEF t, N
  <2>6. Numerators(t, g, N, n)
    BY <1>2, <1>10, <2>1, <2>2, <2>3, <2>5 DEF Numerators
  <2>7. Equals(Sum(t), N, N)
    BY <1>12, <2>6, SeriesSum DEF N
  <2>8. Equals(Whole(1), 1 * N, N) /\ 1 * N = N
    <3>1. 1 \in Int /\ N \in Int
      BY <2>2
    <3>2. 1 * N = N
      BY <3>1
    <3>3. QED  BY <3>1, <3>2, WholeEquals
  <2>9. N \in Int /\ N # 0
    BY <2>2
  <2>10. Sum(t) = Whole(1)
    BY <2>7, <2>8, <2>9, SameValue
  <2>11. QED  BY <2>4, <2>10
<1>18. n # 0
  <2>1. PICK f \in D : TRUE
    BY <1>3
  <2>2. \E i \in 1 .. n : TRUE
    BY <1>2, <1>4, <2>1
  <2>3. QED  BY <1>2, <2>2
<1>19. QED  BY <1>16, <1>17, <1>18 DEF o

-----------------------------------------------------------------------------
(* Published shares *)

LEMMA RoundedType ==
  ASSUME NEW x \in Fractions, NEW unit \in Nat \ {0}
  PROVE  RoundTo(x, unit) \in Fractions
<1> DEFINE low == (x.num * unit) \div x.den
           left == 2 * ((x.num * unit) % x.den)
           up == IF left > x.den \/ (left = x.den /\ low % 2 = 1) THEN low + 1 ELSE low
<1>1. x.num \in Int /\ x.den \in Nat \ {0} /\ x.num * unit \in Int
  BY FractionCombines
<1>2. low \in Int
  BY <1>1
<1>3. RoundTo(x, unit) = Frac(up, unit)
  BY DEF RoundTo
<1>4. up \in Int
  BY <1>2
<1> HIDE DEF up
<1>5. unit \in Int /\ unit # 0
  OBVIOUS
<1>6. Equals(Frac(up, unit), up, unit)
  BY <1>4, <1>5, FracIs
<1>7. QED  BY <1>3, <1>6 DEF Equals

\* What rounding takes is given back: the shares are a whole.
LEMMA CompletedIs ==
  ASSUME NEW n \in Nat \ {0}, NEW each \in [1 .. n -> Fractions]
  PROVE  Sum(Completed(each)) = Whole(1)
<1> DEFINE I == 1 .. n  L == {i \in I : \A j \in I : ~Less(each[i], each[j])}  l == Min(L)
           fix == Minus(Whole(1), Sum(each))  whole == Plus(each[l], fix)
           full == [each EXCEPT ![l] = whole]
<1>1. DOMAIN each = I /\ IsFiniteSet(I) /\ I # {} /\ I \subseteq Int
  <2>1. n \in Int /\ 1 \in Int /\ n >= 1
    OBVIOUS
  <2>2. IsFiniteSet(I)
    BY <2>1, FS_Interval
  <2>3. QED  BY <2>1, <2>2
<1>2. Completed(each) = full
  BY <1>1 DEF Completed
<1>3. l \in I
  <2> DEFINE S == {each[i] : i \in I}
  <2> HIDE DEF I
  <2>1. IsFiniteSet(S)
    BY <1>1, ImageIsFinite
  <2>2. S # {} /\ S \subseteq Fractions
    BY <1>1 DEF I
  <2> HIDE DEF S
  <2>3. \E x \in S : \A y \in S : ~Less(x, y)
    BY <2>1, <2>2, LeastFraction
  <2>4. \E i \in I : \A j \in I : ~Less(each[i], each[j])
    BY <2>3 DEF S
  <2>5. L # {} /\ L \subseteq I
    BY <2>4
  <2>6. IsFiniteSet(L) /\ L \subseteq Int
    BY <1>1, <2>5, FS_Subset
  <2> HIDE DEF L
  <2>7. QED  BY <2>5, <2>6, MinIs
<1>4. \E c \in Nat \ {0} : \E k \in [I -> Int] : \A i \in I : Equals(each[i], k[i], c)
  <2> HIDE DEF I
  <2>1. each \in [I -> Fractions]
    BY DEF I
  <2>2. QED  BY <1>1, <2>1, CommonDenominator
<1>5. PICK c \in Nat \ {0}, k \in [I -> Int] : \A i \in I : Equals(each[i], k[i], c)
  BY <1>4
<1> HIDE DEF l
<1> DEFINE T == SumFunction(k)  v == k[l] + (c - T)  g == [k EXCEPT ![l] = v]
<1>6. Equals(Sum(each), T, c)
  <2>1. Numerators(each, k, c, n)
    BY <1>5 DEF Numerators
  <2>2. QED  BY <2>1, SeriesSum
<1>7. T \in Int /\ k[l] \in Int /\ v \in Int
  <2>1. T \in Int
    <3> HIDE DEF I
    <3>1. QED  BY <1>1, SumType
  <2>2. k[l] \in Int
    BY <1>3
  <2>3. QED  BY <2>1, <2>2
<1>8. Equals(fix, c - T, c)
  <2>1. 1 * c = c /\ 1 \in Int /\ c \in Int
    OBVIOUS
  <2>2. Equals(Whole(1), c, c)
    <3>1. Equals(Whole(1), 1 * c, c)
      BY <2>1, WholeEquals
    <3>2. QED  BY <2>1, <3>1
  <2> HIDE DEF T
  <2>3. QED  BY <1>6, <1>7, <2>1, <2>2, MinusIs
<1>9. Equals(whole, v, c)
  <2> DEFINE a == k[l]  b == c - T
  <2>1. a \in Int /\ b \in Int /\ Equals(each[l], a, c) /\ Equals(fix, b, c)
    BY <1>3, <1>5, <1>7, <1>8
  <2> HIDE DEF a, b, fix
  <2>2. Equals(Plus(each[l], fix), a + b, c)
    BY <2>1, PlusIs
  <2>3. QED  BY <2>2 DEF a, b
<1> HIDE DEF whole, v, T
<1>10. g \in [I -> Int] /\ g[l] = v /\ \A i \in I : i # l => g[i] = k[i]
  BY <1>3, <1>7
<1>11. full \in [I -> Fractions] /\ full[l] = whole /\ \A i \in I : i # l => full[i] = each[i]
  BY <1>3, <1>9 DEF Equals
<1> HIDE DEF g, full
<1>12. SumFunction(g) = T + (v - k[l])
  <2>1. IsFiniteSet(I) /\ k \in [I -> Int] /\ g \in [I -> Int] /\ l \in I
    BY <1>1, <1>3, <1>10
  <2>2. OnlyAt(I, k, g, l)
    BY <1>10 DEF OnlyAt
  <2> HIDE DEF I
  <2>3. SumFunction(g) = SumFunction(k) + (g[l] - k[l])
    BY <2>1, <2>2, SumWith
  <2>4. QED  BY <1>10, <2>3 DEF T
<1>13. SumFunction(g) = c
  BY <1>7, <1>12 DEF v
<1>14. Numerators(full, g, c, n)
  <2>1. \A i \in I : Equals(full[i], g[i], c)
    BY <1>5, <1>9, <1>10, <1>11
  <2>2. QED  BY <1>10, <1>11, <2>1 DEF Numerators
<1>15. Equals(Sum(full), c, c)
  BY <1>13, <1>14, SeriesSum
<1>16. Equals(Whole(1), c, c)
  <2>1. 1 * c = c /\ 1 \in Int /\ c \in Int
    OBVIOUS
  <2>2. Equals(Whole(1), 1 * c, c)
    BY <2>1, WholeEquals
  <2>3. QED  BY <2>1, <2>2
<1>17. c \in Int /\ c # 0
  OBVIOUS
<1>18. QED  BY <1>2, <1>15, <1>16, <1>17, SameValue

\* Everything that explains a rank adds up to it.
LEMMA RankExplained ==
  ASSUME NEW marks, ScoreShape(marks), Missing \notin Fractions, Unit \in Nat \ {0},
         NEW stock, NEW row, NEW rank, NEW total, NEW r,
         r = RankingOf(stock, row, decompose_score(marks))
  PROVE  /\ Explained(to_ranking_payload(r, rank, total))
         /\ to_ranking_payload(r, rank, total).symbol = stock
<1> DEFINE p == to_ranking_payload(r, rank, total)  o == compute_overall_score(marks)
           d == decompose_score(marks)  q == d.contributions
<1>1. /\ r.stock = stock /\ r.overall_score = d.overall_score /\ r.contributions = q
  BY DEF RankingOf
<1>2. /\ d.overall_score = o
      /\ \E n : Lists(q, PartsOf(marks), ByShares(PartsOf(marks)), n)
  BY DecomposedIs
<1>3. PICK n : Lists(q, PartsOf(marks), ByShares(PartsOf(marks)), n)
  BY <1>2
<1>4. DOMAIN q = 1 .. n /\ n \in Nat
  BY <1>3 DEF Lists
<1> HIDE DEF q, d
<1> DEFINE t == [i \in DOMAIN q |-> q[i].contribution_pct]
<1>5. /\ p.symbol = stock /\ p.overall_score = o /\ p.contributions = q
      /\ p.shares = IF \E i \in DOMAIN t : t[i] = Missing THEN <<>> ELSE RoundedShares(t)
  BY <1>1, <1>2 DEF to_ranking_payload
<1> HIDE DEF p
<1>6. ASSUME Available(marks) # {} PROVE Explained(p)
  <2> DEFINE s == [i \in 1 .. n |-> q[i].weighted_score]
  <2>1. /\ n # 0 /\ Sum(s) = o
        /\ o # Zero => /\ \A i \in 1 .. n : q[i].contribution_pct \in Fractions
                       /\ Sum([i \in 1 .. n |-> q[i].contribution_pct]) = Whole(1)
    <3> HIDE DEF s, o
    <3>1. QED  BY <1>3, <1>6, ContributionsAddUp DEF s, o
  <2>2. Sum([i \in DOMAIN p.contributions |-> p.contributions[i].weighted_score]) = p.overall_score
    BY <1>4, <1>5, <2>1
  <2>3. ASSUME o # Zero PROVE Sum(p.shares) = Whole(1)
    <3>1. \A i \in 1 .. n : q[i].contribution_pct \in Fractions
      BY <2>1, <2>3
    <3>2. t \in [1 .. n -> Fractions] /\ t = [i \in 1 .. n |-> q[i].contribution_pct]
      BY <1>4, <3>1
    <3>3. Sum(t) = Whole(1)
      BY <2>1, <2>3, <3>2
    <3> HIDE DEF t
    <3>4. DOMAIN t = 1 .. n /\ \A i \in 1 .. n : t[i] # Missing
      BY <3>2
    <3>5. p.shares = RoundedShares(t)
      BY <1>5, <3>4
    <3>6. t # <<>>
      BY <1>4, <2>1, <3>4
    <3> DEFINE e == [i \in 1 .. n |-> Rounded(t[i])]
    <3>7. RoundedShares(t) = Completed(e)
      BY <3>3, <3>4, <3>6 DEF RoundedShares
    <3>8. \A i \in 1 .. n : Rounded(t[i]) \in Fractions
      <4> SUFFICES ASSUME NEW i \in 1 .. n PROVE Rounded(t[i]) \in Fractions
        OBVIOUS
      <4>1. t[i] \in Fractions
        BY <3>2
      <4>2. QED  BY <4>1, RoundedType DEF Rounded
    <3>9. e \in [1 .. n -> Fractions]
      BY <3>8
    <3> HIDE DEF e
    <3>10. n \in Nat \ {0}
      BY <1>4, <2>1
    <3>11. Sum(Completed(e)) = Whole(1)
      BY <3>9, <3>10, CompletedIs
    <3>12. QED  BY <3>5, <3>7, <3>11
  <2>4. QED  BY <1>5, <2>2, <2>3 DEF Explained
<1>7. ASSUME Available(marks) = {} PROVE Explained(p)
  <2>1. o = Missing
    BY <1>7, OverallScoreType
  <2>2. QED  BY <1>5, <2>1 DEF Explained
<1>8. QED  BY <1>5, <1>6, <1>7 DEF p

-----------------------------------------------------------------------------
(* The ranking of a universe *)

\* Scores of the stocks of D, and their rows, each stock in one.
Scoring(universe, rows, D, n) ==
  /\ DOMAIN universe = D /\ \A s \in D : ScoreShape(universe[s])
  /\ n \in Nat /\ rows \in [1 .. n -> D] /\ \A s \in D : \E i \in 1 .. n : rows[i] = s
  /\ Missing \notin Fractions /\ Unit \in Nat \ {0}

RankingAt(universe, rows, i) == RankingOf(rows[i], i, decompose_score(universe[rows[i]]))
RankingsOf(universe, rows) == {RankingAt(universe, rows, i) : i \in DOMAIN rows}
ByScores(D) ==
  {p \in D \X D : \/ RankedBefore(p[1], p[2])
                  \/ ~RankedBefore(p[2], p[1]) /\ p[1].row < p[2].row}

LEMMA RankingAtIs ==
  ASSUME NEW universe, NEW rows, NEW D, NEW n, Scoring(universe, rows, D, n), NEW i \in 1 .. n
  PROVE  /\ RankingAt(universe, rows, i).stock = rows[i] /\ RankingAt(universe, rows, i).row = i
         /\ RankingAt(universe, rows, i).overall_score = compute_overall_score(universe[rows[i]])
         /\ RankingAt(universe, rows, i).overall_score \in Fractions \cup {Missing}
<1>1. rows[i] \in D /\ ScoreShape(universe[rows[i]]) /\ Missing \notin Fractions
  BY DEF Scoring
<1>2. decompose_score(universe[rows[i]]).overall_score = compute_overall_score(universe[rows[i]])
  BY <1>1, DecomposedIs
<1>3. compute_overall_score(universe[rows[i]]) \in Fractions \cup {Missing}
  BY <1>1, OverallScoreType
<1>4. QED  BY <1>2, <1>3 DEF RankingAt, RankingOf

\* The scores put the rankings in a row: stocks of one score keep their order.
LEMMA ScoresAreARow ==
  ASSUME NEW D, \A x \in D : x.overall_score \in Fractions \cup {Missing} /\ x.row \in Int,
         \A x, y \in D : x.row = y.row => x = y
  PROVE  InARow(D, ByScores(D))
<1> DEFINE R == ByScores(D)
<1>1. \A x, y \in D : <<x, y>> \in R <=> \/ RankedBefore(x, y)
                                         \/ ~RankedBefore(y, x) /\ x.row < y.row
  BY DEF ByScores
<1> HIDE DEF R
<1>2. ASSUME NEW x \in D, NEW y \in D PROVE x = y \/ <<x, y>> \in R \/ <<y, x>> \in R
  <2>1. x = y \/ x.row < y.row \/ y.row < x.row
    OBVIOUS
  <2>2. QED  BY <1>1, <2>1
<1>3. \A x \in D : ~RankedBefore(x, x)
  BY LessTotal DEF RankedBefore
<1>4. ASSUME NEW x \in D PROVE <<x, x>> \notin R
  <2>1. ~RankedBefore(x, x) /\ ~(x.row < x.row)
    BY <1>3
  <2>2. QED  BY <1>1, <2>1
<1>5. ASSUME NEW x \in D, NEW y \in D, NEW z \in D, <<x, y>> \in R, <<y, z>> \in R
      PROVE  <<x, z>> \in R
  <2> DEFINE a == x.overall_score  b == y.overall_score  d == z.overall_score
             i == x.row  j == y.row  l == z.row
  <2>1. /\ a \in Fractions \cup {Missing} /\ b \in Fractions \cup {Missing}
        /\ d \in Fractions \cup {Missing} /\ i \in Int /\ j \in Int /\ l \in Int
    OBVIOUS
  <2>2. /\ RankedBefore(x, y) <=> (a # Missing /\ b = Missing)
                                  \/ (a # Missing /\ b # Missing /\ Less(b, a))
        /\ RankedBefore(y, x) <=> (b # Missing /\ a = Missing)
                                  \/ (b # Missing /\ a # Missing /\ Less(a, b))
        /\ RankedBefore(y, z) <=> (b # Missing /\ d = Missing)
                                  \/ (b # Missing /\ d # Missing /\ Less(d, b))
        /\ RankedBefore(z, y) <=> (d # Missing /\ b = Missing)
                                  \/ (d # Missing /\ b # Missing /\ Less(b, d))
        /\ RankedBefore(x, z) <=> (a # Missing /\ d = Missing)
                                  \/ (a # Missing /\ d # Missing /\ Less(d, a))
        /\ RankedBefore(z, x) <=> (d # Missing /\ a = Missing)
                                  \/ (d # Missing /\ a # Missing /\ Less(a, d))
    BY DEF RankedBefore
  <2>3. /\ RankedBefore(x, y) \/ (~RankedBefore(y, x) /\ i < j)
        /\ RankedBefore(y, z) \/ (~RankedBefore(z, y) /\ j < l)
    BY <1>1, <1>5
  <2> HIDE DEF a, b, d, i, j, l
  <2>4. a \in Fractions /\ b \in Fractions =>
          (Less(a, b) \/ Less(b, a) \/ a = b) /\ ~(Less(a, b) /\ Less(b, a))
    BY LessTotal
  <2>5. b \in Fractions /\ d \in Fractions =>
          (Less(b, d) \/ Less(d, b) \/ b = d) /\ ~(Less(b, d) /\ Less(d, b))
    BY LessTotal
  <2>6. a \in Fractions /\ d \in Fractions =>
          (Less(a, d) \/ Less(d, a) \/ a = d) /\ ~(Less(a, d) /\ Less(d, a))
    BY LessTotal
  <2>7. a \in Fractions /\ b \in Fractions /\ d \in Fractions /\ Less(d, b) /\ Less(b, a) => Less(d, a)
    BY LessOn
  <2>8. RankedBefore(x, z) \/ (~RankedBefore(z, x) /\ i < l)
    BY <2>1, <2>2, <2>3, <2>4, <2>5, <2>6, <2>7
  <2>9. QED  BY <1>1, <2>8 DEF i, l
<1>6. QED  BY <1>2, <1>4, <1>5 DEF InARow, R

\* Sorted by score, each ranking once.
LEMMA RankingsAre ==
  ASSUME NEW universe, NEW rows, NEW D, NEW n, Scoring(universe, rows, D, n)
  PROVE  /\ DOMAIN rows = 1 .. n /\ Len(rows) = n
         /\ Lists(score_universe(universe, rows), RankingsOf(universe, rows),
                  ByScores(RankingsOf(universe, rows)), n)
<1> DEFINE S == RankingsOf(universe, rows)  I == 1 .. n  g == [i \in I |-> RankingAt(universe, rows, i)]
<1>1. n \in Nat /\ DOMAIN rows = I /\ Len(rows) = n
  BY DEF Scoring
<1>2. S = {g[i] : i \in I} /\ DOMAIN g = I /\ \A i \in I : g[i] = RankingAt(universe, rows, i)
  BY <1>1 DEF RankingsOf
<1>3. \A i \in I : g[i].row = i /\ g[i].overall_score \in Fractions \cup {Missing}
  BY <1>2, RankingAtIs
<1>4. score_universe(universe, rows) = Sorted(S, ByScores(S))
  BY DEF score_universe, ByScore, ByScores, RankingsOf, RankingAt
<1>5. IsFiniteSet(I) /\ Cardinality(I) = n
  <2>1. n \in Int /\ 1 \in Int /\ n >= 0
    BY <1>1
  <2>2. IsFiniteSet(1 .. n) /\ Cardinality(1 .. n) = n
    BY <1>1, FS_Interval
  <2>3. QED  BY <2>2
<1>6. \A i \in I : i \in Int
  BY <1>1
<1> HIDE DEF S, g, I
<1>7. IsFiniteSet(S) /\ Cardinality(S) = n
  <2>1. \A i, j \in I : g[i] = g[j] => i = j
    BY <1>3
  <2>2. IsFiniteSet({g[i] : i \in I}) /\ Cardinality({g[i] : i \in I}) = Cardinality(I)
    BY <1>2, <1>5, <2>1, ImageIsFinite
  <2>3. QED  BY <1>2, <1>5, <2>2
<1>8. \A x \in S : x.overall_score \in Fractions \cup {Missing} /\ x.row \in Int
  BY <1>2, <1>3, <1>6
<1>9. \A x, y \in S : x.row = y.row => x = y
  BY <1>2, <1>3
<1>10. InARow(S, ByScores(S))
  BY <1>8, <1>9, ScoresAreARow
<1>11. Lists(Sorted(S, ByScores(S)), S, ByScores(S), n)
  BY <1>7, <1>10, SortedIs
<1>12. QED  BY <1>1, <1>4, <1>11 DEF S, I

\* A payload is made of the scores of a stock.
MadeOfScores(p) ==
  \E marks, stock, row, rank, total :
    ScoreShape(marks) /\ p = to_ranking_payload(RankingOf(stock, row, decompose_score(marks)), rank, total)

\* What is published of the stocks, in the order of their scores.
LEMMA PayloadsAre ==
  ASSUME NEW universe, NEW rows, NEW D, NEW n, Scoring(universe, rows, D, n),
         NEW ps, ps = Payloads(universe, rows)
  PROVE  /\ DOMAIN ps = 1 .. n /\ Len(ps) = n
         /\ \A i \in 1 .. n : ps[i].symbol \in D /\ Explained(ps[i]) /\ MadeOfScores(ps[i])
         /\ \A s \in D : \E i \in 1 .. n : ps[i].symbol = s
         /\ \A i, j \in 1 .. n : Dominates(universe[ps[i].symbol], universe[ps[j].symbol]) => i < j
<1> DEFINE q == score_universe(universe, rows)  S == RankingsOf(universe, rows)  R == ByScores(S)
<1>1. DOMAIN rows = 1 .. n /\ Len(rows) = n /\ Lists(q, S, R, n)
  BY RankingsAre
<1>2. /\ n \in Nat /\ q \in [1 .. n -> S] /\ \A x \in S : \E i \in 1 .. n : q[i] = x
      /\ \A i, j \in 1 .. n : i < j <=> <<q[i], q[j]>> \in R
  BY <1>1 DEF Lists
<1>3. ps = [i \in 1 .. n |-> to_ranking_payload(q[i], i, n)]
  BY <1>1 DEF Payloads
<1>4. DOMAIN ps = 1 .. n /\ Len(ps) = n /\ \A i \in 1 .. n : ps[i] = to_ranking_payload(q[i], i, n)
  BY <1>2, <1>3
<1>5. /\ \A x \in S : \E i \in 1 .. n : x = RankingAt(universe, rows, i)
      /\ \A i \in 1 .. n : RankingAt(universe, rows, i) \in S
  BY <1>1 DEF RankingsOf
<1>6. \A x, y \in S : RankedBefore(x, y) => <<x, y>> \in R
  BY DEF ByScores
<1> HIDE DEF q, S, R
<1>7. \A i \in 1 .. n : \E j \in 1 .. n : q[i] = RankingAt(universe, rows, j)
  BY <1>2, <1>5
<1>8. ASSUME NEW i \in 1 .. n
      PROVE  /\ ps[i].symbol = q[i].stock /\ q[i].stock \in D /\ Explained(ps[i])
             /\ MadeOfScores(ps[i])
             /\ q[i].overall_score = compute_overall_score(universe[q[i].stock])
  <2>1. PICK j \in 1 .. n : q[i] = RankingAt(universe, rows, j)
    BY <1>7
  <2>2. /\ q[i].stock = rows[j] /\ q[i].overall_score = compute_overall_score(universe[rows[j]])
    BY <2>1, RankingAtIs
  <2>3. rows[j] \in D /\ ScoreShape(universe[rows[j]]) /\ Missing \notin Fractions /\ Unit \in Nat \ {0}
    BY DEF Scoring
  <2>4. q[i] = RankingOf(rows[j], j, decompose_score(universe[rows[j]]))
    BY <2>1 DEF RankingAt
  <2>5. /\ Explained(to_ranking_payload(q[i], i, n))
        /\ to_ranking_payload(q[i], i, n).symbol = rows[j]
    BY <2>3, <2>4, RankExplained
  <2>6. MadeOfScores(to_ranking_payload(q[i], i, n))
    BY <2>3, <2>4 DEF MadeOfScores
  <2>7. QED  BY <1>4, <2>2, <2>3, <2>5, <2>6
<1>9. \A s \in D : \E i \in 1 .. n : ps[i].symbol = s
  <2> SUFFICES ASSUME NEW s \in D PROVE \E i \in 1 .. n : ps[i].symbol = s
    OBVIOUS
  <2>1. PICK j \in 1 .. n : rows[j] = s
    BY DEF Scoring
  <2>2. RankingAt(universe, rows, j) \in S /\ RankingAt(universe, rows, j).stock = s
    BY <1>5, <2>1, RankingAtIs
  <2>3. PICK i \in 1 .. n : q[i] = RankingAt(universe, rows, j)
    BY <1>2, <2>2
  <2>4. QED  BY <1>8, <2>2, <2>3
<1>10. ASSUME NEW i \in 1 .. n, NEW j \in 1 .. n,
              Dominates(universe[ps[i].symbol], universe[ps[j].symbol])
       PROVE  i < j
  <2> DEFINE a == q[i].stock  b == q[j].stock
  <2>1. a \in D /\ b \in D /\ Dominates(universe[a], universe[b])
    BY <1>8, <1>10
  <2>2. /\ ScoreShape(universe[a]) /\ ScoreShape(universe[b]) /\ Missing \notin Fractions
    BY <2>1 DEF Scoring
  <2>3. Available(universe[a]) # {} /\ Available(universe[b]) # {}
    BY <2>1 DEF Dominates
  <2>4. Less(compute_overall_score(universe[b]), compute_overall_score(universe[a]))
    BY <2>1, <2>2, DominatingIsMore
  <2>5. /\ compute_overall_score(universe[a]) \in Fractions
        /\ compute_overall_score(universe[b]) \in Fractions
    BY <2>2, <2>3, OverallScoreType
  <2>6. RankedBefore(q[i], q[j])
    BY <1>8, <2>2, <2>4, <2>5 DEF RankedBefore
  <2>7. q[i] \in S /\ q[j] \in S
    BY <1>2
  <2>8. QED  BY <1>2, <1>6, <2>6, <2>7
<1>11. QED  BY <1>4, <1>8, <1>9, <1>10

\* Every stock is ranked once, its rank is explained, and no better stock ranks below it.
LEMMA RankingExplained ==
  ASSUME NEW universe, NEW rows, NEW D, NEW n, Scoring(universe, rows, D, n)
  PROVE  RankingIsExplained(universe, rows)
<1> DEFINE ps == Payloads(universe, rows)
<1>1. /\ DOMAIN ps = 1 .. n /\ Len(ps) = n
      /\ \A i \in 1 .. n : ps[i].symbol \in D /\ Explained(ps[i])
      /\ \A s \in D : \E i \in 1 .. n : ps[i].symbol = s
      /\ \A i, j \in 1 .. n : Dominates(universe[ps[i].symbol], universe[ps[j].symbol]) => i < j
  BY PayloadsAre
<1>2. Len(rows) = n /\ DOMAIN universe = D
  BY DEF Scoring
<1> HIDE DEF ps
<1>3. {ps[i].symbol : i \in DOMAIN ps} = DOMAIN universe
  BY <1>1, <1>2
<1>4. QED  BY <1>1, <1>2, <1>3 DEF RankingIsExplained, ps

LEMMA ScoresOfAllAre ==
  ASSUME NEW D, NEW raws, RawShape(raws, D), NEW n \in Nat, NEW rows \in [1 .. n -> D],
         \A s \in D : \E i \in 1 .. n : rows[i] = s, Missing \notin Fractions, Unit \in Nat \ {0}
  PROVE  Scoring(ScoresOfAll(raws), rows, D, n)
<1>1. DOMAIN raws = D
  BY DEF RawShape
<1>2. DOMAIN ScoresOfAll(raws) = D
      /\ \A s \in D : ScoresOfAll(raws)[s] = compute_factor_scores(raws[s], raws)
  BY <1>1 DEF ScoresOfAll
<1>3. \A s \in D : ScoreShape(ScoresOfAll(raws)[s])
  BY <1>2, FactorScoresAre
<1>4. QED  BY <1>2, <1>3 DEF Scoring

-----------------------------------------------------------------------------
(* The raw price factors are values or missing *)

LEMMA StrengthType ==
  ASSUME NEW g, NEW l, Amount(g), Amount(l)
  PROVE  Strength(g, l) \in Fractions
<1>1. Whole(100) \in Fractions /\ Whole(1) \in Fractions /\ Amount(Whole(1))
  BY WholeIs, WholeAmount
<1>2. CASE l = Zero
  BY <1>1, <1>2 DEF Strength
<1>3. CASE l # Zero
  <2> DEFINE x == Over2(g, l)  y == Plus(Whole(1), x)  q == Over2(Whole(100), y)
  <2>1. Amount(x)
    BY <1>3, AmountOver
  <2> HIDE DEF x
  <2>2. x \in Fractions /\ x.num \in Int /\ x.den \in Nat \ {0} /\ Equals(x, x.num, x.den)
    BY <2>1, Itself DEF Amount, Fractions
  <2> DEFINE r == x.num  c == x.den
  <2>3. r >= 0
    BY <2>1, <2>2, AmountIs
  <2>4. Equals(Whole(1), c, c)
    <3>1. 1 * c = c /\ c \in Int /\ 1 \in Int
      BY <2>2
    <3> HIDE DEF c
    <3>2. Equals(Whole(1), 1 * c, c)
      BY <3>1, WholeEquals
    <3>3. QED  BY <3>1, <3>2
  <2>5. Equals(y, c + r, c)
    <3>1. c \in Int /\ r \in Int /\ c \in Nat \ {0} /\ Equals(x, r, c)
      BY <2>2
    <3> HIDE DEF c, r
    <3>2. QED  BY <2>4, <3>1, PlusIs
  <2>6. y \in Fractions /\ y # Zero
    <3>1. y \in Fractions
      BY <2>5 DEF Equals
    <3>2. y.num * c = (c + r) * y.den /\ c + r > 0 /\ y.den \in Nat \ {0}
      BY <2>2, <2>3, <2>5, <3>1 DEF Equals, Fractions
    <3>3. ASSUME y = Zero PROVE FALSE
      <4>1. y.num = 0 /\ y.den = 1
        BY <3>3 DEF Zero, Whole
      <4> DEFINE z == c + r
      <4>2. z \in Int /\ z > 0 /\ 0 * c = z * 1
        BY <2>2, <3>2, <4>1
      <4>3. c \in Int
        BY <2>2
      <4> HIDE DEF z, c
      <4>4. QED  BY <4>2, <4>3
    <3>4. QED  BY <3>1, <3>3
  <2> HIDE DEF y
  <2>7. q \in Fractions
    BY <1>1, <2>6, QuotientType
  <2> HIDE DEF q
  <2>8. Minus(Whole(100), q) \in Fractions
    BY <1>1, <2>7, MinusType
  <2>9. QED  BY <1>3, <2>8 DEF Strength, q, y, x
<1>4. QED  BY <1>2, <1>3

LEMMA RsiType ==
  ASSUME NEW n \in Nat, NEW s \in [1 .. n -> Fractions], NEW w \in Nat \ {0}, NEW i \in 1 .. n
  PROVE  rsi(s, w)[i] \in Fractions \cup {Missing}
<1>1. Begins(s, s, n, n) /\ n >= 1
  BY DEF Begins
<1>2. DOMAIN s = 1 .. n
  OBVIOUS
<1> DEFINE g == Wilder(Gains(s), w)  l == Wilder(Falling(s), w)  m == n - 1
<1>3. rsi(s, w) = [j \in 1 .. n |-> IF j <= w THEN Missing ELSE Strength(g[j - 1], l[j - 1])]
  BY <1>2, RsiIs
<1>4. /\ Gains(s) \in [1 .. n - 1 -> Fractions] /\ Falling(s) \in [1 .. n - 1 -> Fractions]
      /\ \A j \in 1 .. n - 1 : Amount(Gains(s)[j]) /\ Amount(Falling(s)[j])
  BY <1>1, ChangesBegin
<1>5. m \in Nat
  BY <1>1
<1>6. \A j \in 1 .. m : j >= w => Amount(g[j]) /\ Amount(l[j])
  <2> DEFINE a == Gains(s)  b == Falling(s)
  <2>1. a \in [1 .. m -> Fractions] /\ b \in [1 .. m -> Fractions]
    BY <1>4
  <2>2. (\A j \in 1 .. m : Amount(a[j])) /\ (\A j \in 1 .. m : Amount(b[j]))
    BY <1>4
  <2> HIDE DEF a, b, m
  <2>3. \A j \in 1 .. m : j >= w => Amount(Wilder(a, w)[j])
    BY <1>5, <2>1, <2>2, WilderIs
  <2>4. \A j \in 1 .. m : j >= w => Amount(Wilder(b, w)[j])
    BY <1>5, <2>1, <2>2, WilderIs
  <2>5. QED  BY <2>3, <2>4 DEF a, b
<1> HIDE DEF g, l
<1>7. CASE i <= w
  BY <1>3, <1>7
<1>8. CASE ~(i <= w)
  <2>1. i - 1 \in 1 .. m /\ i - 1 >= w
    BY <1>8
  <2>2. Strength(g[i - 1], l[i - 1]) \in Fractions
    BY <1>6, <2>1, StrengthType
  <2>3. QED  BY <1>3, <1>8, <2>2
<1>9. QED  BY <1>7, <1>8

LEMMA RatioType ==
  ASSUME NEW a \in Fractions, NEW b \in Fractions
  PROVE  RatioOf(a, b) \in Fractions \cup {Missing}
BY QuotientType DEF RatioOf

LEMMA ReturnType ==
  ASSUME NEW n \in Nat, NEW s \in [1 .. n -> Fractions], NEW w \in Nat \ {0}, NEW i \in 1 .. n
  PROVE  return_n(s, w)[i] \in Fractions \cup {Missing}
<1>1. return_n(s, w)[i] = IF i <= w THEN Missing ELSE RatioOf(Minus(s[i], s[i - w]), s[i - w])
  BY DEF return_n
<1>2. ASSUME i > w PROVE RatioOf(Minus(s[i], s[i - w]), s[i - w]) \in Fractions \cup {Missing}
  <2>1. i - w \in 1 .. n
    BY <1>2
  <2>2. s[i] \in Fractions /\ s[i - w] \in Fractions
    BY <2>1
  <2>3. Minus(s[i], s[i - w]) \in Fractions
    BY <2>2, MinusType
  <2>4. QED  BY <2>2, <2>3, RatioType
<1>3. QED  BY <1>1, <1>2

\* What is known of a series.
LEMMA DefinedIs ==
  ASSUME NEW n \in Nat, NEW s, DOMAIN s = 1 .. n, \A i \in 1 .. n : s[i] \in Fractions \cup {Missing}
  PROVE  \E m \in Nat : Defined(s) \in [1 .. m -> Fractions]
<1> DEFINE P == {i \in 1 .. n : s[i] # Missing}  m == Cardinality(P)
<1>1. Defined(s) = [j \in 1 .. m |-> s[Nth(P, j)]]
  BY DEF Defined, Picked
<1>2. IsFiniteSet(P) /\ P \subseteq Int /\ P \subseteq 1 .. n
  <2>1. IsFiniteSet(1 .. n)
    BY FS_Interval
  <2>2. P \subseteq 1 .. n
    OBVIOUS
  <2>3. QED  BY <2>1, <2>2, FS_Subset
<1>3. m \in Nat
  BY <1>2, FS_CardinalityType
<1>4. \A i \in P : s[i] \in Fractions
  OBVIOUS
<1> HIDE DEF P
<1>5. \A j \in 1 .. m : Nth(P, j) \in P
  BY <1>2, NthIs
<1>6. \A j \in 1 .. m : s[Nth(P, j)] \in Fractions
  BY <1>4, <1>5
<1> HIDE DEF m
<1>7. Defined(s) \in [1 .. m -> Fractions]
  BY <1>1, <1>6
<1>8. QED  BY <1>3, <1>7

LEMMA DeviationsType ==
  ASSUME NEW n \in Nat \ {0}, NEW s \in [1 .. n -> Fractions]
  PROVE  Deviations(s) \in Fractions
<1>1. Mean(s) \in Fractions
  BY MeanType
<1> DEFINE a == Mean(s)  t == [j \in DOMAIN s |-> Square(Minus(s[j], a))]
<1> HIDE DEF a
<1>2. \A j \in 1 .. n : Square(Minus(s[j], a)) \in Fractions
  <2> SUFFICES ASSUME NEW j \in 1 .. n PROVE Square(Minus(s[j], a)) \in Fractions
    OBVIOUS
  <2>1. Minus(s[j], a) \in Fractions
    BY <1>1, MinusType DEF a
  <2>2. QED  BY <2>1, TimesType DEF Square
<1>3. t \in [1 .. n -> Fractions]
  BY <1>2
<1>4. Deviations(s) = Sum(t)
  BY DEF Deviations, a
<1> HIDE DEF t
<1>5. Sum(t) \in Fractions
  BY <1>3, SeriesSumType
<1>6. QED  BY <1>4, <1>5

LEMMA VolatilityType ==
  ASSUME NEW n \in Nat, NEW s \in [1 .. n -> Fractions], NEW w \in Nat \ {0}, NEW i \in 1 .. n
  PROVE  volatility(s, w)[i] \in Fractions \cup {Missing}
<1> DEFINE d == [j \in 1 .. w |-> DailyRatio(s, i - w + j)]  valid == Defined(d)
<1>1. volatility(s, w)[i] = IF i <= w \/ Len(valid) < 2 THEN Missing
                            ELSE Over2(Deviations(valid), Whole(Len(valid) - 1))
  BY DEF volatility
<1>2. ASSUME i > w
      PROVE  (IF Len(valid) < 2 THEN Missing ELSE Over2(Deviations(valid), Whole(Len(valid) - 1)))
               \in Fractions \cup {Missing}
  <2>1. \A j \in 1 .. w : DailyRatio(s, i - w + j) \in Fractions \cup {Missing}
    <3> SUFFICES ASSUME NEW j \in 1 .. w PROVE DailyRatio(s, i - w + j) \in Fractions \cup {Missing}
      OBVIOUS
    <3> DEFINE k == i - w + j
    <3>1. k \in 1 .. n /\ k - 1 \in 1 .. n
      BY <1>2
    <3> HIDE DEF k
    <3>2. s[k] \in Fractions /\ s[k - 1] \in Fractions
      BY <3>1
    <3>3. Less(Zero, s[k - 1]) => s[k - 1] # Zero
      BY <3>2, LessTotal
    <3>4. Less(Zero, s[k - 1]) => Over2(s[k], s[k - 1]) \in Fractions
      BY <3>2, <3>3, QuotientType
    <3>5. DailyRatio(s, k) \in Fractions \cup {Missing}
      BY <3>4 DEF DailyRatio
    <3>6. QED  BY <3>5 DEF k
  <2>2. DOMAIN d = 1 .. w /\ \A j \in 1 .. w : d[j] \in Fractions \cup {Missing}
    BY <2>1
  <2> HIDE DEF d
  <2>3. \E m \in Nat : Defined(d) \in [1 .. m -> Fractions]
    BY <2>2, DefinedIs
  <2>4. PICK m \in Nat : valid \in [1 .. m -> Fractions]
    BY <2>3
  <2> HIDE DEF valid
  <2>5. Len(valid) = m
    BY <2>4
  <2>6. ASSUME m >= 2 PROVE Over2(Deviations(valid), Whole(m - 1)) \in Fractions
    <3> DEFINE q == m - 1
    <3>1. q \in Nat \ {0} /\ q \in Int /\ m \in Nat \ {0}
      BY <2>6
    <3>2. Deviations(valid) \in Fractions
      BY <2>4, <3>1, DeviationsType
    <3> HIDE DEF q
    <3>3. Whole(q) \in Fractions /\ Whole(q) # Zero
      BY <3>1, WholeIs, WholeNotZero
    <3>4. Over2(Deviations(valid), Whole(q)) \in Fractions
      BY <3>2, <3>3, QuotientType
    <3>5. QED  BY <3>4 DEF q
  <2>7. m < 2 \/ m >= 2
    OBVIOUS
  <2>8. QED  BY <2>5, <2>6, <2>7
<1>3. i > w => ~(i <= w)
  OBVIOUS
<1>4. QED  BY <1>1, <1>2, <1>3

\* The raw factors of n closes.
LEMMA RawPriceType ==
  ASSUME IndicatorsAssumption, NEW n \in Nat \ {0}, NEW s \in [1 .. n -> Fractions]
  PROVE  raw_price_factors(s) \in [Factors -> Fractions \cup {Missing}]
<1>1. Period.rsi \in Nat \ {0} /\ Period.roc \in Nat \ {0} /\ Period.vol \in Nat \ {0}
  BY PeriodsAre
<1>2. n \in 1 .. n /\ DOMAIN s = 1 .. n
  OBVIOUS
<1> DEFINE a == rsi(s, Period.rsi)  b == return_n(s, Period.roc)  c == volatility(s, Period.vol)
<1>3. /\ a[n] \in Fractions \cup {Missing} /\ b[n] \in Fractions \cup {Missing}
      /\ c[n] \in Fractions \cup {Missing}
  BY <1>1, <1>2, RsiType, ReturnType, VolatilityType
<1>4. Len(a) = n /\ Len(b) = n /\ Len(c) = n
  <2>1. a = [i \in 1 .. n |-> a[i]]
    <3>1. a = [i \in 1 .. n |-> IF i <= Period.rsi THEN Missing
                ELSE Strength(Wilder(Gains(s), Period.rsi)[i - 1], Wilder(Falling(s), Period.rsi)[i - 1])]
      BY <1>2, RsiIs
    <3> HIDE DEF a
    <3>2. QED  BY <3>1
  <2>2. DOMAIN b = 1 .. n
    BY <1>2 DEF return_n
  <2>3. DOMAIN c = 1 .. n
    BY <1>2 DEF volatility
  <2>4. b = [i \in 1 .. n |-> b[i]] /\ c = [i \in 1 .. n |-> c[i]]
    BY <1>2 DEF return_n, volatility
  <2> HIDE DEF a, b, c
  <2>5. Len([i \in 1 .. n |-> a[i]]) = n /\ Len([i \in 1 .. n |-> b[i]]) = n /\ Len([i \in 1 .. n |-> c[i]]) = n
    OBVIOUS
  <2>6. QED  BY <2>1, <2>4, <2>5
<1>5. Last(a) = a[n] /\ Last(b) = b[n] /\ Last(c) = c[n]
  BY <1>4 DEF Last
<1> HIDE DEF a, b, c
<1>6. Negated(Last(c)) \in Fractions \cup {Missing}
  <2>1. c[n] \in Fractions => Minus(Zero, c[n]) \in Fractions
    BY MinusType, WholeIs DEF Zero
  <2>2. QED  BY <1>3, <1>5, <2>1 DEF Negated
<1>7. raw_price_factors(s) = [f \in Factors |->
        CASE f = "technical" -> Last(a) [] f = "momentum" -> Last(b)
          [] f = "risk" -> Negated(Last(c)) [] OTHER -> Missing]
  BY DEF raw_price_factors, a, b, c
<1>8. QED  BY <1>3, <1>5, <1>6, <1>7

-----------------------------------------------------------------------------
(* Bars in the order of their days *)

\* Bars of one stock, each of a day of its own.
Dated(B) ==
  /\ IsFiniteSet(B) /\ \A b \in B : b.day \in Int /\ Printed(b.close)
  /\ \A b, c \in B : b.day = c.day => b = c
ByDay(B) == {p \in B \X B : p[1].day < p[2].day}

\* b is the newest of the bars, c the one before it.
Newest1(B, b) == b \in B /\ \A d \in B : d.day <= b.day
Newest2(B, b, c) == Newest1(B, b) /\ c \in B /\ c.day < b.day /\ \A d \in B : d = b \/ d.day <= c.day

LEMMA AscendingIs ==
  ASSUME NEW B, Dated(B)
  PROVE  Lists(Ascending(B), B, ByDay(B), Cardinality(B))
<1> DEFINE R == ByDay(B)
<1>1. \A x, y \in B : <<x, y>> \in R <=> x.day < y.day
  BY DEF ByDay
<1>2. IsFiniteSet(B) /\ \A b \in B : b.day \in Int
  BY DEF Dated
<1> HIDE DEF R
<1>3. ASSUME NEW x \in B, NEW y \in B PROVE x = y \/ <<x, y>> \in R \/ <<y, x>> \in R
  <2>1. x.day \in Int /\ y.day \in Int /\ (x.day = y.day => x = y)
    BY DEF Dated
  <2>2. x.day < y.day \/ y.day < x.day \/ x.day = y.day
    BY <2>1
  <2>3. QED  BY <1>1, <2>1, <2>2
<1>4. \A x \in B : <<x, x>> \notin R
  BY <1>1, <1>2
<1>5. \A x, y, z \in B : <<x, y>> \in R /\ <<y, z>> \in R => <<x, z>> \in R
  BY <1>1, <1>2
<1>6. InARow(B, R)
  BY <1>3, <1>4, <1>5 DEF InARow
<1>7. Lists(Sorted(B, R), B, R, Cardinality(B))
  BY <1>2, <1>6, SortedIs
<1>8. QED  BY <1>7 DEF R, ByDay, Ascending

\* What the closes are, and what their last two are.
LEMMA ClosesAre ==
  ASSUME NEW B, Dated(B), NEW n, n = Cardinality(B)
  PROVE  /\ n \in Nat /\ Closes(B) \in [1 .. n -> Fractions] /\ Len(Closes(B)) = n
         /\ DOMAIN Closes(B) = 1 .. n
         /\ \A i \in 1 .. n : Ascending(B)[i] \in B /\ Closes(B)[i] = Ascending(B)[i].close
<1> DEFINE q == Ascending(B)
<1>1. Lists(q, B, ByDay(B), n)
  BY AscendingIs
<1>2. n \in Nat /\ q \in [1 .. n -> B] /\ Len(q) = n /\ DOMAIN q = 1 .. n
  BY <1>1 DEF Lists
<1>3. \A b \in B : b.close \in Fractions
  BY DEF Dated, Printed
<1>4. Closes(B) = [i \in 1 .. n |-> q[i].close]
  BY <1>2 DEF Closes, Field
<1> HIDE DEF q
<1>5. \A i \in 1 .. n : q[i] \in B /\ q[i].close \in Fractions
  BY <1>2, <1>3
<1>6. Closes(B) \in [1 .. n -> Fractions] /\ Len(Closes(B)) = n /\ DOMAIN Closes(B) = 1 .. n
  BY <1>2, <1>4, <1>5
<1>7. QED  BY <1>2, <1>4, <1>5, <1>6 DEF q

LEMMA ClosesEnd ==
  ASSUME NEW B, Dated(B)
  PROVE  /\ Len(Closes(B)) \in Nat
         /\ Closes(B) = <<>> <=> B = {}
         /\ \A b : Newest1(B, b) => Last(Closes(B)) = b.close /\ Closes(B) # <<>>
         /\ \A b, c : Newest2(B, b, c) => Previous(Closes(B)) = c.close /\ Len(Closes(B)) >= 2
         /\ B # {} => \E b \in B : Newest1(B, b)
         /\ Len(Closes(B)) >= 2 => \E b, c \in B : Newest2(B, b, c)
<1> DEFINE n == Cardinality(B)  q == Ascending(B)  s == Closes(B)
<1>1. /\ n \in Nat /\ s \in [1 .. n -> Fractions] /\ Len(s) = n /\ DOMAIN s = 1 .. n
      /\ \A i \in 1 .. n : q[i] \in B /\ s[i] = q[i].close
  BY ClosesAre
<1>2. Lists(q, B, ByDay(B), n)
  BY AscendingIs
<1>3. /\ \A x \in B : \E i \in 1 .. n : q[i] = x
      /\ \A i, j \in 1 .. n : i < j <=> q[i].day < q[j].day
      /\ \A i, j \in 1 .. n : q[i] = q[j] => i = j
  <2>1. \A i, j \in 1 .. n : <<q[i], q[j]>> \in ByDay(B) <=> q[i].day < q[j].day
    BY <1>1 DEF ByDay
  <2>2. /\ \A x \in B : \E i \in 1 .. n : q[i] = x
        /\ \A i, j \in 1 .. n : i < j <=> <<q[i], q[j]>> \in ByDay(B)
        /\ \A i, j \in 1 .. n : q[i] = q[j] => i = j
    BY <1>2 DEF Lists
  <2> HIDE DEF n, q
  <2>3. QED  BY <2>1, <2>2
<1>4. \A b \in B : b.day \in Int
  BY DEF Dated
<1>5. Last(s) = s[n] /\ Previous(s) = s[n - 1]
  BY <1>1 DEF Last, Previous, FromEnd
<1> HIDE DEF n, q, s
<1>6. s = <<>> <=> n = 0
  BY <1>1
<1>7. n = 0 <=> B = {}
  <2>1. n = 0 => B = {}
    BY <1>3
  <2>2. B = {} => n = 0
    BY FS_EmptySet DEF n
  <2>3. QED  BY <2>1, <2>2
<1>8. ASSUME n # 0 PROVE Newest1(B, q[n])
  <2>1. n \in 1 .. n
    BY <1>1, <1>8
  <2>2. \A d \in B : d.day <= q[n].day
    <3> SUFFICES ASSUME NEW d \in B PROVE d.day <= q[n].day
      OBVIOUS
    <3>1. PICK i \in 1 .. n : q[i] = d
      BY <1>3
    <3>2. i < n \/ i = n
      BY <1>1
    <3>3. q[n] \in B /\ q[n].day \in Int /\ d.day \in Int
      BY <1>1, <1>4, <2>1
    <3>4. QED  BY <1>3, <2>1, <3>1, <3>2, <3>3
  <2>3. QED  BY <1>1, <2>1, <2>2 DEF Newest1
<1>9. ASSUME NEW b, Newest1(B, b) PROVE b = q[n] /\ n # 0
  <2>1. b \in B /\ n # 0
    BY <1>7, <1>9 DEF Newest1
  <2>2. n \in 1 .. n /\ q[n] \in B
    BY <1>1, <2>1
  <2>3. b.day <= q[n].day /\ q[n].day <= b.day /\ b.day \in Int /\ q[n].day \in Int
    BY <1>4, <1>8, <1>9, <2>1, <2>2 DEF Newest1
  <2>4. b.day = q[n].day
    BY <2>3
  <2>5. QED  BY <2>1, <2>2, <2>4 DEF Dated
<1>10. ASSUME n >= 2 PROVE Newest2(B, q[n], q[n - 1])
  <2>1. n \in 1 .. n /\ n - 1 \in 1 .. n /\ n # 0 /\ n - 1 < n
    BY <1>1, <1>10
  <2>2. q[n - 1].day < q[n].day /\ q[n - 1] \in B
    BY <1>1, <1>3, <2>1
  <2>3. \A d \in B : d = q[n] \/ d.day <= q[n - 1].day
    <3> SUFFICES ASSUME NEW d \in B PROVE d = q[n] \/ d.day <= q[n - 1].day
      OBVIOUS
    <3>1. PICK i \in 1 .. n : q[i] = d
      BY <1>3
    <3>2. i = n \/ i = n - 1 \/ i < n - 1
      BY <1>1
    <3>3. i < n - 1 => d.day < q[n - 1].day
      BY <1>3, <2>1, <3>1
    <3>4. d.day \in Int /\ q[n - 1].day \in Int
      BY <1>4, <2>2
    <3>5. QED  BY <3>1, <3>2, <3>3, <3>4
  <2>4. QED  BY <1>8, <2>1, <2>2, <2>3 DEF Newest2
<1>11. ASSUME NEW b, NEW c, Newest2(B, b, c) PROVE c = q[n - 1] /\ n >= 2
  <2>1. b = q[n] /\ n # 0 /\ b \in B /\ c \in B /\ c.day < b.day /\ \A d \in B : d = b \/ d.day <= c.day
    BY <1>9, <1>11 DEF Newest2, Newest1
  <2>2. PICK i \in 1 .. n : q[i] = c
    BY <1>3, <2>1
  <2>3. n \in 1 .. n /\ i < n
    BY <1>1, <1>3, <2>1, <2>2
  <2>4. n >= 2
    BY <1>1, <2>3
  <2>5. n - 1 \in 1 .. n /\ n - 1 # n
    BY <1>1, <2>4
  <2>6. q[n - 1] \in B /\ q[n - 1] # b
    BY <1>1, <1>3, <2>1, <2>3, <2>5
  <2>7. ~(c.day < q[n - 1].day)
    <3>1. q[n - 1].day <= c.day /\ c.day \in Int /\ q[n - 1].day \in Int
      BY <1>4, <2>1, <2>6
    <3>2. QED  BY <3>1
  <2>8. ~(i < n - 1)
    BY <1>3, <2>2, <2>5, <2>7
  <2>9. i = n - 1
    BY <1>1, <2>3, <2>8
  <2>10. QED  BY <2>2, <2>4, <2>9
<1>12. \A b : Newest1(B, b) => Last(s) = b.close /\ s # <<>>
  <2> SUFFICES ASSUME NEW b, Newest1(B, b) PROVE Last(s) = b.close /\ s # <<>>
    OBVIOUS
  <2>1. b = q[n] /\ n # 0
    BY <1>9
  <2>2. n \in 1 .. n
    BY <1>1, <2>1
  <2>3. QED  BY <1>1, <1>5, <1>6, <2>1, <2>2
<1>13. \A b, c : Newest2(B, b, c) => Previous(s) = c.close /\ Len(s) >= 2
  <2> SUFFICES ASSUME NEW b, NEW c, Newest2(B, b, c) PROVE Previous(s) = c.close /\ Len(s) >= 2
    OBVIOUS
  <2>1. c = q[n - 1] /\ n >= 2
    BY <1>11
  <2>2. n - 1 \in 1 .. n
    BY <1>1, <2>1
  <2>3. QED  BY <1>1, <1>5, <2>1, <2>2
<1>14. B # {} => \E b \in B : Newest1(B, b)
  BY <1>7, <1>8 DEF Newest1
<1>15. n >= 2 => \E b, c \in B : Newest2(B, b, c)
  BY <1>10 DEF Newest1, Newest2
<1>16. QED  BY <1>1, <1>6, <1>7, <1>12, <1>13, <1>14, <1>15 DEF s

-----------------------------------------------------------------------------
(* The bars in reach are the last ones *)

InReach(B, t) == {b \in B : b.day >= t}

LEMMA ReachIs ==
  ASSUME NEW B, Dated(B), NEW t \in Int
  PROVE  /\ Dated(InReach(B, t)) /\ InReach(B, t) \subseteq B
         /\ \A b : Newest1(InReach(B, t), b) => Newest1(B, b)
         /\ \A b, c : Newest2(InReach(B, t), b, c) => Newest2(B, b, c)
         /\ \A u \in Int : u <= t => \A b, c : Newest2(InReach(B, t), b, c) => Newest2(InReach(B, u), b, c)
<1> DEFINE C == InReach(B, t)
<1>1. C \subseteq B /\ \A b \in B : b \in C <=> b.day >= t
  BY DEF InReach
<1>2. IsFiniteSet(B) /\ (\A b \in B : b.day \in Int /\ Printed(b.close))
      /\ \A b, c \in B : b.day = c.day => b = c
  BY DEF Dated
<1> HIDE DEF C
<1>3. Dated(C)
  <2>1. IsFiniteSet(C)
    BY <1>1, <1>2, FS_Subset
  <2>2. QED  BY <1>1, <1>2, <2>1 DEF Dated
<1>4. ASSUME NEW b, Newest1(C, b) PROVE Newest1(B, b)
  <2>1. b \in B /\ b \in C /\ b.day >= t /\ b.day \in Int /\ \A d \in C : d.day <= b.day
    BY <1>1, <1>2, <1>4 DEF Newest1
  <2>2. ASSUME NEW d \in B PROVE d.day <= b.day
    <3>1. d.day \in Int
      BY <1>2
    <3>2. CASE d.day >= t
      BY <1>1, <2>1, <3>2
    <3>3. CASE d.day < t
      BY <2>1, <3>1, <3>3
    <3>4. QED  BY <3>1, <3>2, <3>3
  <2>3. QED  BY <2>1, <2>2 DEF Newest1
<1>5. ASSUME NEW b, NEW c, Newest2(C, b, c), NEW u \in Int, u <= t PROVE Newest2(InReach(B, u), b, c)
  <2> DEFINE D == InReach(B, u)
  <2>1. D \subseteq B /\ \A d \in B : d \in D <=> d.day >= u
    BY DEF InReach
  <2> HIDE DEF D
  <2>2. /\ b \in C /\ c \in C /\ c.day < b.day /\ \A d \in C : d = b \/ d.day <= c.day
        /\ Newest1(B, b)
    BY <1>4, <1>5 DEF Newest2, Newest1
  <2>3. /\ b \in B /\ c \in B /\ b.day \in Int /\ c.day \in Int /\ b.day >= t /\ c.day >= t
    BY <1>1, <1>2, <2>2
  <2>4. b \in D /\ c \in D
    <3>1. b.day >= u /\ c.day >= u
      BY <1>5, <2>3
    <3>2. QED  BY <2>1, <2>3, <3>1
  <2>5. \A d \in D : d.day <= b.day
    BY <2>1, <2>2 DEF Newest1
  <2>6. ASSUME NEW d \in D PROVE d = b \/ d.day <= c.day
    <3>1. d \in B /\ d.day \in Int
      BY <1>2, <2>1
    <3>2. CASE d.day >= t
      BY <1>1, <2>2, <3>1, <3>2
    <3>3. CASE d.day < t
      BY <2>3, <3>1, <3>3
    <3>4. QED  BY <3>1, <3>2, <3>3
  <2>7. QED  BY <2>2, <2>4, <2>5, <2>6 DEF Newest1, Newest2, D
<1>6. ASSUME NEW b, NEW c, Newest2(C, b, c) PROVE Newest2(B, b, c)
  <2>1. /\ b \in C /\ c \in C /\ c.day < b.day /\ \A d \in C : d = b \/ d.day <= c.day
        /\ Newest1(B, b)
    BY <1>4, <1>6 DEF Newest2, Newest1
  <2>2. c \in B /\ c.day \in Int /\ c.day >= t
    BY <1>1, <1>2, <2>1
  <2>3. ASSUME NEW d \in B PROVE d = b \/ d.day <= c.day
    <3>1. d.day \in Int
      BY <1>2
    <3>2. CASE d.day >= t
      BY <1>1, <2>1, <3>2
    <3>3. CASE d.day < t
      BY <2>2, <3>1, <3>3
    <3>4. QED  BY <3>1, <3>2, <3>3
  <2>4. QED  BY <2>1, <2>2, <2>3 DEF Newest2
<1>7. QED  BY <1>1, <1>3, <1>4, <1>5, <1>6 DEF C

LEMMA OneNewest ==
  ASSUME NEW B, Dated(B), NEW b, NEW c, Newest2(B, b, c)
  PROVE  /\ \A d, e : Newest2(B, d, e) => d = b /\ e = c
         /\ \A d : Newest1(B, d) => d = b
<1>1. \A x, y \in B : x.day <= y.day /\ y.day <= x.day => x = y
  <2> SUFFICES ASSUME NEW x \in B, NEW y \in B, x.day <= y.day, y.day <= x.day PROVE x = y
    OBVIOUS
  <2>1. x.day \in Int /\ y.day \in Int /\ (x.day = y.day => x = y)
    BY DEF Dated
  <2>2. x.day = y.day
    BY <2>1
  <2>3. QED  BY <2>1, <2>2
<1>2. \A d : Newest1(B, d) => d = b
  BY <1>1 DEF Newest1, Newest2
<1>3. ASSUME NEW d, NEW e, Newest2(B, d, e) PROVE d = b /\ e = c
  <2>1. d = b
    BY <1>2, <1>3 DEF Newest2
  <2>2. /\ b \in B /\ c \in B /\ c.day < b.day /\ (\A x \in B : x = b \/ x.day <= c.day)
        /\ e \in B /\ e.day < b.day /\ (\A x \in B : x = b \/ x.day <= e.day)
    BY <1>3, <2>1 DEF Newest1, Newest2
  <2>3. b.day \in Int /\ c.day \in Int /\ e.day \in Int
    BY <2>2 DEF Dated
  <2>4. c # b /\ e # b
    BY <2>2, <2>3
  <2>5. c.day <= e.day /\ e.day <= c.day
    BY <2>2, <2>4
  <2>6. QED  BY <1>1, <2>1, <2>2, <2>5
<1>4. QED  BY <1>2, <1>3

-----------------------------------------------------------------------------
(* Rounding *)

LEMMA DivModInt ==
  ASSUME NEW a \in Int, NEW b \in Nat \ {0}
  PROVE  a \div b \in Int /\ a % b \in Int /\ 0 <= a % b /\ a % b < b /\ a = b * (a \div b) + (a % b)
OBVIOUS

\* r is the nearest number of units, to a half.
Nearest(r, x, unit) ==
  /\ r \in Int /\ Equals(RoundTo(x, unit), r, unit)
  /\ 2 * (r * x.den) - 2 * (x.num * unit) <= x.den
  /\ 2 * (x.num * unit) - 2 * (r * x.den) <= x.den

LEMMA NearestIs ==
  ASSUME NEW x \in Fractions, NEW unit \in Nat \ {0}
  PROVE  \E r : Nearest(r, x, unit)
<1> DEFINE a == x.num * unit  d == x.den  low == a \div d  rest == a % d
           r == IF 2 * rest > d \/ (2 * rest = d /\ low % 2 = 1) THEN low + 1 ELSE low
<1>1. a \in Int /\ d \in Nat \ {0}
  BY FractionCombines
<1>2. RoundTo(x, unit) = Frac(r, unit)
  BY DEF RoundTo
<1>3. x.num * unit = a /\ x.den = d
  OBVIOUS
<1> HIDE DEF a, d
<1>4. low \in Int /\ rest \in Int /\ 0 <= rest /\ rest < d /\ a = d * low + rest
  BY <1>1, DivModInt
<1> HIDE DEF low, rest
<1>5. r \in Int /\ ((r = low /\ 2 * rest <= d) \/ (r = low + 1 /\ 2 * rest >= d))
  BY <1>1, <1>4
<1> HIDE DEF r
<1>6. unit \in Int /\ unit # 0
  OBVIOUS
<1>7. Equals(RoundTo(x, unit), r, unit)
  BY <1>2, <1>5, <1>6, FracIs
<1>8. 2 * (r * d) - 2 * a <= d /\ 2 * a - 2 * (r * d) <= d
  <2>1. CASE r = low /\ 2 * rest <= d
    <3>1. r * d = d * low /\ r * d \in Int
      BY <1>1, <1>4, <2>1
    <3>2. r * d = a - rest
      BY <1>1, <1>4, <3>1
    <3>3. QED  BY <1>1, <1>4, <2>1, <3>1, <3>2
  <2>2. CASE r = low + 1 /\ 2 * rest >= d
    <3>1. r * d = d * low + d /\ r * d \in Int /\ d * low \in Int
      BY <1>1, <1>4, <2>2
    <3>2. r * d = a - rest + d
      BY <1>1, <1>4, <3>1
    <3>3. QED  BY <1>1, <1>4, <2>2, <3>1, <3>2
  <2>3. QED  BY <1>5, <2>1, <2>2
<1>9. QED  BY <1>3, <1>5, <1>7, <1>8 DEF Nearest

\* A multiple of the unit is not rounded.
LEMMA RoundExact ==
  ASSUME NEW unit \in Nat \ {0}, NEW k \in Int, NEW x, Equals(x, k, unit)
  PROVE  RoundTo(x, unit) = x
<1>1. x \in Fractions /\ x.num * unit = k * x.den /\ x.den \in Nat \ {0}
  BY FractionCombines DEF Equals
<1>2. PICK r : Nearest(r, x, unit)
  BY <1>1, NearestIs
<1> DEFINE d == x.den
<1>3. /\ r \in Int /\ Equals(RoundTo(x, unit), r, unit) /\ d \in Nat \ {0}
      /\ 2 * (r * d) - 2 * (k * d) <= d /\ 2 * (k * d) - 2 * (r * d) <= d
  BY <1>1, <1>2 DEF Nearest
<1> HIDE DEF d
<1>4. r = k
  <2>1. r * d \in Int /\ k * d \in Int /\ (r - k) * d = r * d - k * d
    BY <1>3
  <2> DEFINE e == r - k
  <2>2. e \in Int /\ 2 * (e * d) <= d /\ 0 - d <= 2 * (e * d) /\ e * d \in Int
    BY <1>3, <2>1
  <2> HIDE DEF e
  <2>3. ASSUME e >= 1 PROVE FALSE
    <3>1. e * d >= d
      BY <1>3, <2>2, <2>3
    <3>2. QED  BY <1>3, <2>2, <3>1
  <2>4. ASSUME e <= 0 - 1 PROVE FALSE
    <3>1. e * d <= 0 - d
      BY <1>3, <2>2, <2>4
    <3>2. QED  BY <1>3, <2>2, <3>1
  <2>5. e = 0
    BY <2>2, <2>3, <2>4
  <2>6. QED  BY <1>3, <2>5 DEF e
<1>5. unit \in Int /\ unit # 0
  OBVIOUS
<1>6. QED  BY <1>3, <1>4, <1>5, SameValue

LEMMA SignIs ==
  ASSUME NEW x \in Fractions
  PROVE  (Less(Zero, x) <=> x.num > 0) /\ (Less(x, Zero) <=> x.num < 0)
<1>1. x.num \in Int /\ x.den \in Nat \ {0}
  BY FractionCombines
<1>2. 0 * x.den = 0 /\ x.num * 1 = x.num
  BY <1>1
<1>3. Zero.num = 0 /\ Zero.den = 1
  BY DEF Zero, Whole
<1>4. QED  BY <1>1, <1>2, <1>3 DEF Less

\* Rounding gives no sign that was not there.
LEMMA RoundSign ==
  ASSUME NEW x \in Fractions, NEW unit \in Nat \ {0}
  PROVE  /\ Less(Zero, RoundTo(x, unit)) => Less(Zero, x)
         /\ Less(RoundTo(x, unit), Zero) => Less(x, Zero)
         /\ x = Zero => RoundTo(x, unit) = Zero
<1>1. PICK r : Nearest(r, x, unit)
  BY NearestIs
<1> DEFINE d == x.den  n == x.num  y == RoundTo(x, unit)
<1>2. /\ r \in Int /\ Equals(y, r, unit) /\ d \in Nat \ {0} /\ n \in Int
      /\ 2 * (r * d) - 2 * (n * unit) <= d /\ 2 * (n * unit) - 2 * (r * d) <= d
  BY <1>1, FractionCombines DEF Nearest
<1> HIDE DEF y
<1>3. y \in Fractions /\ y.num \in Int /\ y.den \in Nat \ {0} /\ y.num * unit = r * y.den
  BY <1>2, FractionCombines DEF Equals
<1>4. (y.num > 0 => r > 0) /\ (y.num < 0 => r < 0)
  <2> DEFINE a == y.num  b == y.den
  <2>1. a \in Int /\ b \in Nat \ {0} /\ a * unit = r * b
    BY <1>3
  <2> HIDE DEF a, b
  <2>2. a > 0 => a * unit > 0
    BY <2>1
  <2>3. a < 0 => a * unit < 0
    BY <2>1
  <2>4. r * b > 0 => r > 0
    BY <1>2, <2>1
  <2>5. r * b < 0 => r < 0
    BY <1>2, <2>1
  <2>6. (a > 0 => r > 0) /\ (a < 0 => r < 0)
    BY <2>1, <2>2, <2>3, <2>4, <2>5
  <2>7. QED  BY <2>6 DEF a, b
<1> HIDE DEF d, n
<1>5. (r > 0 => n > 0) /\ (r < 0 => n < 0)
  <2>1. r * d \in Int /\ n * unit \in Int
    BY <1>2
  <2>2. r > 0 => r * d >= d
    BY <1>2
  <2>3. r < 0 => r * d <= 0 - d
    BY <1>2
  <2>4. (r > 0 => n * unit > 0) /\ (r < 0 => n * unit < 0)
    BY <1>2, <2>1, <2>2, <2>3
  <2>5. (n * unit > 0 => n > 0) /\ (n * unit < 0 => n < 0)
    BY <1>2
  <2>6. QED  BY <2>4, <2>5
<1>6. ASSUME x = Zero PROVE y = Zero
  <2>1. 0 * unit = 0 /\ unit \in Int /\ unit # 0 /\ 0 \in Int
    OBVIOUS
  <2>2. Equals(Zero, 0, unit)
    BY <2>1, WholeEquals DEF Zero
  <2>3. QED  BY <1>6, <2>1, <2>2, RoundExact DEF y
<1>7. Less(Zero, y) => Less(Zero, x)
  BY <1>3, <1>4, <1>5, SignIs DEF n
<1>8. Less(y, Zero) => Less(x, Zero)
  BY <1>3, <1>4, <1>5, SignIs DEF n
<1>9. QED  BY <1>6, <1>7, <1>8 DEF y

-----------------------------------------------------------------------------
(* Changes of printed prices *)

LEMMA PrintedIs ==
  ASSUME NEW x, Printed(x)
  PROVE  x \in Fractions /\ x # Zero /\ \E k \in Int : Equals(x, k, 100)
<1>1. x \in Fractions /\ Less(Zero, x) /\ 100 % x.den = 0
  BY DEF Printed
<1> DEFINE d == x.den  n == x.num  e == 100 \div d
<1>2. n \in Int /\ d \in Nat \ {0} /\ 100 \in Int
  BY <1>1, FractionCombines
<1> HIDE DEF d, n
<1>3. e \in Int /\ 100 = d * e + (100 % d)
  BY <1>2, DivModInt
<1> HIDE DEF e
<1>4. 100 = d * e
  BY <1>1, <1>2, <1>3 DEF d
<1>5. n * 100 = (n * e) * d /\ n * e \in Int
  BY <1>2, <1>3, <1>4
<1>6. Equals(x, n * e, 100)
  BY <1>1, <1>5 DEF Equals, d, n
<1>7. x # Zero
  BY <1>1, LessTotal
<1>8. QED  BY <1>1, <1>5, <1>6, <1>7

\* The change of a price has the sign of the move.
LEMMA MoveIs ==
  ASSUME NEW now, NEW was, Printed(now), Printed(was), Unit \in Nat \ {0}
  PROVE  /\ Less(Zero, Change(now, was)) => Less(was, now)
         /\ Less(Change(now, was), Zero) => Less(now, was)
         /\ now = was => Change(now, was) = Zero
<1>1. now \in Fractions /\ was \in Fractions /\ was # Zero
  BY PrintedIs DEF Printed
<1>2. \E n, m \in Int : \E d \in Nat \ {0} : Equals(now, n, d) /\ Equals(was, m, d)
  BY <1>1, InCommon
<1>3. PICK n \in Int, m \in Int, d \in Nat \ {0} : Equals(now, n, d) /\ Equals(was, m, d)
  BY <1>2
<1>4. Less(Zero, was)
  BY DEF Printed
<1>5. 0 \in Int /\ Equals(Zero, 0, d)
  BY ZeroEquals
<1>6. 0 < m
  BY <1>3, <1>4, <1>5, LessIs
<1> DEFINE x == Minus(Over2(now, was), Whole(1))  p == n * d  q == d * m
<1>7. m # 0
  BY <1>6
<1>8. Equals(Over2(now, was), p, q)
  BY <1>3, <1>7, Over2Is
<1>9. p \in Int /\ q \in Nat \ {0} /\ q \in Int
  BY <1>6
<1>10. (0 < p - q <=> m < n) /\ (p - q < 0 <=> n < m)
  <2>1. (q < p <=> m < n) /\ (p < q <=> n < m)
    BY OrderCancels
  <2>2. QED  BY <1>9, <2>1
<1> HIDE DEF p, q
<1>11. Equals(Whole(1), q, q)
  <2>1. 1 * q = q /\ 1 \in Int
    BY <1>9
  <2>2. Equals(Whole(1), 1 * q, q)
    BY <1>9, <2>1, WholeEquals
  <2>3. QED  BY <2>1, <2>2
<1>12. Equals(x, p - q, q)
  BY <1>8, <1>9, <1>11, MinusIs
<1>13. p - q \in Int
  BY <1>9
<1> HIDE DEF x
<1>14. x \in Fractions
  BY <1>12 DEF Equals
<1>15. Equals(Zero, 0, q)
  BY <1>9, ZeroEquals
<1>16. (Less(Zero, x) <=> 0 < p - q) /\ (Less(x, Zero) <=> p - q < 0)
  <2> DEFINE z == p - q
  <2>1. z \in Int /\ Equals(x, z, q) /\ 0 \in Int
    BY <1>12, <1>13
  <2> HIDE DEF z
  <2>2. (Less(Zero, x) <=> 0 < z) /\ (Less(x, Zero) <=> z < 0)
    BY <1>9, <1>15, <2>1, LessIs
  <2>3. QED  BY <2>2 DEF z
<1>17. (Less(was, now) <=> m < n) /\ (Less(now, was) <=> n < m)
  BY <1>3, LessIs
<1>18. Change(now, was) = RoundTo(x, Unit)
  BY <1>1 DEF Change, Rounded, x
<1>19. /\ Less(Zero, RoundTo(x, Unit)) => Less(Zero, x)
       /\ Less(RoundTo(x, Unit), Zero) => Less(x, Zero)
       /\ x = Zero => RoundTo(x, Unit) = Zero
  BY <1>14, RoundSign
<1>20. ASSUME now = was PROVE x = Zero
  <2>1. ~Less(was, now) /\ ~Less(now, was)
    BY <1>1, <1>20, LessTotal
  <2>2. ~Less(Zero, x) /\ ~Less(x, Zero)
    BY <1>10, <1>16, <1>17, <2>1
  <2>3. Zero \in Fractions
    BY WholeIs DEF Zero
  <2>4. QED  BY <1>14, <2>2, <2>3, LessTotal
<1>21. Less(Zero, RoundTo(x, Unit)) => Less(was, now)
  BY <1>10, <1>16, <1>17, <1>19
<1>22. Less(RoundTo(x, Unit), Zero) => Less(now, was)
  BY <1>10, <1>16, <1>17, <1>19
<1>23. now = was => RoundTo(x, Unit) = Zero
  BY <1>19, <1>20
<1> HIDE DEF x
<1>24. Less(Zero, Change(now, was)) => Less(was, now)
  BY <1>18, <1>21
<1>25. Less(Change(now, was), Zero) => Less(now, was)
  BY <1>18, <1>22
<1>26. now = was => Change(now, was) = Zero
  BY <1>18, <1>23
<1>27. QED  BY <1>24, <1>25, <1>26

\* A rise of a printed price is not rounded away.
LEMMA RiseIs ==
  ASSUME NEW now, NEW was, Printed(now), Printed(was), Less(was, now)
  PROVE  Less(Zero, RoundTo(Minus(now, was), 100))
<1>1. PICK n \in Int : Equals(now, n, 100)
  BY PrintedIs
<1>2. PICK m \in Int : Equals(was, m, 100)
  BY PrintedIs
<1> DEFINE c == 100  z == n - m  x == Minus(now, was)
<1>3. c \in Nat \ {0} /\ z \in Int /\ Equals(now, n, c) /\ Equals(was, m, c) /\ 0 \in Int
  BY <1>1, <1>2
<1> HIDE DEF c
<1>4. Equals(x, z, c)
  BY <1>3, MinusIs
<1>5. m < n
  BY <1>3, LessIs
<1>6. 0 < z
  BY <1>5
<1> HIDE DEF z, x
<1>7. Equals(Zero, 0, c)
  BY <1>3, ZeroEquals
<1>8. Less(Zero, x)
  BY <1>3, <1>4, <1>6, <1>7, LessIs
<1>9. RoundTo(x, c) = x
  BY <1>3, <1>4, RoundExact
<1>10. QED  BY <1>8, <1>9 DEF c, x

-----------------------------------------------------------------------------
(* The tables after the scoring job *)

LEMMA BarsAreDated ==
  ASSUME NEW db, MarketTables(db), NEW s
  PROVE  Dated(BarsOf(db, s)) /\ BarsOf(db, s) \subseteq db.bars
<1>1. /\ IsFiniteSet(db.bars) /\ \A b \in db.bars : b.stock \in Stocks /\ b.day \in Int /\ Printed(b.close)
      /\ \A b, c \in db.bars : b.stock = c.stock /\ b.day = c.day => b = c
  BY DEF MarketTables
<1> DEFINE B == BarsOf(db, s)
<1>2. B \subseteq db.bars /\ \A b \in B : b.stock = s
  BY DEF BarsOf
<1> HIDE DEF B
<1>3. IsFiniteSet(B)
  BY <1>1, <1>2, FS_Subset
<1>4. QED  BY <1>1, <1>2, <1>3 DEF Dated, B

\* e is the tables with some of their bars.
Sees(e, db) ==
  /\ DOMAIN e = DOMAIN db /\ e.bars \subseteq db.bars
  /\ \A k \in DOMAIN db : k # "bars" => e[k] = db[k]

\* The tables as the job sees them: the bars up to a day.
SeenOn(db, day) == [db EXCEPT !.bars = {b \in @ : b.day <= day}]

LEMMA SeenTables ==
  ASSUME NEW db, MarketTables(db), NEW day
  PROVE  Sees(SeenOn(db, day), db)
<1> DEFINE e == SeenOn(db, day)  bars == {b \in db.bars : b.day <= day}
<1>1. "bars" \in DOMAIN db
  BY DEF MarketTables
<1>2. e.bars = bars /\ DOMAIN e = DOMAIN db /\ \A k \in DOMAIN db : k # "bars" => e[k] = db[k]
  BY <1>1 DEF SeenOn
<1>3. bars \subseteq db.bars
  OBVIOUS
<1> HIDE DEF e, bars
<1>4. QED  BY <1>2, <1>3 DEF Sees, e

LEMMA SeenBars ==
  ASSUME NEW db, MarketTables(db), NEW e, Sees(e, db), NEW s
  PROVE  Dated(BarsOf(e, s)) /\ BarsOf(e, s) \subseteq BarsOf(db, s)
<1> DEFINE B == BarsOf(e, s)  C == BarsOf(db, s)
<1>1. B \subseteq C
  BY DEF BarsOf, Sees
<1>2. Dated(C)
  BY BarsAreDated
<1> HIDE DEF B, C
<1>3. IsFiniteSet(B)
  BY <1>1, <1>2, FS_Subset DEF Dated
<1>4. QED  BY <1>1, <1>2, <1>3 DEF Dated, B, C

\* The newest bars of a stock, at least one: closes of its own bars.
LEMMA NewestBarsAre ==
  ASSUME NEW B, Dated(B), B # {}, BarsRead \in Nat \ {0}
  PROVE  \E n \in Nat \ {0} :
           /\ NewestBars(Ascending(B), BarsRead) \in [1 .. n -> B]
           /\ Last(NewestBars(Ascending(B), BarsRead)) \in B
           /\ Field(NewestBars(Ascending(B), BarsRead), "close") \in [1 .. n -> Fractions]
<1> DEFINE q == Ascending(B)  m == Cardinality(B)  r == BarsRead
           t == NewestBars(q, r)
<1>1. Lists(q, B, ByDay(B), m)
  BY AscendingIs
<1>2. m \in Nat /\ q \in [1 .. m -> B] /\ Len(q) = m
  BY <1>1 DEF Lists
<1>3. m # 0
  BY <1>1 DEF Lists
<1> HIDE DEF q, m
<1>4. \E n \in Nat \ {0} : t \in [1 .. n -> B]
  <2>1. CASE m < r
    <3>1. t = q
      BY <1>2, <2>1 DEF NewestBars
    <3>2. QED  BY <1>2, <1>3, <3>1
  <2>2. CASE ~(m < r)
    <3>1. t = SubSeq(q, m - r + 1, m)
      BY <1>2, <2>2 DEF NewestBars, LastN
    <3>2. t = [i \in 1 .. r |-> q[m - r + i]]
      BY <1>2, <2>2, <3>1
    <3>3. \A i \in 1 .. r : m - r + i \in 1 .. m
      BY <1>2, <2>2
    <3>4. t \in [1 .. r -> B]
      BY <1>2, <3>2, <3>3
    <3>5. QED  BY <3>4
  <2>3. QED  BY <2>1, <2>2
<1> HIDE DEF t
<1>5. PICK n \in Nat \ {0} : t \in [1 .. n -> B]
  BY <1>4
<1>6. Len(t) = n /\ DOMAIN t = 1 .. n /\ n \in 1 .. n
  BY <1>5
<1>7. Last(t) \in B
  BY <1>5, <1>6 DEF Last
<1>8. \A b \in B : b.close \in Fractions
  BY DEF Dated, Printed
<1>9. Field(t, "close") \in [1 .. n -> Fractions]
  <2>1. Field(t, "close") = [i \in 1 .. n |-> t[i].close]
    BY <1>6 DEF Field
  <2>2. QED  BY <1>5, <1>8, <2>1
<1> DEFINE closes == Field(t, "close")  last == Last(t)
<1>10. t \in [1 .. n -> B] /\ last \in B /\ closes \in [1 .. n -> Fractions]
  BY <1>5, <1>7, <1>9
<1> HIDE DEF closes, last
<1>11. \E k \in Nat \ {0} : t \in [1 .. k -> B] /\ last \in B /\ closes \in [1 .. k -> Fractions]
  BY <1>10
<1>12. QED  BY <1>11 DEF closes, last, t, r, q

\* A score row is of a stock that traded on its day.
ScoresFit(db, rows) ==
  IsFiniteSet(rows) /\ \A r \in rows : r.stock \in TradedOn(db, r.day) /\ ScoreShape(r.scores)

\* What the job writes are scores of stocks that traded on the newest day it saw.
LEMMA ScoresAreStored ==
  ASSUME PagesAssumption, IndicatorsAssumption, NEW db, MarketTables(db), NEW e, Sees(e, db)
  PROVE  /\ DOMAIN compute_and_store_scores(e) = DOMAIN db
         /\ \A k \in DOMAIN db : k # "scores" => compute_and_store_scores(e)[k] = e[k]
         /\ ScoresFit(db, compute_and_store_scores(e).scores)
<1> DEFINE series == load_price_series(e)  out == compute_and_store_scores(e)
           latest == Max({Last(series[s]).day : s \in DOMAIN series})
           found == FreshOf(series, latest)
           raws == [s \in found |-> raw_price_factors(Field(series[s], "close"))]
<1>1. /\ DOMAIN e = DOMAIN db /\ "scores" \in DOMAIN db /\ "scores" # "bars"
      /\ \A k \in DOMAIN db : k # "bars" => e[k] = db[k]
      /\ \A s : Dated(BarsOf(e, s)) /\ BarsOf(e, s) \subseteq BarsOf(db, s)
  BY SeenBars DEF MarketTables, Sees
<1>2. ScoresFit(db, db.scores)
  BY DEF MarketTables, ScoresFit
<1>3. e.scores = db.scores
  BY <1>1
<1>4. out = IF DOMAIN series = {} THEN e ELSE StoreOf(e, series, latest)
  BY DEF compute_and_store_scores
<1>5. StoreOf(e, series, latest) = [e EXCEPT !.scores = Upserted(@, latest, raws)]
  BY DEF StoreOf
<1>6. /\ DOMAIN series = {s \in Active(e) : BarsOf(e, s) # {}}
      /\ \A s \in DOMAIN series : series[s] = NewestBars(Ascending(BarsOf(e, s)), BarsRead)
  BY DEF load_price_series
<1>7. found = {s \in DOMAIN series : Last(series[s]).day = latest}
  BY DEF FreshOf
<1> HIDE DEF series, out, latest, found
<1>8. ASSUME NEW s \in found
      PROVE  s \in TradedOn(db, latest) /\ raws[s] \in [Factors -> Fractions \cup {Missing}]
  <2> DEFINE B == BarsOf(e, s)  t == NewestBars(Ascending(B), BarsRead)
  <2>1. s \in DOMAIN series /\ Last(series[s]).day = latest
    BY <1>7
  <2>2. s \in Stocks /\ B # {} /\ series[s] = t
    BY <1>6, <2>1 DEF Active
  <2>3. Dated(B) /\ B \subseteq BarsOf(db, s) /\ BarsRead \in Nat \ {0}
    BY <1>1 DEF PagesAssumption
  <2>4. raws[s] = raw_price_factors(Field(t, "close"))
    BY <2>2
  <2> HIDE DEF B, raws
  <2>5. \E n \in Nat \ {0} : t \in [1 .. n -> B] /\ Last(t) \in B /\ Field(t, "close") \in [1 .. n -> Fractions]
    BY <2>2, <2>3, NewestBarsAre
  <2>6. PICK n \in Nat \ {0} : Last(t) \in B /\ Field(t, "close") \in [1 .. n -> Fractions]
    BY <2>5
  <2> HIDE DEF t
  <2>7. Last(t) \in BarsOf(db, s) /\ Last(t).day = latest
    BY <2>1, <2>2, <2>3, <2>6
  <2>8. s \in TradedOn(db, latest)
    BY <2>2, <2>7 DEF TradedOn, DaysOf
  <2> DEFINE closes == Field(t, "close")
  <2>9. closes \in [1 .. n -> Fractions]
    BY <2>6
  <2> HIDE DEF closes
  <2>10. raw_price_factors(closes) \in [Factors -> Fractions \cup {Missing}]
    BY <2>9, RawPriceType
  <2>11. QED  BY <2>4, <2>8, <2>10 DEF closes
<1>9. RawShape(raws, found)
  <2>1. found \subseteq Stocks
    BY <1>6, <1>7 DEF Active
  <2>2. IsFiniteSet(found)
    BY <2>1, FS_Subset DEF PagesAssumption
  <2>3. raws \in [found -> [Factors -> Fractions \cup {Missing}]]
    BY <1>8
  <2>4. QED  BY <2>2, <2>3 DEF RawShape
<1>10. DOMAIN raws = found
  OBVIOUS
<1> HIDE DEF raws
<1>11. ScoresFit(db, Upserted(db.scores, latest, raws))
  <2> DEFINE old == {r \in db.scores : r.day # latest \/ r.stock \notin DOMAIN raws}
             row == [s \in found |-> [stock |-> s, day |-> latest,
                                      scores |-> compute_factor_scores(raws[s], raws)]]
             new == {row[s] : s \in found}
  <2>1. Upserted(db.scores, latest, raws) = old \cup new
    BY <1>10 DEF Upserted
  <2>2. IsFiniteSet(old)
    <3>1. old \subseteq db.scores /\ IsFiniteSet(db.scores)
      BY <1>2 DEF ScoresFit
    <3> HIDE DEF old
    <3>2. QED  BY <3>1, FS_Subset
  <2>3. IsFiniteSet(new)
    <3>1. IsFiniteSet(found) /\ DOMAIN row = found
      BY <1>9 DEF RawShape
    <3> HIDE DEF row
    <3>2. QED  BY <3>1, ImageIsFinite
  <2>4. \A r \in new : r.stock \in TradedOn(db, r.day) /\ ScoreShape(r.scores)
    <3> SUFFICES ASSUME NEW s \in found
                 PROVE  row[s].stock \in TradedOn(db, row[s].day) /\ ScoreShape(row[s].scores)
      OBVIOUS
    <3>1. ScoreShape(compute_factor_scores(raws[s], raws))
      BY <1>9, FactorScoresAre
    <3>2. QED  BY <1>8, <3>1
  <2>5. \A r \in old : r.stock \in TradedOn(db, r.day) /\ ScoreShape(r.scores)
    BY <1>2 DEF ScoresFit
  <2> HIDE DEF old, new
  <2>6. IsFiniteSet(old \cup new)
    BY <2>2, <2>3, FS_Union
  <2>7. QED  BY <2>1, <2>4, <2>5, <2>6 DEF ScoresFit
<1>12. CASE DOMAIN series = {}
  <2>1. out = e
    BY <1>4, <1>12
  <2>2. QED  BY <1>1, <1>2, <1>3, <2>1 DEF out
<1>13. CASE DOMAIN series # {}
  <2> DEFINE rows == Upserted(db.scores, latest, raws)
  <2>1. out = [e EXCEPT !.scores = rows]
    BY <1>3, <1>4, <1>5, <1>13 DEF raws
  <2> HIDE DEF rows
  <2>2. DOMAIN out = DOMAIN db /\ out.scores = rows
        /\ \A k \in DOMAIN db : k # "scores" => out[k] = e[k]
    BY <1>1, <2>1
  <2>3. QED  BY <1>11, <2>2 DEF out, rows
<1>14. QED  BY <1>12, <1>13

\* What is left of the tables when scores are written and the bars restored.
LEMMA StoredTables ==
  ASSUME NEW db, MarketTables(db), NEW e, DOMAIN e = DOMAIN db, ScoresFit(db, e.scores),
         \A k \in DOMAIN db : k # "scores" => e[k] = db[k]
  PROVE  MarketTables(e)
<1>1. {"bars", "scores", "status", "exchange", "vn30"} \subseteq DOMAIN db
  BY DEF MarketTables
<1>2. e.bars = db.bars
  BY <1>1
<1>3. \A d : TradedOn(e, d) = TradedOn(db, d)
  BY <1>2 DEF TradedOn, BarsOf
<1>4. QED  BY <1>1, <1>2, <1>3 DEF MarketTables, ScoresFit

\* Scored, the tables are tables.
LEMMA ScoredTables ==
  ASSUME PagesAssumption, IndicatorsAssumption, NEW db, MarketTables(db), NEW day
  PROVE  MarketTables(ScoredUpTo(db, day))
<1> DEFINE s == SeenOn(db, day)  out == compute_and_store_scores(s)  e == ScoredUpTo(db, day)
<1>1. Sees(s, db)
  BY SeenTables
<1>2. e = [out EXCEPT !.bars = db.bars]
  BY DEF ScoredUpTo, SeenOn
<1> HIDE DEF s, e
<1>3. /\ DOMAIN out = DOMAIN db /\ ScoresFit(db, out.scores)
      /\ \A k \in DOMAIN db : k # "scores" => out[k] = s[k]
  BY <1>1, ScoresAreStored
<1> HIDE DEF out
<1>4. {"bars", "scores", "status", "exchange", "vn30"} \subseteq DOMAIN db
  BY DEF MarketTables
<1>5. DOMAIN e = DOMAIN db /\ e.bars = db.bars /\ \A k \in DOMAIN db : k # "bars" => e[k] = out[k]
  BY <1>2, <1>3, <1>4
<1>6. \A k \in DOMAIN db : k # "scores" => e[k] = db[k]
  BY <1>1, <1>3, <1>5 DEF Sees
<1>7. e.scores = out.scores
  BY <1>4, <1>5
<1>8. MarketTables(e)
  BY <1>3, <1>5, <1>6, <1>7, StoredTables
<1>9. QED  BY <1>8 DEF e

\* So are they when the job has just run.
LEMMA ScoredNowTables ==
  ASSUME PagesAssumption, IndicatorsAssumption, NEW db, MarketTables(db)
  PROVE  /\ MarketTables(compute_and_store_scores(db))
         /\ \A k \in DOMAIN db : k # "scores" => compute_and_store_scores(db)[k] = db[k]
<1> DEFINE out == compute_and_store_scores(db)
<1>1. Sees(db, db)
  BY DEF Sees
<1>2. /\ DOMAIN out = DOMAIN db /\ ScoresFit(db, out.scores)
      /\ \A k \in DOMAIN db : k # "scores" => out[k] = db[k]
  BY <1>1, ScoresAreStored
<1> HIDE DEF out
<1>3. MarketTables(out)
  BY <1>2, StoredTables
<1>4. QED  BY <1>2, <1>3 DEF out

-----------------------------------------------------------------------------
(* The ranked stocks *)

\* P is where the rows have an element of D, and each of D is there.
FoundAt(rows, m, D, P) ==
  /\ m \in Nat /\ DOMAIN rows = 1 .. m /\ P = {i \in 1 .. m : rows[i] \in D}
  /\ \A s \in D : \E i \in 1 .. m : rows[i] = s

\* A sequence of n elements of D with each of them.
Covers(q, D, n) == n \in Nat /\ q \in [1 .. n -> D] /\ \A s \in D : \E k \in 1 .. n : q[k] = s

\* The rows at these places are the elements found there.
LEMMA PickedRows ==
  ASSUME NEW rows, NEW m, NEW D, NEW P, FoundAt(rows, m, D, P)
  PROVE  \E n : Covers(Picked(rows, P), D, n)
<1> DEFINE n == Cardinality(P)  t == Picked(rows, P)  R == {p \in P \X P : p[1] < p[2]}  I == 1 .. m
<1>1. P \subseteq I /\ \A i \in P : rows[i] \in D
  BY DEF FoundAt
<1>2. m \in Int /\ 1 \in Int
  BY DEF FoundAt
<1>3. IsFiniteSet(I) /\ I \subseteq Int
  BY <1>2, FS_Interval
<1>4. \A s \in D : \E i \in P : rows[i] = s
  BY DEF FoundAt
<1> HIDE DEF I
<1>5. IsFiniteSet(P) /\ P \subseteq Int
  BY <1>1, <1>3, FS_Subset
<1>6. n \in Nat
  BY <1>5, FS_CardinalityType
<1>7. t = [k \in 1 .. n |-> rows[Nth(P, k)]]
  BY DEF Picked
<1>8. \A x, y \in P : <<x, y>> \in R <=> x < y
  OBVIOUS
<1> HIDE DEF R
<1>9. InARow(P, R)
  <2>0. \A x, y \in P : x = y \/ x < y \/ y < x
    BY <1>5
  <2>1. \A x, y \in P : x = y \/ <<x, y>> \in R \/ <<y, x>> \in R
    BY <1>8, <2>0
  <2>2. \A x \in P : <<x, x>> \notin R
    BY <1>5, <1>8
  <2>3. \A x, y, z \in P : <<x, y>> \in R /\ <<y, z>> \in R => <<x, z>> \in R
    BY <1>5, <1>8
  <2>4. QED  BY <2>1, <2>2, <2>3 DEF InARow
<1>10. /\ \A x \in P : Placed(P, R, x) \in Nat /\ Placed(P, R, x) < Cardinality(P)
       /\ \A x, y \in P : Placed(P, R, x) = Placed(P, R, y) => x = y
  BY <1>5, <1>9, PlacesAre
<1>11. \A x \in P : Placed(P, R, x) = Place(P, x)
  <2> SUFFICES ASSUME NEW x \in P PROVE Placed(P, R, x) = Place(P, x)
    OBVIOUS
  <2>1. {y \in P : <<y, x>> \in R} = {y \in P : y < x}
    BY <1>8
  <2>2. QED  BY <2>1 DEF Placed, Place
<1> HIDE DEF n
<1>12. \A k \in 1 .. n : Nth(P, k) \in P /\ Place(P, Nth(P, k)) = k - 1
  BY <1>5, NthIs DEF n
<1>13. t \in [1 .. n -> D]
  BY <1>1, <1>7, <1>12
<1>14. ASSUME NEW s \in D PROVE \E k \in 1 .. n : t[k] = s
  <2>1. PICK i \in P : rows[i] = s
    BY <1>4
  <2> DEFINE k == Place(P, i) + 1
  <2>2. k \in 1 .. n /\ k - 1 = Place(P, i)
    BY <1>6, <1>10, <1>11 DEF n
  <2> HIDE DEF k
  <2>3. Nth(P, k) = i
    BY <1>10, <1>11, <1>12, <2>2
  <2>4. t[k] = s
    BY <1>7, <2>1, <2>2, <2>3
  <2>5. QED  BY <2>2, <2>4
<1>15. Covers(t, D, n)
  BY <1>6, <1>13, <1>14 DEF Covers
<1>16. QED  BY <1>15

\* The newest scored day is one of the market, and the scores of it have their stocks' bars.
LEMMA ScoredIs ==
  ASSUME PagesAssumption, NEW db, MarketTables(db), db.scores # {}
  PROVE  /\ ScoredDay(db) \in DaysOf(db.bars) /\ ScoredDay(db) \in Int
         /\ Scored(db) \subseteq TradedOn(db, ScoredDay(db)) /\ Scored(db) \subseteq Stocks
         /\ \A s \in Scored(db) : ScoreShape(ScoresOf(db, s))
<1>1. /\ IsFiniteSet(db.scores) /\ \A r \in db.scores : r.stock \in TradedOn(db, r.day) /\ ScoreShape(r.scores)
      /\ \A b \in db.bars : b.day \in Int
  BY DEF MarketTables
<1>2. \A d : TradedOn(db, d) \subseteq Stocks /\ (TradedOn(db, d) # {} => d \in DaysOf(db.bars))
  BY DEF TradedOn, DaysOf, BarsOf
<1>3. DaysOf(db.bars) \subseteq Int
  BY <1>1 DEF DaysOf
<1> DEFINE S == db.scores  day == [r \in S |-> r.day]
<1>4. DaysOf(S) = {day[r] : r \in S} /\ DOMAIN day = S
  BY DEF DaysOf
<1> HIDE DEF day
<1>5. IsFiniteSet(DaysOf(S)) /\ DaysOf(S) # {}
  <2>1. IsFiniteSet({day[r] : r \in S})
    BY <1>1, <1>4, ImageIsFinite
  <2>2. QED  BY <1>4, <2>1
<1>6. DaysOf(S) \subseteq DaysOf(db.bars)
  BY <1>1, <1>2 DEF DaysOf
<1>7. ScoredDay(db) \in DaysOf(S)
  BY <1>3, <1>5, <1>6, MaxIs DEF ScoredDay
<1>8. Scored(db) \subseteq TradedOn(db, ScoredDay(db))
  BY <1>1 DEF Scored
<1>9. ASSUME NEW s \in Scored(db) PROVE ScoreShape(ScoresOf(db, s))
  <2> DEFINE r == CHOOSE r \in S : r.stock = s /\ r.day = ScoredDay(db)
  <2>1. \E q \in S : q.stock = s /\ q.day = ScoredDay(db)
    BY DEF Scored
  <2>2. r \in S
    BY <2>1
  <2>3. ScoresOf(db, s) = r.scores
    BY DEF ScoresOf
  <2> HIDE DEF r
  <2>4. QED  BY <1>1, <2>2, <2>3
<1>10. QED  BY <1>2, <1>3, <1>6, <1>7, <1>8, <1>9

LEMMA RankedAre ==
  ASSUME PagesAssumption, IndicatorsAssumption, NEW db, MarketTables(db), db.scores # {},
         NEW r \in Range(get_ranked(db, StockRows))
  PROVE  /\ r.payload.symbol \in Scored(db) /\ MadeOfScores(r.payload)
         /\ r.metrics = MetricsOf(Recent(db, r.payload.symbol, ScoredDay(db)))
<1> DEFINE D == Scored(db)  P == {i \in DOMAIN StockRows : StockRows[i] \in D}
           rows == Picked(StockRows, P)  universe == [s \in D |-> ScoresOf(db, s)]
           ps == Payloads(universe, rows)  m == Len(StockRows)
<1>1. /\ StockRows \in Seq(Stocks) /\ Range(StockRows) = Stocks /\ Unit \in Nat \ {0}
      /\ Missing \notin Fractions
  BY DEF PagesAssumption, IndicatorsAssumption
<1>2. m \in Nat /\ DOMAIN StockRows = 1 .. m
  BY <1>1
<1>3. D \subseteq Stocks /\ \A s \in D : ScoreShape(ScoresOf(db, s))
  BY ScoredIs
<1>4. FoundAt(StockRows, m, D, P)
  <2>1. \A s \in D : \E i \in 1 .. m : StockRows[i] = s
    BY <1>1, <1>2, <1>3 DEF Range
  <2>2. P = {i \in 1 .. m : StockRows[i] \in D}
    BY <1>2
  <2> HIDE DEF D, P
  <2>3. QED  BY <1>2, <2>1, <2>2 DEF FoundAt
<1> HIDE DEF D, m, P
<1>5. \E n : Covers(Picked(StockRows, P), D, n)
  BY <1>4, PickedRows
<1>6. PICK n \in Nat : rows \in [1 .. n -> D] /\ \A s \in D : \E k \in 1 .. n : rows[k] = s
  BY <1>5 DEF Covers
<1> HIDE DEF rows
<1>7. DOMAIN universe = D /\ \A s \in D : ScoreShape(universe[s])
  BY <1>3
<1> HIDE DEF universe
<1>8. Scoring(universe, rows, D, n)
  BY <1>1, <1>6, <1>7 DEF Scoring
<1>9. \A i \in 1 .. n : ps[i].symbol \in D /\ MadeOfScores(ps[i])
  BY <1>8, PayloadsAre
<1>10. get_ranked(db, StockRows) = RankingOn(db, rows, ScoredDay(db))
  BY DEF get_ranked, rows, P, D
<1>11. RankingOn(db, rows, ScoredDay(db)) = [i \in DOMAIN rows |-> WithPrices(db, ps[i], ScoredDay(db))]
  BY DEF RankingOn, universe, D
<1> HIDE DEF ps
<1>12. DOMAIN rows = 1 .. n
  BY <1>6
<1>13. PICK i \in 1 .. n : r = WithPrices(db, ps[i], ScoredDay(db))
  BY <1>10, <1>11, <1>12 DEF Range
<1>14. r.payload = ps[i] /\ r.metrics = MetricsOf(Recent(db, ps[i].symbol, ScoredDay(db)))
  BY <1>13 DEF WithPrices
<1>15. QED  BY <1>9, <1>14 DEF D

LEMMA NoScores ==
  ASSUME NEW db, db.scores = {}
  PROVE  Range(get_ranked(db, StockRows)) = {}
BY DEF get_ranked, Range

-----------------------------------------------------------------------------
(* The last two closes of a stock *)

LEMMA RecentIs ==
  ASSUME PagesAssumption, NEW db, MarketTables(db), NEW s, NEW day \in Int
  PROVE  /\ Recent(db, s, day) = Closes(InReach(BarsOf(db, s), day - Reach))
         /\ Dated(InReach(BarsOf(db, s), day - Reach)) /\ day - Reach \in Int
<1> DEFINE t == day - Reach  B == BarsOf(db, s)
<1>1. t \in Int
  BY DEF PagesAssumption
<1>2. Recent(db, s, day) = Closes(InReach(B, t))
  BY DEF Recent, InReach
<1>3. Dated(B)
  BY BarsAreDated
<1> HIDE DEF t, B
<1>4. Dated(InReach(B, t))
  BY <1>1, <1>3, ReachIs
<1>5. QED  BY <1>1, <1>2, <1>4 DEF t, B

\* The days of a market that has bars end.
LEMMA MarketDays ==
  ASSUME NEW db, MarketTables(db), NEW days, days \subseteq DaysOf(db.bars), days # {}
  PROVE  Max(days) \in days /\ Max(days) \in Int /\ days \subseteq Int /\ \A d \in days : d <= Max(days)
<1>1. IsFiniteSet(db.bars) /\ \A b \in db.bars : b.day \in Int
  BY DEF MarketTables
<1> DEFINE S == db.bars  day == [b \in S |-> b.day]
<1>2. DaysOf(S) = {day[b] : b \in S} /\ DOMAIN day = S /\ DaysOf(S) \subseteq Int
  BY <1>1 DEF DaysOf
<1> HIDE DEF day
<1>3. IsFiniteSet(DaysOf(S))
  <2>1. IsFiniteSet({day[b] : b \in S})
    BY <1>1, <1>2, ImageIsFinite
  <2>2. QED  BY <1>2, <2>1
<1>4. IsFiniteSet(days) /\ days \subseteq Int
  BY <1>2, <1>3, FS_Subset
<1>5. Max(days) \in days /\ \A d \in days : d <= Max(days)
  BY <1>4, MaxIs
<1>6. QED  BY <1>4, <1>5

\* A mover has two bars, the last two of its stock.
LEMMA MoverIs ==
  ASSUME PagesAssumption, NEW db, MarketTables(db), NEW m \in Movers(db, "ALL")
  PROVE  /\ m.symbol \in Active(db) /\ db.bars # {}
         /\ \E b, c \in BarsOf(db, m.symbol) :
              /\ Newest2(BarsOf(db, m.symbol), b, c)
              /\ Newest2(InReach(BarsOf(db, m.symbol), Max(DaysOf(db.bars)) - Reach), b, c)
              /\ m.close = b.close /\ m.change_pct = Change(b.close, c.close)
<1> DEFINE day == Max(DaysOf(db.bars))
           closes == [s \in Members(db, "ALL") |-> Recent(db, s, day)]
<1>1. Movers(db, "ALL") = {Mover(s, closes[s]) : s \in {s \in Members(db, "ALL") : Len(closes[s]) >= 2}}
  BY DEF Movers
<1>2. PICK s \in Members(db, "ALL") : Len(closes[s]) >= 2 /\ m = Mover(s, closes[s])
  BY <1>1
<1>3. s \in Active(db)
  BY DEF Members
<1>4. closes[s] = Recent(db, s, day)
  OBVIOUS
<1> HIDE DEF closes, day
<1> DEFINE q == Recent(db, s, day)  B == BarsOf(db, s)
<1>5. Len(q) >= 2 /\ m = Mover(s, q)
  BY <1>2, <1>4
<1>6. db.bars # {}
  <2> SUFFICES ASSUME db.bars = {} PROVE FALSE
    OBVIOUS
  <2> DEFINE E == {b \in B : b.day >= day - Reach}
  <2>1. q = Closes(E) /\ E = {}
    BY DEF Recent, BarsOf
  <2> HIDE DEF E, q
  <2>2. Dated(E)
    BY <2>1, FS_EmptySet DEF Dated
  <2>3. q = <<>>
    BY <2>1, <2>2, ClosesEnd
  <2>4. Len(q) = 0
    BY <2>3
  <2>5. QED  BY <1>5, <2>4
<1>7. day \in Int
  <2>1. DaysOf(db.bars) # {}
    <3>1. PICK b \in db.bars : TRUE
      BY <1>6
    <3>2. b.day \in DaysOf(db.bars)
      BY DEF DaysOf
    <3>3. QED  BY <3>2
  <2> DEFINE days == DaysOf(db.bars)
  <2>2. days \subseteq DaysOf(db.bars) /\ days # {}
    BY <2>1
  <2> HIDE DEF days
  <2>3. Max(days) \in Int
    BY <2>2, MarketDays
  <2>4. QED  BY <2>3 DEF day, days
<1> DEFINE t == day - Reach  E == InReach(B, t)
<1>8. q = Closes(E) /\ Dated(E) /\ t \in Int
  BY <1>7, RecentIs
<1>9. Dated(B)
  BY BarsAreDated
<1> HIDE DEF t, B, q
<1>10. \A b, c : Newest2(E, b, c) => Newest2(B, b, c)
  BY <1>8, <1>9, ReachIs
<1>11. E \subseteq B
  BY DEF InReach
<1> HIDE DEF E
<1>12. PICK b \in E, c \in E : Newest2(E, b, c)
  BY <1>5, <1>8, ClosesEnd
<1>13. Previous(q) = c.close
  BY <1>8, <1>12, ClosesEnd
<1>14. Last(q) = b.close
  BY <1>8, <1>12, ClosesEnd DEF Newest2
<1>15. Printed(c.close)
  BY <1>8 DEF Dated
<1>16. c.close # Zero
  BY <1>15, PrintedIs
<1>17. m.symbol = s /\ m.close = b.close /\ m.change_pct = Change(b.close, c.close)
  BY <1>5, <1>13, <1>14, <1>16 DEF Mover
<1>18. QED  BY <1>3, <1>6, <1>10, <1>11, <1>12, <1>17 DEF E, B, t, day

-----------------------------------------------------------------------------
(* The pages *)

\* On the two newest days of the market a stock has its own last two bars.
LEMMA BothDays ==
  ASSUME NEW db, MarketTables(db), NEW s, NEW first, NEW second,
         \A d \in DaysOf(db.bars) : d <= first,
         \A d \in DaysOf(db.bars) : d = first \/ d <= second,
         first \in Int, second \in Int, second # first,
         s \in TradedOn(db, first), s \in TradedOn(db, second)
  PROVE  \E b, c \in BarsOf(db, s) : Newest2(BarsOf(db, s), b, c) /\ b.day = first /\ c.day = second
<1> DEFINE B == BarsOf(db, s)
<1>1. first \in DaysOf(B) /\ second \in DaysOf(B) /\ B \subseteq db.bars
  BY DEF TradedOn, BarsOf
<1>2. Dated(B)
  BY BarsAreDated
<1> HIDE DEF B
<1>3. PICK b \in B : b.day = first
  BY <1>1 DEF DaysOf
<1>4. PICK c \in B : c.day = second
  BY <1>1 DEF DaysOf
<1>5. \A d \in B : d.day \in DaysOf(db.bars) /\ d.day \in Int
  BY <1>1, <1>2 DEF DaysOf, Dated
<1>6. second <= first
  BY <1>4, <1>5
<1>7. second < first
  BY <1>6
<1>8. \A d \in B : d.day = b.day => d = b
  BY <1>2 DEF Dated
<1>9. \A d \in B : d = b \/ d.day <= c.day
  BY <1>3, <1>4, <1>5, <1>8
<1>10. Newest2(B, b, c)
  BY <1>3, <1>4, <1>5, <1>7, <1>9 DEF Newest1, Newest2
<1>11. QED  BY <1>3, <1>4, <1>10 DEF B

\* The close of a day is that of the bar of the day.
LEMMA CloseIs ==
  ASSUME NEW db, MarketTables(db), NEW s, NEW b \in BarsOf(db, s)
  PROVE  CloseOn(db, s, b.day) = b.close
<1> DEFINE c == CHOOSE c \in BarsOf(db, s) : c.day = b.day
<1>1. c \in BarsOf(db, s) /\ c.day = b.day
  OBVIOUS
<1>2. c = b
  BY <1>1, BarsAreDated DEF Dated
<1>3. QED  BY <1>2 DEF CloseOn

\* Breadth and movers tell the same of a stock.
LEMMA MovesDoAgree ==
  ASSUME PagesAssumption, NEW db, MarketTables(db)
  PROVE  MovesAgree(get_breadth(db), Movers(db, "ALL"))
<1> DEFINE g == get_breadth(db)
<1> SUFFICES ASSUME NEW m \in Movers(db, "ALL"),
                    m.symbol \in g.advancers \cup g.decliners \cup g.unchanged
             PROVE  /\ Less(Zero, m.change_pct) => m.symbol \in g.advancers
                    /\ Less(m.change_pct, Zero) => m.symbol \in g.decliners
                    /\ m.symbol \in g.unchanged => m.change_pct = Zero
  BY DEF MovesAgree
<1> DEFINE s == m.symbol  B == BarsOf(db, s)  days == DaysOf(db.bars)
           first == Max(days)  rest == days \ {first}  second == Max(rest)
           both == IF rest = {} THEN {} ELSE TradedOn(db, first) \cap TradedOn(db, second)
<1>1. /\ s \in Active(db) /\ db.bars # {}
      /\ \E b, c \in B : Newest2(B, b, c) /\ m.change_pct = Change(b.close, c.close)
  BY MoverIs
<1>2. g = BreadthOn(db, first)
  BY <1>1 DEF get_breadth
<1>3. /\ g.advancers = {x \in both : Less(CloseOn(db, x, second), CloseOn(db, x, first))}
      /\ g.decliners = {x \in both : Less(CloseOn(db, x, first), CloseOn(db, x, second))}
      /\ g.unchanged = {x \in both : CloseOn(db, x, first) = CloseOn(db, x, second)}
  BY <1>2 DEF BreadthOn
<1>4. s \in both
  BY <1>3
<1>5. rest # {} /\ s \in TradedOn(db, first) /\ s \in TradedOn(db, second)
  BY <1>4
<1>6. first \in Int /\ \A d \in days : d <= first
  <2> DEFINE e == days
  <2>1. e \subseteq DaysOf(db.bars) /\ e # {}
    BY <1>5
  <2> HIDE DEF e
  <2>2. Max(e) \in Int /\ \A d \in e : d <= Max(e)
    BY <2>1, MarketDays
  <2>3. QED  BY <2>2 DEF e
<1>7. second \in rest /\ second \in Int /\ \A d \in rest : d <= second
  <2> DEFINE e == rest
  <2>1. e \subseteq DaysOf(db.bars) /\ e # {}
    BY <1>5
  <2> HIDE DEF e
  <2>2. Max(e) \in e /\ Max(e) \in Int /\ \A d \in e : d <= Max(e)
    BY <2>1, MarketDays
  <2>3. QED  BY <2>2 DEF e
<1>8. second # first /\ \A d \in days : d = first \/ d <= second
  BY <1>7
<1> HIDE DEF first, second, rest, both, g
<1>9. PICK b \in B, c \in B : Newest2(B, b, c) /\ b.day = first /\ c.day = second
  BY <1>5, <1>6, <1>7, <1>8, BothDays
<1>10. Dated(B)
  BY BarsAreDated
<1>11. CloseOn(db, s, first) = b.close /\ CloseOn(db, s, second) = c.close
  BY <1>9, CloseIs
<1> HIDE DEF s, B, days
<1>12. m.change_pct = Change(b.close, c.close)
  BY <1>1, <1>9, <1>10, OneNewest
<1>13. Printed(b.close) /\ Printed(c.close) /\ Unit \in Nat \ {0}
  BY <1>9, <1>10 DEF Dated, PagesAssumption
<1> DEFINE now == b.close  was == c.close
<1>14. Printed(now) /\ Printed(was)
  BY <1>13
<1> HIDE DEF now, was
<1>15. /\ Less(Zero, Change(now, was)) => Less(was, now)
       /\ Less(Change(now, was), Zero) => Less(now, was)
       /\ now = was => Change(now, was) = Zero
  BY <1>13, <1>14, MoveIs
<1>16. m.change_pct = Change(now, was) /\ CloseOn(db, s, first) = now /\ CloseOn(db, s, second) = was
  BY <1>11, <1>12 DEF now, was
<1>17. Less(Zero, m.change_pct) => s \in g.advancers
  BY <1>3, <1>4, <1>15, <1>16
<1>18. Less(m.change_pct, Zero) => s \in g.decliners
  BY <1>3, <1>4, <1>15, <1>16
<1>19. s \in g.unchanged => m.change_pct = Zero
  BY <1>3, <1>15, <1>16
<1>20. QED  BY <1>17, <1>18, <1>19 DEF s

\* What a page with the last close of a stock shows.
LEMMA LastCloseIs ==
  ASSUME NEW db, MarketTables(db), NEW s \in Stocks, NEW b, Newest1(BarsOf(db, s), b)
  PROVE  get_stock(db, s).price = b.close /\ get_indicators(db, s).close = b.close
<1> DEFINE B == BarsOf(db, s)  all == latest_closes(db)
<1>1. Dated(B) /\ B # {}
  BY BarsAreDated DEF Newest1
<1>2. Last(Closes(B)) = b.close
  BY <1>1, ClosesEnd
<1>3. s \in DOMAIN all /\ all[s] = Last(Closes(B))
  BY <1>1 DEF latest_closes
<1> HIDE DEF all
<1>4. get_stock(db, s).price = IF s \in DOMAIN all THEN all[s] ELSE Missing
  BY DEF get_stock, all
<1>5. get_indicators(db, s).close = Last(Closes(B))
  BY <1>1 DEF get_indicators, IndicatorsOn
<1>6. QED  BY <1>2, <1>3, <1>4, <1>5

LEMMA RankedPrice ==
  ASSUME PagesAssumption, IndicatorsAssumption, NEW db, MarketTables(db), db.scores # {},
         NEW r \in Range(get_ranked(db, StockRows)), r.metrics # Missing
  PROVE  /\ r.metrics.price = get_stock(db, r.payload.symbol).price
         /\ r.metrics.price = get_indicators(db, r.payload.symbol).close
         /\ \A m \in Movers(db, "ALL") :
              m.symbol = r.payload.symbol /\ Less(Zero, m.change_pct) => Less(Zero, r.metrics.change)
<1> DEFINE s == r.payload.symbol  day == ScoredDay(db)  t == day - Reach  B == BarsOf(db, s)
           E == InReach(B, t)  q == Recent(db, s, day)
<1>1. s \in Scored(db) /\ r.metrics = MetricsOf(q)
  BY RankedAre
<1>2. day \in DaysOf(db.bars) /\ day \in Int /\ s \in Stocks
  BY <1>1, ScoredIs
<1>3. q = Closes(E) /\ Dated(E) /\ t \in Int
  BY <1>2, RecentIs
<1>4. Dated(B)
  BY BarsAreDated
<1>5. r.metrics = PriceMetrics(q) /\ q # <<>>
  BY <1>1 DEF MetricsOf
<1>6. r.metrics.price = Last(q)
  BY <1>5 DEF PriceMetrics
<1> HIDE DEF s, q, E, day
<1>7. E # {}
  BY <1>3, <1>5, ClosesEnd
<1>8. PICK b \in E : Newest1(E, b)
  BY <1>3, <1>7, ClosesEnd
<1>9. Last(q) = b.close
  BY <1>3, <1>8, ClosesEnd
<1>10. Newest1(B, b)
  <2> HIDE DEF t, B
  <2>1. \A x : Newest1(InReach(B, t), x) => Newest1(B, x)
    BY <1>3, <1>4, ReachIs
  <2>2. QED  BY <1>8, <2>1 DEF E
<1>11. get_stock(db, s).price = b.close /\ get_indicators(db, s).close = b.close
  BY <1>2, <1>10, LastCloseIs
<1>12. ASSUME NEW m \in Movers(db, "ALL"), m.symbol = s, Less(Zero, m.change_pct)
       PROVE  Less(Zero, r.metrics.change)
  <2> DEFINE newest == Max(DaysOf(db.bars))  u == newest - Reach
  <2>1. /\ db.bars # {}
        /\ \E x, y \in B : /\ Newest2(B, x, y) /\ Newest2(InReach(B, u), x, y)
                           /\ m.change_pct = Change(x.close, y.close)
    BY <1>12, MoverIs
  <2>2. newest \in Int /\ day <= newest
    <3> DEFINE days == DaysOf(db.bars)
    <3>1. days \subseteq DaysOf(db.bars) /\ days # {} /\ day \in days
      BY <1>2
    <3> HIDE DEF days
    <3>2. Max(days) \in Int /\ day <= Max(days)
      BY <3>1, MarketDays
    <3>3. QED  BY <3>2 DEF days
  <2> HIDE DEF newest
  <2>3. u \in Int /\ t \in Int /\ t <= u
    BY <1>2, <2>2 DEF PagesAssumption
  <2> HIDE DEF u, t, B
  <2>4. PICK x \in B, y \in B : /\ Newest2(B, x, y) /\ Newest2(InReach(B, u), x, y)
                                /\ m.change_pct = Change(x.close, y.close)
    BY <2>1
  <2>5. Newest2(E, x, y)
    <3>1. \A v \in Int : v <= u => \A k, l : Newest2(InReach(B, u), k, l) => Newest2(InReach(B, v), k, l)
      BY <1>4, <2>3, ReachIs
    <3>2. QED  BY <2>3, <2>4, <3>1 DEF E
  <2>6. Previous(q) = y.close /\ Len(q) >= 2 /\ Last(q) = x.close
    BY <1>3, <2>5, ClosesEnd DEF Newest2
  <2>7. Printed(x.close) /\ Printed(y.close) /\ Unit \in Nat \ {0}
    BY <1>4, <2>4 DEF Dated, PagesAssumption
  <2> DEFINE now == x.close  was == y.close
  <2>8. Printed(now) /\ Printed(was) /\ m.change_pct = Change(now, was)
        /\ Previous(q) = was /\ Last(q) = now
    BY <2>4, <2>6, <2>7
  <2> HIDE DEF now, was
  <2>9. Less(was, now)
    BY <1>12, <2>7, <2>8, MoveIs
  <2>10. Less(Zero, RoundTo(Minus(now, was), 100))
    BY <2>8, <2>9, RiseIs
  <2>11. Len(q) \in Nat /\ ~(Len(q) < 2)
    BY <1>3, <2>6, ClosesEnd
  <2>12. r.metrics.change = RoundTo(Minus(Last(q), Previous(q)), 100)
    BY <1>5, <2>11 DEF PriceMetrics
  <2>13. QED  BY <2>8, <2>10, <2>12
<1>13. QED  BY <1>6, <1>9, <1>11, <1>12 DEF s

LEMMA MoversListed ==
  ASSUME PagesAssumption, NEW db, MarketTables(db), NEW m \in Movers(db, "ALL")
  PROVE  \E s \in list_stocks(db, Missing, FALSE) : s.symbol = m.symbol /\ s.price = m.close
<1> DEFINE x == m.symbol  B == BarsOf(db, x)
<1>1. x \in Active(db) /\ \E b, c \in B : Newest2(B, b, c) /\ m.close = b.close
  BY MoverIs
<1>2. PICK b \in B : Newest1(B, b) /\ m.close = b.close
  BY <1>1 DEF Newest2
<1>3. x \in Stocks
  BY <1>1 DEF Active
<1>4. get_stock(db, x).price = m.close
  BY <1>2, <1>3, LastCloseIs
<1>5. get_stock(db, x).symbol = x
  BY DEF get_stock
<1>6. get_stock(db, x) \in list_stocks(db, Missing, FALSE)
  BY <1>1 DEF list_stocks
<1>7. QED  BY <1>4, <1>5, <1>6

\* The pages made of tables agree.
LEMMA ViewsDoAgree ==
  ASSUME PagesAssumption, IndicatorsAssumption, NEW db, MarketTables(db)
  PROVE  ViewsAgree(db, StockRows)
<1> DEFINE movers == Movers(db, "ALL")  ranked == Range(get_ranked(db, StockRows))
<1>1. MovesAgree(get_breadth(db), movers)
  BY MovesDoAgree
<1>2. ranked # {} => db.scores # {}
  BY NoScores
<1>3. \A r \in ranked :
        r.metrics # Missing =>
          /\ r.metrics.price = get_stock(db, r.payload.symbol).price
          /\ r.metrics.price = get_indicators(db, r.payload.symbol).close
          /\ \A m \in movers : m.symbol = r.payload.symbol /\ Less(Zero, m.change_pct) =>
                                 Less(Zero, r.metrics.change)
  <2> SUFFICES ASSUME NEW r \in ranked, r.metrics # Missing
               PROVE  /\ r.metrics.price = get_stock(db, r.payload.symbol).price
                      /\ r.metrics.price = get_indicators(db, r.payload.symbol).close
                      /\ \A m \in movers : m.symbol = r.payload.symbol /\ Less(Zero, m.change_pct) =>
                                             Less(Zero, r.metrics.change)
    OBVIOUS
  <2>1. db.scores # {}
    BY <1>2
  <2>2. QED  BY <2>1, RankedPrice
<1>4. \A m \in movers : \E s \in list_stocks(db, Missing, FALSE) :
        s.symbol = m.symbol /\ s.price = m.close
  BY MoversListed
<1>5. \A r \in ranked : r.payload.symbol \in TradedOn(db, ScoredDay(db))
  <2> SUFFICES ASSUME NEW r \in ranked PROVE r.payload.symbol \in TradedOn(db, ScoredDay(db))
    OBVIOUS
  <2>1. db.scores # {}
    BY <1>2
  <2>2. r.payload.symbol \in Scored(db)
    BY <2>1, RankedAre
  <2>3. QED  BY <2>1, <2>2, ScoredIs
<1> HIDE DEF movers, ranked
<1>6. PricesAgree(db, ranked, movers) /\ RankedTraded(db, ranked)
  BY <1>3, <1>4, <1>5 DEF PricesAgree, RankedTraded
<1>7. QED  BY <1>1, <1>6 DEF ViewsAgree, movers, ranked

\* Whatever the tables hold, and however long before the newest bars the scores were made:
\* breadth and movers agree about a stock, every page shows one price of it, nobody is ranked by
\* the prices of another day, and a ranking explains its own scores (get_breadth, get_movers,
\* get_ranked, get_stock, get_indicators, compute_and_store_scores, score_universe).
THEOREM PagesAreOneStory == PagesSpec => []PagesAgree
<1>1. \A db \in Databases, day \in ScoringDays : ViewsAgree(ScoredUpTo(db, day), StockRows)
  <2> SUFFICES ASSUME NEW db \in Databases, NEW day \in ScoringDays
               PROVE  ViewsAgree(ScoredUpTo(db, day), StockRows)
    OBVIOUS
  <2>1. MarketTables(db)
    BY DatabasesAssumption
  <2>2. MarketTables(ScoredUpTo(db, day))
    BY <2>1, PagesAssumption, IndicatorsAssumption, ScoredTables
  <2>3. QED  BY <2>2, PagesAssumption, IndicatorsAssumption, ViewsDoAgree
<1>2. \A raws \in RawUniverses : RankingIsExplained(ScoresOfAll(raws), StockRows)
  <2> SUFFICES ASSUME NEW raws \in RawUniverses
               PROVE  RankingIsExplained(ScoresOfAll(raws), StockRows)
    OBVIOUS
  <2> DEFINE n == Len(StockRows)
  <2>1. /\ n \in Nat /\ StockRows \in [1 .. n -> Stocks] /\ Unit \in Nat \ {0}
        /\ Missing \notin Fractions
    BY PagesAssumption, IndicatorsAssumption DEF PagesAssumption, IndicatorsAssumption
  <2>2. RawShape(raws, Stocks)
    BY PagesAssumption DEF PagesAssumption, RawShape
  <2>3. \A s \in Stocks : \E i \in 1 .. n : StockRows[i] = s
    BY <2>1, PagesAssumption DEF PagesAssumption, Range
  <2> HIDE DEF n
  <2>4. Scoring(ScoresOfAll(raws), StockRows, Stocks, n)
    BY <2>1, <2>2, <2>3, ScoresOfAllAre
  <2>5. QED  BY <2>4, RankingExplained
<1>3. PagesInit => PagesAgree
  BY <1>1, <1>2 DEF PagesInit, PagesAgree, Asked
<1>4. PagesAgree /\ [UNCHANGED question]_question => PagesAgree'
  BY DEF PagesAgree, Asked
<1>5. QED  BY <1>3, <1>4, PTL DEF PagesSpec, Stays

-----------------------------------------------------------------------------
(* Portfolios: what is rounded, added up and averaged *)

LEMMA ScaledOrder ==
  ASSUME NEW a \in Int, NEW b \in Int, NEW d \in Nat \ {0}, a * d < b * d
  PROVE  a < b
<1> SUFFICES ASSUME ~(a < b) PROVE FALSE
  OBVIOUS
<1>1. PICK e \in Nat : a = b + e
  <2>1. a - b \in Nat /\ a = b + (a - b)
    OBVIOUS
  <2>2. QED  BY <2>1
<1> DEFINE x == b * d  y == e * d
<1>2. a * d = x + y
  BY <1>1
<1>3. x \in Int /\ y \in Nat
  OBVIOUS
<1> HIDE DEF x, y
<1>4. ~(x + y < x)
  BY <1>3
<1>5. QED  BY <1>2, <1>4 DEF x

\* What is more than a limit in percents is not far below it when it is rounded.
LEMMA RoundedStaysHeavy ==
  ASSUME NEW x \in Fractions, NEW unit \in Nat \ {0}, NEW r, Nearest(r, x, unit),
         NEW limit, NEW a \in Int, Equals(limit, a, unit), Less(limit, Percent(x))
  PROVE  a < 100 * r + 50
<1> DEFINE n == x.num  d == x.den  p == n * unit  q == r * d
<1>1. n \in Int /\ d \in Nat \ {0} /\ r \in Int /\ Equals(x, n, d)
  BY FractionCombines, Itself DEF Nearest
<1>2. 2 * p - 2 * q <= d
  BY DEF Nearest
<1>3. p \in Int /\ q \in Int
  BY <1>1
<1> HIDE DEF n, d, p, q
<1>4. Equals(Whole(100), 100, 1)
  <2>1. 100 \in Int /\ 1 \in Int /\ 100 * 1 = 100
    OBVIOUS
  <2>2. Equals(Whole(100), 100 * 1, 1)
    BY <2>1, WholeEquals
  <2>3. QED  BY <2>1, <2>2
<1>5. Equals(Percent(x), 100 * n, d)
  <2>1. 100 \in Int /\ 1 \in Nat \ {0} /\ 1 * d = d
    BY <1>1
  <2>2. Equals(Times(Whole(100), x), 100 * n, 1 * d)
    BY <1>1, <1>4, <2>1, TimesIs
  <2>3. QED  BY <2>1, <2>2 DEF Percent
<1> DEFINE c == unit * d
<1>6. c \in Nat \ {0}
  BY <1>1
<1>7. Equals(Percent(x), 100 * p, c)
  <2>1. 100 * n \in Int /\ 100 * p \in Int /\ 100 * p = (100 * n) * unit
    BY <1>1 DEF p
  <2>2. c \in Int /\ c = d * unit /\ unit \in Int /\ d \in Int
    BY <1>1
  <2>3. QED  BY <1>5, <2>1, <2>2, Rescaled
<1>8. Equals(limit, a * d, c)
  <2>1. a * d \in Int /\ c \in Int /\ c = unit * d /\ unit \in Int /\ d \in Int
    BY <1>1
  <2>2. QED  BY <2>1, Rescaled
<1> DEFINE u == a * d
<1>9. u < 100 * p
  <2>1. u \in Int /\ 100 * p \in Int
    BY <1>1, <1>3
  <2> HIDE DEF u, c
  <2>2. Equals(limit, u, c)
    BY <1>8 DEF u
  <2>3. QED  BY <1>6, <1>7, <2>1, <2>2, LessIs
<1>10. u < 100 * q + 50 * d
  BY <1>1, <1>2, <1>3, <1>9
<1>11. 100 * q + 50 * d = (100 * r + 50) * d
  BY <1>1 DEF q
<1> DEFINE b == 100 * r + 50
<1>12. a * d < b * d
  BY <1>10, <1>11
<1>13. b \in Int
  BY <1>1
<1> HIDE DEF b
<1>14. a < b
  BY <1>1, <1>12, <1>13, ScaledOrder
<1>15. QED  BY <1>14 DEF b

\* A limit, and a share in percents, by the numbers of units.
LEMMA PercentIs ==
  ASSUME NEW x, NEW n \in Int, NEW unit \in Nat \ {0}, Equals(x, n, unit), NEW k \in Nat
  PROVE  /\ Less(Whole(k), Percent(x)) <=> k * unit < 100 * n
         /\ Less(Percent(x), Whole(k)) <=> 100 * n < k * unit
<1>1. Equals(Whole(100), 100, 1)
  <2>1. 100 \in Int /\ 1 \in Int /\ 100 * 1 = 100
    OBVIOUS
  <2>2. Equals(Whole(100), 100 * 1, 1)
    BY <2>1, WholeEquals
  <2>3. QED  BY <2>1, <2>2
<1>2. Equals(Percent(x), 100 * n, unit)
  <2>1. 100 \in Int /\ 1 \in Nat \ {0} /\ 1 * unit = unit
    OBVIOUS
  <2>2. Equals(Times(Whole(100), x), 100 * n, 1 * unit)
    BY <1>1, <2>1, TimesIs
  <2>3. QED  BY <2>1, <2>2 DEF Percent
<1> DEFINE u == k * unit  v == 100 * n
<1>3. Equals(Whole(k), u, unit) /\ u \in Int /\ v \in Int
  BY WholeEquals
<1>4. Equals(Percent(x), v, unit)
  BY <1>2
<1> HIDE DEF u, v
<1>5. /\ Less(Whole(k), Percent(x)) <=> u < v
      /\ Less(Percent(x), Whole(k)) <=> v < u
  BY <1>3, <1>4, LessIs
<1>6. QED  BY <1>5 DEF u, v

\* Rounded weights of n positions: r[i] units each.
Weighed(w, r, n, unit) ==
  /\ n \in Nat /\ unit \in Nat \ {0} /\ w \in [1 .. n -> Fractions] /\ r \in [1 .. n -> Nat]
  /\ \A i \in 1 .. n : Equals(w[i], r[i], unit)

\* Some of the weights add up to no less than each of them.
LEMMA PartWeighs ==
  ASSUME NEW w, NEW r, NEW n, NEW unit, Weighed(w, r, n, unit), NEW S, S \subseteq 1 .. n
  PROVE  \E k \in [S -> Nat] :
           /\ \A i \in S : k[i] = r[i] /\ r[i] <= SumFunction(k)
           /\ SumFunction(k) \in Nat /\ IsFiniteSet(S)
           /\ Equals(SumOver(S, w), SumFunction(k), unit)
<1> DEFINE v == [i \in S |-> w[i]]  k == [i \in S |-> r[i]]  I == 1 .. n
<1>1. /\ n \in Int /\ 1 \in Int /\ unit \in Nat \ {0} /\ w \in [I -> Fractions] /\ r \in [I -> Nat]
      /\ \A i \in I : Equals(w[i], r[i], unit)
  BY DEF Weighed
<1>2. IsFiniteSet(I)
  BY <1>1, FS_Interval
<1>3. S \subseteq I
  OBVIOUS
<1> HIDE DEF I
<1>4. IsFiniteSet(S)
  BY <1>2, <1>3, FS_Subset
<1>5. v \in [S -> Fractions] /\ k \in [S -> Nat] /\ k \in [S -> Int]
  BY <1>1, <1>3
<1>6. \A i \in S : Equals(v[i], k[i], unit) /\ k[i] = r[i]
  BY <1>1, <1>3
<1>7. SumOver(S, w) = TotalOf(v)
  BY DEF SumOver
<1> HIDE DEF v, k
<1>8. Equals(TotalOf(v), SumFunction(k), unit)
  BY <1>1, <1>4, <1>5, <1>6, TotalSum
<1>9. SumFunction(k) \in Nat
  <2>1. \A i \in S : k[i] >= 0
    BY <1>5
  <2>2. QED  BY <1>4, <1>5, <2>1, SumNat
<1>10. ASSUME NEW z \in S PROVE k[z] <= SumFunction(k)
  <2> DEFINE g == [i \in S |-> IF i = z THEN 0 ELSE k[i]]
  <2>1. g \in [S -> Nat] /\ g \in [S -> Int] /\ g[z] = 0 /\ \A i \in S : i # z => g[i] = k[i]
    BY <1>5
  <2> HIDE DEF g
  <2>2. SumFunction(g) = SumFunction(k) + (g[z] - k[z])
    <3>1. /\ IsFiniteSet(S) /\ k \in [S -> Int] /\ g \in [S -> Int]
          /\ OnlyAt(S, k, g, z)
      BY <1>4, <1>5, <2>1 DEF OnlyAt
    <3>2. QED  BY <3>1, SumWith
  <2>3. SumFunction(g) \in Nat
    <3>1. \A i \in S : g[i] >= 0
      BY <2>1
    <3>2. QED  BY <1>4, <2>1, <3>1, SumNat
  <2>4. k[z] \in Nat
    BY <1>5
  <2>5. QED  BY <1>9, <2>1, <2>2, <2>3, <2>4
<1>11. QED  BY <1>4, <1>5, <1>6, <1>7, <1>8, <1>9, <1>10

\* The exposure to a sector is no less than the weight of a position.
LEMMA ExposureIs ==
  ASSUME NEW w, NEW r, NEW n, NEW unit, Weighed(w, r, n, unit), NEW rs, DOMAIN rs = 1 .. n,
         NEW top \in 1 .. n
  PROVE  \E e \in Nat : Equals(SectorExposure(rs, w), e, unit) /\ r[top] <= e
<1> DEFINE I == 1 .. n  of == [i \in I |-> SumOver(InSector(rs, rs[i].sector), w)]
           E == {of[i] : i \in I}
<1>1. /\ n \in Int /\ 1 \in Int /\ unit \in Nat \ {0} /\ r \in [I -> Nat]
  BY DEF Weighed
<1>2. IsFiniteSet(I)
  BY <1>1, FS_Interval
<1>3. ASSUME NEW i \in I
      PROVE  \E e \in Nat : Equals(of[i], e, unit) /\ r[i] <= e
  <2> DEFINE S == InSector(rs, rs[i].sector)
  <2>1. S \subseteq 1 .. n /\ i \in S
    BY DEF InSector
  <2>2. of[i] = SumOver(S, w)
    OBVIOUS
  <2> HIDE DEF S, of
  <2>3. \E k \in [S -> Nat] :
           /\ \A j \in S : k[j] = r[j] /\ r[j] <= SumFunction(k)
           /\ SumFunction(k) \in Nat /\ IsFiniteSet(S)
           /\ Equals(SumOver(S, w), SumFunction(k), unit)
    BY <2>1, PartWeighs
  <2>4. PICK k \in [S -> Nat] :
           /\ \A j \in S : k[j] = r[j] /\ r[j] <= SumFunction(k)
           /\ SumFunction(k) \in Nat /\ IsFiniteSet(S)
           /\ Equals(SumOver(S, w), SumFunction(k), unit)
    BY <2>3
  <2>5. QED  BY <2>1, <2>2, <2>4
<1>4. SectorExposure(rs, w) = Widest(E)
  <2>1. E = {SumOver(InSector(rs, rs[i].sector), w) : i \in DOMAIN rs}
    OBVIOUS
  <2>2. QED  BY <2>1 DEF SectorExposure
<1>5. DOMAIN of = I /\ E # {} /\ top \in I
  OBVIOUS
<1> HIDE DEF I, of
<1>6. IsFiniteSet(E)
  BY <1>2, <1>5, ImageIsFinite
<1>7. E \subseteq Fractions
  BY <1>1, <1>3, EqualsType
<1> DEFINE x == Widest(E)
<1>8. x \in E /\ \A y \in E : ~Less(x, y)
  <2> HIDE DEF E
  <2>1. \E a \in E : \A b \in E : ~Less(a, b)
    BY <1>5, <1>6, <1>7, LeastFraction
  <2>2. QED  BY <2>1 DEF Widest
<1>9. SectorExposure(rs, w) = x
  BY <1>4
<1> HIDE DEF x
<1>10. PICK i \in I : x = of[i]
  BY <1>8
<1>11. PICK e \in Nat : Equals(of[i], e, unit)
  BY <1>3
<1>12. PICK f \in Nat : Equals(of[top], f, unit) /\ r[top] <= f
  BY <1>3, <1>5
<1>13. ~Less(x, of[top])
  BY <1>5, <1>8
<1>14. ~(e < f)
  <2>1. e \in Int /\ f \in Int
    OBVIOUS
  <2>2. QED  BY <1>1, <1>10, <1>11, <1>12, <1>13, <2>1, LessIs
<1>15. r[top] \in Nat
  BY <1>1, <1>5
<1>16. r[top] <= e
  BY <1>12, <1>14, <1>15
<1>17. QED  BY <1>10, <1>11, <1>16, <1>9

\* An average by the weights of a figure lies between two of the figures.
LEMMA AverageLies ==
  ASSUME NEW w, NEW r, NEW n, NEW unit, Weighed(w, r, n, unit), NEW rs, DOMAIN rs = 1 .. n,
         NEW key, NEW D, D = Scorable(rs, key), \A i \in D : rs[i][key] \in Fractions,
         Less(Zero, Weighted(rs, w, key))
  PROVE  \E a, b \in D : /\ ~Less(Weighted(rs, w, key), rs[a][key])
                         /\ ~Less(rs[b][key], Weighted(rs, w, key))
<1> DEFINE weighed == SumOver(D, w)  all == Weighted(rs, w, key)
           term == [i \in DOMAIN rs |-> Times(w[i], OrZero(rs[i][key]))]
           v == [i \in D |-> rs[i][key]]  t == [i \in D |-> term[i]]
<1>1. /\ unit \in Nat \ {0} /\ w \in [1 .. n -> Fractions] /\ r \in [1 .. n -> Nat]
      /\ \A i \in 1 .. n : Equals(w[i], r[i], unit)
  BY DEF Weighed
<1>2. D \subseteq 1 .. n /\ \A i \in D : rs[i][key] # Missing
  BY DEF Scorable
<1>3. PICK g \in [D -> Nat] :
        /\ \A i \in D : g[i] = r[i] /\ g[i] <= SumFunction(g)
        /\ SumFunction(g) \in Nat /\ IsFiniteSet(D)
        /\ Equals(SumOver(D, w), SumFunction(g), unit)
  <2>1. \E g \in [D -> Nat] :
          /\ \A i \in D : g[i] = r[i] /\ r[i] <= SumFunction(g)
          /\ SumFunction(g) \in Nat /\ IsFiniteSet(D)
          /\ Equals(SumOver(D, w), SumFunction(g), unit)
    BY <1>2, PartWeighs
  <2>2. QED  BY <2>1
<1> DEFINE K == SumFunction(g)
<1>4. all = IF Less(Zero, weighed) THEN Over2(Estimate(rs, w, key), weighed) ELSE Zero
  BY DEF Weighted
<1>5. Zero \in Fractions /\ Equals(Zero, 0, unit) /\ 0 \in Int /\ unit \in Int
  <2>1. unit \in Int /\ 0 \in Int
    BY <1>1
  <2>2. Equals(Zero, 0, unit)
    BY <2>1, ZeroEquals
  <2>3. QED  BY <2>1, <2>2, EqualsType
<1> HIDE DEF all
<1>6. Less(Zero, all)
  BY DEF all
<1>7. Less(Zero, weighed) /\ all = Over2(Estimate(rs, w, key), weighed)
  <2>1. ~Less(Zero, Zero)
    BY <1>5, LessTotal
  <2> HIDE DEF weighed
  <2>2. QED  BY <1>4, <1>6, <2>1
<1>8. K > 0 /\ K \in Nat \ {0} /\ K \in Int
  <2>1. Equals(weighed, K, unit) /\ K \in Nat
    BY <1>3
  <2> HIDE DEF weighed, K
  <2>2. 0 < K
    BY <1>1, <1>5, <1>7, <2>1, LessIs
  <2>3. QED  BY <2>1, <2>2
<1>9. Estimate(rs, w, key) = TotalOf(t)
  BY DEF Estimate, SumOver
<1>10. v \in [D -> Fractions]
  OBVIOUS
<1>11. \E c \in Nat \ {0} : \E k \in [D -> Int] : \A x \in D : Equals(v[x], k[x], c)
  <2> HIDE DEF v
  <2>1. QED  BY <1>3, <1>10, CommonDenominator
<1>12. PICK c \in Nat \ {0} : \E k \in [D -> Int] : \A x \in D : Equals(v[x], k[x], c)
  BY <1>11
<1>13. PICK k \in [D -> Int] : \A x \in D : Equals(v[x], k[x], c)
  BY <1>12
<1> DEFINE p == [i \in D |-> g[i] * k[i]]  e == unit * c
<1>14. p \in [D -> Int] /\ e \in Nat \ {0} /\ \A i \in D : p[i] = g[i] * k[i]
  BY <1>1, <1>3
<1>15. ASSUME NEW i \in D PROVE Equals(t[i], p[i], e) /\ t[i] \in Fractions
  <2>1. t[i] = Times(w[i], v[i])
    BY <1>2 DEF OrZero
  <2>2. Equals(w[i], g[i], unit) /\ Equals(v[i], k[i], c) /\ g[i] \in Int /\ k[i] \in Int
    BY <1>1, <1>2, <1>3, <1>13
  <2>3. p[i] = g[i] * k[i] /\ p[i] \in Int /\ e \in Int
    BY <1>14
  <2> HIDE DEF t, v, p
  <2>4. Equals(Times(w[i], v[i]), g[i] * k[i], unit * c)
    BY <1>1, <2>2, TimesIs
  <2>5. Equals(t[i], p[i], e)
    BY <2>1, <2>3, <2>4
  <2> HIDE DEF e
  <2>6. QED  BY <2>3, <2>5, EqualsType
<1>16. t = [i \in D |-> t[i]]
  OBVIOUS
<1> HIDE DEF t, p, e
<1>17. t \in [D -> Fractions]
  BY <1>15, <1>16
<1>18. Equals(TotalOf(t), SumFunction(p), e)
  BY <1>3, <1>14, <1>15, <1>17, TotalSum
<1> DEFINE E == SumFunction(p)
<1>19. E \in Int
  BY <1>3, <1>14, SumType
<1> HIDE DEF E, K, weighed
<1>20. Equals(all, E, c * K)
  <2>1. Equals(weighed, K, unit) /\ Equals(TotalOf(t), E, e) /\ K # 0
    BY <1>3, <1>8, <1>18 DEF weighed, E, K
  <2>2. Equals(Over2(TotalOf(t), weighed), E * unit, e * K)
    BY <1>1, <1>8, <1>14, <1>19, <2>1, Over2Is
  <2> DEFINE d == c * K  u == E * unit  x == e * K
  <2>3. d \in Int /\ u \in Int /\ x \in Int /\ unit # 0 /\ unit \in Int
    BY <1>1, <1>8, <1>14, <1>19
  <2>4. x = d * unit
    BY <1>1, <1>8 DEF e
  <2>5. u = E * unit
    OBVIOUS
  <2>6. Equals(all, u, x)
    BY <1>7, <1>9, <2>2
  <2> HIDE DEF d, u, x
  <2>7. Equals(all, E, d)
    BY <1>19, <2>3, <2>4, <2>5, <2>6, Reduced
  <2>8. QED  BY <2>7 DEF d
<1> DEFINE d == c * K
<1>21. d \in Nat \ {0} /\ d = c * K
  BY <1>8
<1>22. D # {}
  <2> SUFFICES ASSUME D = {} PROVE FALSE
    OBVIOUS
  <2>1. \A x \in D : g[x] = 0
    OBVIOUS
  <2>2. g \in [D -> Int]
    BY <1>3
  <2>3. SumFunction(g) = 0
    BY <1>3, <2>1, <2>2, SumOfZeros
  <2>4. QED  BY <1>8, <2>3 DEF K
\* k[z] times the sum of the weights bounds the sum when k[z] bounds every k
<1>23. ASSUME NEW z \in D
       PROVE  /\ Equals(v[z], k[z] * K, d) /\ k[z] * K \in Int
              /\ \E m \in [D -> Int] : /\ \A i \in D : m[i] = k[z] * g[i]
                                       /\ SumFunction(m) = k[z] * K
  <2>1. k[z] \in Int /\ Equals(v[z], k[z], c)
    BY <1>13
  <2> DEFINE y == k[z] * K  m == [i \in D |-> k[z] * g[i]]
  <2>2. y \in Int /\ y = k[z] * K /\ c \in Int /\ d \in Int
    BY <1>8, <1>21, <2>1
  <2>3. g \in [D -> Int] /\ m \in [D -> Int] /\ \A i \in D : m[i] = k[z] * g[i]
    BY <1>3, <2>1
  <2> HIDE DEF y, d, v, m
  <2>4. Equals(v[z], y, d)
    BY <1>8, <1>21, <2>1, <2>2, Rescaled
  <2> DEFINE b == k[z]
  <2>5. b \in Int /\ \A i \in D : m[i] = b * g[i]
    BY <2>1, <2>3
  <2> HIDE DEF b
  <2>6. SumFunction(m) = b * SumFunction(g)
    <3>1. Multiple1(m, g, D, b)
      BY <2>3, <2>5 DEF Multiple1
    <3>2. QED  BY <1>3, <3>1, SumMultiple
  <2>7. QED  BY <2>2, <2>3, <2>4, <2>6 DEF y, b, K
<1>24. PICK a \in D : \A x \in D : k[a] <= k[x]
  <2>1. \E a \in D : \A x \in D : k[a] <= k[x]
    BY <1>3, <1>13, <1>22, LeastKey
  <2>2. QED  BY <2>1
<1>25. PICK b \in D : \A x \in D : k[x] <= k[b]
  <2>1. \E b \in D : \A x \in D : k[x] <= k[b]
    BY <1>3, <1>13, <1>22, LargestKey
  <2>2. QED  BY <2>1
<1>26. \A i \in D : g[i] \in Nat /\ k[i] \in Int /\ k[a] \in Int /\ k[b] \in Int
  BY <1>3, <1>13
<1>27. \A x, y \in Int : \A q \in Nat : x <= y => x * q <= q * y /\ q * x <= y * q
  <2> SUFFICES ASSUME NEW x \in Int, NEW y \in Int, NEW q \in Nat, x <= y
               PROVE  x * q <= q * y /\ q * x <= y * q
    OBVIOUS
  <2>1. PICK f \in Nat : y = x + f
    <3>1. y - x \in Nat /\ y = x + (y - x)
      OBVIOUS
    <3>2. QED  BY <3>1
  <2> DEFINE h == x * q  j == f * q
  <2>2. q * y = h + j /\ y * q = h + j /\ q * x = h /\ h \in Int /\ j \in Nat
    BY <2>1
  <2> HIDE DEF h, j
  <2>3. h <= h + j
    BY <2>2
  <2>4. QED  BY <2>2, <2>3 DEF h
<1>28. k[a] * K <= E
  <2>1. PICK m \in [D -> Int] : /\ \A i \in D : m[i] = k[a] * g[i]
                                /\ SumFunction(m) = k[a] * K
    BY <1>23
  <2>2. \A i \in D : m[i] <= p[i]
    BY <1>14, <1>24, <1>26, <1>27, <2>1
  <2>3. SumFunction(m) <= SumFunction(p)
    BY <1>3, <1>14, <2>2, SumAtMost
  <2>4. QED  BY <2>1, <2>3 DEF E
<1>29. E <= k[b] * K
  <2>1. PICK m \in [D -> Int] : /\ \A i \in D : m[i] = k[b] * g[i]
                                /\ SumFunction(m) = k[b] * K
    BY <1>23
  <2>2. \A i \in D : p[i] <= m[i]
    BY <1>14, <1>25, <1>26, <1>27, <2>1
  <2>3. SumFunction(p) <= SumFunction(m)
    BY <1>3, <1>14, <2>2, SumAtMost
  <2>4. QED  BY <2>1, <2>3 DEF E
<1>30. v[a] = rs[a][key] /\ v[b] = rs[b][key]
  OBVIOUS
<1> HIDE DEF d, v
<1>31. Equals(all, E, d)
  BY <1>20 DEF d
<1> DEFINE low == k[a] * K  high == k[b] * K
<1>32. /\ low \in Int /\ high \in Int /\ Equals(v[a], low, d) /\ Equals(v[b], high, d)
       /\ low <= E /\ E <= high
  BY <1>23, <1>28, <1>29
<1> HIDE DEF low, high
<1>33. ~(E < low) /\ ~(high < E)
  BY <1>19, <1>32
<1>34. ~Less(all, v[a]) /\ ~Less(v[b], all)
  BY <1>19, <1>21, <1>31, <1>32, <1>33, LessIs
<1>35. QED  BY <1>30, <1>34 DEF all

\* The parts of a snapshot.
RowsOf(tools, positions) == [i \in DOMAIN positions |-> PositionRow(tools, positions[i])]
TotalValue(rs) == Sum([i \in DOMAIN rs |-> rs[i].value])
WeightIn(rs, i) == Over2(rs[i].value, TotalValue(rs))
WeightsIn(rs) == [i \in DOMAIN rs |-> RoundTo(WeightIn(rs, i), WeightUnit)]
TopOf(rs) == CHOOSE i \in DOMAIN rs : \A j \in DOMAIN rs : ~Less(rs[i].value, rs[j].value)

LEMMA SnapshotIs ==
  ASSUME NEW tools, NEW positions, NEW p, p = analyze_portfolio(tools, positions), p # Missing,
         NEW rs, rs = RowsOf(tools, positions)
  PROVE  /\ \A i \in DOMAIN positions : tools[positions[i].symbol].price # Missing
         /\ Less(Zero, TotalValue(rs))
         /\ p.rows = rs /\ p.largest = rs[TopOf(rs)].symbol
         /\ p.concentration = Percent(WeightIn(rs, TopOf(rs)))
         /\ p.score = Weighted(rs, WeightsIn(rs), "score") /\ p.warnings = Limits(rs)
         /\ \E used : p.alerts = Alerts(rs, WeightsIn(rs), p.concentration,
                                        SectorExposure(rs, WeightsIn(rs)), used)
<1> DEFINE total == TotalValue(rs)  w == WeightsIn(rs)  top == TopOf(rs)
           exposure == SectorExposure(rs, w)
           used == Percent(Over2(Estimate(rs, w, "volatility"), Budget))
           snapshot == [rows |-> rs, largest |-> rs[top].symbol, concentration |-> Percent(WeightIn(rs, top)),
             sector |-> Percent(exposure), score |-> Weighted(rs, w, "score"), budget_used |-> used,
             max_drawdown |-> Estimate(rs, w, "max_drawdown"), warnings |-> Limits(rs),
             alerts |-> Alerts(rs, w, Percent(WeightIn(rs, top)), exposure, used)]
           none == (\E i \in DOMAIN positions : tools[positions[i].symbol].price = Missing)
                     \/ ~Less(Zero, total)
<1>1. p = IF none THEN Missing ELSE snapshot
  BY DEF analyze_portfolio, RowsOf, TotalValue, WeightIn, WeightsIn, TopOf
<1>2. ~none /\ p = snapshot
  <2> HIDE DEF snapshot, none
  <2>1. QED  BY <1>1
<1>3. /\ p.rows = rs /\ p.largest = rs[top].symbol
      /\ p.concentration = Percent(WeightIn(rs, top))
      /\ p.score = Weighted(rs, w, "score") /\ p.warnings = Limits(rs)
      /\ p.alerts = Alerts(rs, w, Percent(WeightIn(rs, top)), exposure, used)
  <2> HIDE DEF none, w, top, exposure, used
  <2>1. QED  BY <1>2
<1>4. QED  BY <1>2, <1>3

\* What a portfolio is analyzed from: a price that is not negative, a score or none.
RowsFit(tools, positions) ==
  \A i \in DOMAIN positions :
    /\ Amount(positions[i].quantity)
    /\ tools[positions[i].symbol].price # Missing => Amount(tools[positions[i].symbol].price.price)
    /\ ScoreOf(tools[positions[i].symbol].ranking) \in Fractions \cup {Missing}

\* The weights of a snapshot, rounded, and its largest position.
LEMMA WeightsInAre ==
  ASSUME NEW n \in Nat, NEW rs, DOMAIN rs = 1 .. n, \A i \in 1 .. n : Amount(rs[i].value),
         Less(Zero, TotalValue(rs)), WeightUnit \in Nat \ {0}
  PROVE  /\ TopOf(rs) \in 1 .. n
         /\ \A i \in 1 .. n : WeightIn(rs, i) \in Fractions
         /\ \E r : /\ Weighed(WeightsIn(rs), r, n, WeightUnit)
                   /\ \A i \in 1 .. n : Nearest(r[i], WeightIn(rs, i), WeightUnit)
<1> DEFINE I == 1 .. n  v == [i \in I |-> rs[i].value]  total == TotalValue(rs)
<1>1. v \in [1 .. n -> Fractions] /\ \A i \in 1 .. n : Amount(v[i])
  BY DEF Amount
<1>2. total = Sum(v)
  BY DEF TotalValue
<1>3. DOMAIN v = I
  OBVIOUS
<1> HIDE DEF v, total
<1>4. total \in Fractions /\ Amount(total)
  BY <1>1, <1>2, SeriesSumType DEF Amount
<1>5. Zero \in Fractions
  BY WholeIs DEF Zero
<1>6. total # Zero
  <2> SUFFICES ASSUME total = Zero PROVE FALSE
    OBVIOUS
  <2>1. Less(Zero, Zero)
    BY DEF total
  <2>2. QED  BY <1>5, <2>1, LessTotal
<1>7. n # 0
  <2> SUFFICES ASSUME n = 0 PROVE FALSE
    OBVIOUS
  <2>1. PICK h : PartSums(h, v, n) /\ Sum(v) = h[n]
    BY <1>1, SumIs
  <2>2. h[0] = Zero
    BY <2>1 DEF PartSums
  <2>3. QED  BY <1>2, <1>6, <2>1, <2>2
<1>8. \E i \in I : \A j \in I : ~Less(v[i], v[j])
  <2> DEFINE E == {v[i] : i \in I}
  <2>1. n \in Int /\ 1 \in Int /\ 1 \in 1 .. n
    BY <1>7
  <2>2. IsFiniteSet(I)
    BY <2>1, FS_Interval
  <2>3. E # {} /\ E \subseteq Fractions
    BY <1>1, <2>1
  <2> HIDE DEF I
  <2>4. IsFiniteSet(E)
    BY <1>3, <2>2, ImageIsFinite
  <2> HIDE DEF E
  <2>5. PICK x \in E : \A y \in E : ~Less(x, y)
    BY <2>3, <2>4, LeastFraction
  <2> USE DEF E
  <2>6. QED  BY <2>5
<1>9. TopOf(rs) \in 1 .. n
  <2>1. \A i \in I : v[i] = rs[i].value
    BY DEF v
  <2>2. QED  BY <1>8, <2>1 DEF TopOf
<1>10. ASSUME NEW i \in I PROVE Amount(WeightIn(rs, i)) /\ WeightIn(rs, i) \in Fractions
  <2>1. Amount(v[i]) /\ v[i] = rs[i].value
    BY <1>1 DEF v
  <2>2. Amount(Over2(v[i], total))
    BY <1>4, <1>6, <2>1, AmountOver
  <2>3. QED  BY <2>1, <2>2 DEF WeightIn, total, Amount
<1> DEFINE r == [i \in I |-> CHOOSE k : Nearest(k, WeightIn(rs, i), WeightUnit)]
           w == WeightsIn(rs)
<1>11. ASSUME NEW i \in I
       PROVE  Nearest(r[i], WeightIn(rs, i), WeightUnit) /\ r[i] = r[i]
  <2>1. \E k : Nearest(k, WeightIn(rs, i), WeightUnit)
    BY <1>10, NearestIs
  <2>2. QED  BY <2>1
<1>12. w = [i \in I |-> RoundTo(WeightIn(rs, i), WeightUnit)]
  BY DEF WeightsIn
<1>13. r = [i \in I |-> r[i]]
  OBVIOUS
<1> HIDE DEF r, w
<1>14. ASSUME NEW i \in I
       PROVE  r[i] \in Nat /\ Equals(w[i], r[i], WeightUnit) /\ w[i] \in Fractions
  <2> DEFINE x == WeightIn(rs, i)
  <2>1. w[i] = RoundTo(x, WeightUnit) /\ r[i] \in Int /\ Equals(RoundTo(x, WeightUnit), r[i], WeightUnit)
    BY <1>11, <1>12 DEF Nearest
  <2>2. WeightUnit \in Int /\ 0 \in Int
    OBVIOUS
  <2>3. x \in Fractions /\ ~Less(x, Zero)
    BY <1>10 DEF Amount
  <2> HIDE DEF x
  <2>4. ~Less(RoundTo(x, WeightUnit), Zero)
    BY <2>3, RoundSign
  <2>5. Equals(Zero, 0, WeightUnit)
    BY <2>2, ZeroEquals
  <2>6. ~(r[i] < 0)
    BY <2>1, <2>2, <2>4, <2>5, LessIs
  <2>7. w[i] \in Fractions
    BY <2>1, <2>2, EqualsType
  <2>8. QED  BY <2>1, <2>6, <2>7
<1>15. r \in [1 .. n -> Nat] /\ w \in [1 .. n -> Fractions]
  <2>1. w = [i \in I |-> w[i]]
    BY <1>12
  <2>2. QED  BY <1>13, <1>14, <2>1
<1>16. Weighed(w, r, n, WeightUnit)
  BY <1>14, <1>15 DEF Weighed
<1>17. QED  BY <1>9, <1>10, <1>11, <1>16 DEF w

LEMMA RowsAmount ==
  ASSUME NEW tools, NEW positions, RowsFit(tools, positions),
         \A i \in DOMAIN positions : tools[positions[i].symbol].price # Missing,
         NEW rs, rs = RowsOf(tools, positions)
  PROVE  /\ DOMAIN rs = DOMAIN positions
         /\ \A i \in DOMAIN positions :
              /\ Amount(rs[i].value) /\ rs[i].score \in Fractions \cup {Missing}
              /\ \A j \in DOMAIN positions : rs[i].symbol = rs[j].symbol => rs[i].signal = rs[j].signal
<1>1. ASSUME NEW i \in DOMAIN positions
      PROVE  /\ rs[i].value = Times(positions[i].quantity, tools[positions[i].symbol].price.price)
             /\ rs[i].score = ScoreOf(tools[positions[i].symbol].ranking)
             /\ rs[i].symbol = positions[i].symbol
             /\ rs[i].signal = SignalOf(tools[positions[i].symbol].ranking)
  BY DEF RowsOf, PositionRow
<1>2. DOMAIN rs = DOMAIN positions
  BY DEF RowsOf
<1>3. ASSUME NEW i \in DOMAIN positions
      PROVE  Amount(rs[i].value) /\ rs[i].score \in Fractions \cup {Missing}
  <2>1. /\ Amount(positions[i].quantity) /\ Amount(tools[positions[i].symbol].price.price)
        /\ ScoreOf(tools[positions[i].symbol].ranking) \in Fractions \cup {Missing}
    BY DEF RowsFit
  <2>2. Amount(Times(positions[i].quantity, tools[positions[i].symbol].price.price))
    BY <2>1, AmountTimes
  <2>3. QED  BY <1>1, <2>1, <2>2
<1>4. QED  BY <1>1, <1>2, <1>3

\* The guardrails of a portfolio agree with each other.
LEMMA PortfolioHolds ==
  ASSUME NEW tools, NEW positions, NEW n \in Nat, DOMAIN positions = 1 .. n,
         RowsFit(tools, positions), WeightUnit \in Nat, WeightUnit >= 5, Missing \notin Fractions
  PROVE  PortfolioIsSound(tools, positions)
<1> DEFINE p == analyze_portfolio(tools, positions)  rs == RowsOf(tools, positions)
           scores0 == {p.rows[i].score : i \in DOMAIN p.rows} \ {Missing}
           margin == Frac(100 * Len(p.rows), WeightUnit)
           over == Less(Plus(Whole(40), margin), p.concentration) => "sector_exposure" \in p.alerts
           critical == "concentration_critical" \in p.alerts => {"concentration", "sector_exposure"}
                                                                  \subseteq p.alerts
           unscored == scores0 = {} => "score" \in p.warnings
           average == scores0 # {} /\ Less(Zero, p.score) =>
                        \E a, b \in scores0 : ~Less(p.score, a) /\ ~Less(b, p.score)
           worst == (\E i \in DOMAIN p.rows : p.rows[i].signal = "NEGATIVE"
                                              /\ p.rows[i].symbol = p.largest)
                      /\ "concentration" \in p.alerts => "signal_exposure" \in p.alerts
<1> SUFFICES ASSUME p # Missing PROVE over /\ critical /\ unscored /\ average /\ worst
  BY DEF PortfolioIsSound
<1> DEFINE w == WeightsIn(rs)  top == TopOf(rs)  exposure == SectorExposure(rs, w)
<1> HIDE DEF p, rs
<1>1. /\ \A i \in DOMAIN positions : tools[positions[i].symbol].price # Missing
      /\ Less(Zero, TotalValue(rs))
      /\ p.rows = rs /\ p.largest = rs[top].symbol
      /\ p.concentration = Percent(WeightIn(rs, top))
      /\ p.score = Weighted(rs, w, "score") /\ p.warnings = Limits(rs)
      /\ \E used : p.alerts = Alerts(rs, w, p.concentration, exposure, used)
  BY SnapshotIs DEF p, rs
<1>2. /\ DOMAIN rs = 1 .. n
      /\ \A i \in 1 .. n : Amount(rs[i].value) /\ rs[i].score \in Fractions \cup {Missing}
      /\ \A i, j \in 1 .. n : rs[i].symbol = rs[j].symbol => rs[i].signal = rs[j].signal
  BY <1>1, RowsAmount DEF rs
<1>3. WeightUnit \in Nat \ {0} /\ WeightUnit \in Int
  OBVIOUS
<1>4. /\ top \in 1 .. n /\ WeightIn(rs, top) \in Fractions
      /\ \E r : /\ Weighed(w, r, n, WeightUnit)
                /\ \A i \in 1 .. n : Nearest(r[i], WeightIn(rs, i), WeightUnit)
  BY <1>1, <1>2, <1>3, WeightsInAre
<1>5. PICK r : /\ Weighed(w, r, n, WeightUnit)
               /\ \A i \in 1 .. n : Nearest(r[i], WeightIn(rs, i), WeightUnit)
  BY <1>4
<1> DEFINE x == WeightIn(rs, top)  heavy == r[top]
<1>6. x \in Fractions /\ Nearest(heavy, x, WeightUnit) /\ p.concentration = Percent(x)
  BY <1>1, <1>4, <1>5
<1>7. heavy \in Nat
  BY <1>4, <1>5 DEF Weighed
<1>8. PICK e \in Nat : Equals(exposure, e, WeightUnit) /\ heavy <= e
  BY <1>2, <1>4, <1>5, ExposureIs
<1> HIDE DEF x, heavy, w, exposure, top
<1>9. PICK used : p.alerts = Alerts(rs, w, p.concentration, exposure, used)
  BY <1>1
<1> DEFINE negative == SumOver({i \in DOMAIN rs : rs[i].signal = "NEGATIVE"}, w)
           shown == p.concentration
<1>10. /\ "concentration" \in p.alerts <=> Less(Whole(30), shown)
       /\ "concentration_critical" \in p.alerts <=> Less(Whole(50), shown)
       /\ "sector_exposure" \in p.alerts <=> Less(Whole(40), Percent(exposure))
       /\ "signal_exposure" \in p.alerts <=> ~Less(Percent(negative), Whole(20))
  <2> HIDE DEF shown
  <2>1. p.alerts = If(Less(Whole(30), shown), "concentration")
          \cup If(Less(Whole(50), shown), "concentration_critical")
          \cup If(Less(Whole(40), Percent(exposure)), "sector_exposure")
          \cup If(~Less(Percent(negative), Whole(20)), "signal_exposure")
          \cup If(Less(Whole(100), used), "risk_budget")
    BY <1>9 DEF Alerts, shown
  <2> HIDE DEF negative
  <2>2. QED  BY <2>1 DEF If
<1>11. ASSUME NEW k \in Nat, Less(Whole(k), shown) PROVE k * WeightUnit < 100 * heavy + 50
  <2> DEFINE a == k * WeightUnit
  <2>1. Equals(Whole(k), a, WeightUnit) /\ a \in Int
    BY <1>3, WholeEquals
  <2>2. Less(Whole(k), Percent(x))
    BY <1>6, <1>11
  <2> HIDE DEF a
  <2>3. a < 100 * heavy + 50
    BY <1>3, <1>6, <2>1, <2>2, RoundedStaysHeavy
  <2>4. QED  BY <2>3 DEF a
<1>12. ASSUME 40 * WeightUnit < 100 * e PROVE "sector_exposure" \in p.alerts
  <2>1. 40 \in Nat /\ e \in Int
    OBVIOUS
  <2>2. Less(Whole(40), Percent(exposure))
    BY <1>3, <1>8, <1>12, <2>1, PercentIs
  <2>3. QED  BY <1>10, <2>2
<1>13. over
  <2> SUFFICES ASSUME Less(Plus(Whole(40), margin), shown) PROVE "sector_exposure" \in p.alerts
    OBVIOUS
  <2> DEFINE a == 40 * WeightUnit  b == 100 * n
  <2>1. Len(p.rows) = n
    BY <1>1, <1>2
  <2>2. n >= 1
    BY <1>4
  <2>3. margin = Frac(b, WeightUnit)
    BY <2>1
  <2>4. a \in Int /\ b \in Int /\ 40 \in Int /\ WeightUnit # 0
    OBVIOUS
  <2>5. Equals(Whole(40), a, WeightUnit)
    BY <1>3, <2>4, WholeEquals
  <2> HIDE DEF a, b, margin, shown
  <2>6. Equals(margin, b, WeightUnit)
    BY <1>3, <2>3, <2>4, FracIs
  <2>7. Equals(Plus(Whole(40), margin), a + b, WeightUnit)
    BY <1>3, <2>4, <2>5, <2>6, PlusIs
  <2>8. Less(Plus(Whole(40), margin), Percent(x))
    BY <1>6 DEF shown
  <2>9. a + b \in Int
    BY <2>4
  <2>10. a + b < 100 * heavy + 50
    BY <1>3, <1>6, <2>7, <2>8, <2>9, RoundedStaysHeavy
  <2>11. a < 100 * e
    <3>1. b >= 50 /\ b \in Int
      BY <2>2, <2>4 DEF b
    <3>2. QED  BY <1>7, <1>8, <2>4, <2>10, <3>1
  <2>12. QED  BY <1>12, <2>11 DEF a
<1>14. critical
  <2> SUFFICES ASSUME "concentration_critical" \in p.alerts
               PROVE  "concentration" \in p.alerts /\ "sector_exposure" \in p.alerts
    OBVIOUS
  <2>1. Less(Whole(50), shown)
    BY <1>10
  <2>2. 50 * WeightUnit < 100 * heavy + 50
    BY <1>11, <2>1
  <2>3. 40 * WeightUnit < 100 * e
    BY <1>3, <1>7, <1>8, <2>2
  <2>4. Less(Whole(30), shown)
    <3>1. Whole(50) \in Fractions /\ Whole(30) \in Fractions /\ Less(Whole(30), Whole(50))
      <4>1. Whole(50) \in Fractions /\ Whole(30) \in Fractions
        BY WholeIs
      <4>2. QED  BY <4>1 DEF Less, Whole
    <3>2. shown \in Fractions
      <4>1. Whole(100) \in Fractions
        BY WholeIs
      <4>2. QED  BY <1>6, <4>1, TimesType DEF Percent
    <3> HIDE DEF shown
    <3>3. QED  BY <2>1, <3>1, <3>2, LessOn
  <2>5. QED  BY <1>10, <1>12, <2>3, <2>4
<1>15. unscored
  <2> SUFFICES ASSUME scores0 = {} PROVE "score" \in p.warnings
    OBVIOUS
  <2>1. rs[top].score = Missing
    BY <1>1, <1>2, <1>4
  <2>2. top \in DOMAIN rs
    BY <1>2, <1>4
  <2>3. top \notin Scorable(rs, "score")
    BY <2>1 DEF Scorable
  <2>4. QED  BY <1>1, <2>2, <2>3 DEF Limits, If
<1>16. average
  <2> SUFFICES ASSUME Less(Zero, p.score)
               PROVE  \E a, b \in scores0 : ~Less(p.score, a) /\ ~Less(b, p.score)
    OBVIOUS
  <2> DEFINE D == Scorable(rs, "score")
  <2>1. \A i \in D : i \in 1 .. n /\ rs[i].score \in Fractions /\ rs[i].score # Missing
    BY <1>2 DEF Scorable
  <2>2. \A i \in D : rs[i]["score"] \in Fractions
    BY <2>1
  <2> HIDE DEF D
  <2>3. Less(Zero, Weighted(rs, w, "score"))
    BY <1>1
  <2>4. \E a, b \in D : /\ ~Less(Weighted(rs, w, "score"), rs[a]["score"])
                        /\ ~Less(rs[b]["score"], Weighted(rs, w, "score"))
    BY <1>2, <1>5, <2>2, <2>3, AverageLies DEF D
  <2>5. \A i \in D : rs[i].score \in scores0
    BY <1>1, <1>2, <2>1
  <2> HIDE DEF scores0
  <2>6. QED  BY <1>1, <2>4, <2>5
<1>17. worst
  <2> SUFFICES ASSUME NEW i \in DOMAIN p.rows, p.rows[i].signal = "NEGATIVE",
                      p.rows[i].symbol = p.largest, "concentration" \in p.alerts
               PROVE  "signal_exposure" \in p.alerts
    OBVIOUS
  <2> DEFINE S == {j \in DOMAIN rs : rs[j].signal = "NEGATIVE"}
  <2>1. rs[top].signal = "NEGATIVE"
    BY <1>1, <1>2, <1>4
  <2>2. top \in S /\ S \subseteq 1 .. n
    BY <1>2, <1>4, <2>1
  <2>3. negative = SumOver(S, w)
    OBVIOUS
  <2> HIDE DEF S, negative
  <2>4. \E k \in [S -> Nat] :
           /\ \A j \in S : k[j] = r[j] /\ r[j] <= SumFunction(k)
           /\ SumFunction(k) \in Nat /\ IsFiniteSet(S)
           /\ Equals(SumOver(S, w), SumFunction(k), WeightUnit)
    BY <1>5, <2>2, PartWeighs
  <2>5. PICK m \in Nat : heavy <= m /\ Equals(negative, m, WeightUnit)
    BY <2>2, <2>3, <2>4 DEF heavy
  <2>6. 30 * WeightUnit < 100 * heavy + 50
    BY <1>10, <1>11
  <2>7. ~(100 * m < 20 * WeightUnit)
    BY <1>3, <1>7, <2>5, <2>6
  <2>8. 20 \in Nat /\ m \in Int
    OBVIOUS
  <2>9. ~Less(Percent(negative), Whole(20))
    BY <1>3, <2>5, <2>7, <2>8, PercentIs
  <2>10. QED  BY <1>10, <2>9
<1>18. QED  BY <1>13, <1>14, <1>15, <1>16, <1>17

-----------------------------------------------------------------------------
(* Analyses *)

\* No larger than before, and between zero and one.
LEMMA ClampIs ==
  ASSUME NEW x \in Fractions
  PROVE  /\ Clamp(x) \in Fractions /\ Amount(Clamp(x)) /\ ~Less(Whole(1), Clamp(x))
         /\ Less(x, Zero) => Clamp(x) = Zero
         /\ Less(Whole(1), x) => Clamp(x) = Whole(1)
         /\ ~Less(x, Zero) /\ ~Less(Whole(1), x) => Clamp(x) = x
<1>1. /\ Zero \in Fractions /\ Whole(1) \in Fractions /\ Amount(Whole(1)) /\ Amount(Zero)
      /\ ~Less(Whole(1), Zero) /\ ~Less(Whole(1), Whole(1)) /\ ~Less(Zero, Zero)
  <2>1. Zero \in Fractions /\ Whole(1) \in Fractions
    BY WholeIs DEF Zero
  <2>2. ~Less(Whole(1), Zero)
    BY DEF Less, Whole, Zero
  <2>3. Amount(Whole(1))
    BY WholeAmount
  <2>4. ~Less(Zero, Zero) /\ ~Less(Whole(1), Whole(1))
    BY <2>1, LessTotal
  <2>5. QED  BY <2>1, <2>2, <2>3, <2>4 DEF Amount
<1>2. ~(Less(x, Zero) /\ Less(Whole(1), x))
  BY <1>1, LessOn
<1>3. Clamp(x) = IF Less(x, Zero) THEN Zero ELSE IF Less(Whole(1), x) THEN Whole(1) ELSE x
  BY DEF Clamp
<1>4. ~Less(x, Zero) => Amount(x)
  BY DEF Amount
<1>5. QED  BY <1>1, <1>2, <1>3, <1>4

LEMMA ClampOrder ==
  ASSUME NEW x \in Fractions, NEW y \in Fractions, ~Less(x, y)
  PROVE  ~Less(Clamp(x), Clamp(y))
<1>1. /\ Clamp(x) \in Fractions /\ Amount(Clamp(x)) /\ ~Less(Whole(1), Clamp(x))
      /\ Less(x, Zero) => Clamp(x) = Zero
      /\ Less(Whole(1), x) => Clamp(x) = Whole(1)
      /\ ~Less(x, Zero) /\ ~Less(Whole(1), x) => Clamp(x) = x
  BY ClampIs
<1>2. /\ Clamp(y) \in Fractions /\ Amount(Clamp(y)) /\ ~Less(Whole(1), Clamp(y))
      /\ Less(y, Zero) => Clamp(y) = Zero
      /\ Less(Whole(1), y) => Clamp(y) = Whole(1)
      /\ ~Less(y, Zero) /\ ~Less(Whole(1), y) => Clamp(y) = y
  BY ClampIs
<1>3. Zero \in Fractions /\ Whole(1) \in Fractions
  BY WholeIs DEF Zero
<1>4. CASE Less(y, Zero)
  BY <1>1, <1>2, <1>4 DEF Amount
<1>5. CASE Less(Whole(1), x)
  BY <1>1, <1>2, <1>5
<1>6. CASE ~Less(y, Zero) /\ ~Less(Whole(1), x)
  <2>1. ~Less(x, Zero)
    BY <1>3, <1>6, LessOrder
  <2>2. ~Less(Whole(1), y)
    BY <1>3, <1>6, LessOrder
  <2>3. QED  BY <1>1, <1>2, <1>6, <2>1, <2>2
<1>7. QED  BY <1>4, <1>5, <1>6

\* A share of the larger is the larger.
LEMMA PartOrder ==
  ASSUME NEW x \in Fractions, NEW y \in Fractions, ~Less(x, y), NEW n \in Nat, NEW d \in Nat \ {0}
  PROVE  /\ Times(Frac(n, d), x) \in Fractions /\ Times(Frac(n, d), y) \in Fractions
         /\ ~Less(Times(Frac(n, d), x), Times(Frac(n, d), y))
<1>1. n \in Int /\ d \in Int /\ d # 0
  OBVIOUS
<1>2. Equals(Frac(n, d), n, d)
  BY <1>1, FracIs
<1>3. Frac(n, d) \in Fractions
  BY <1>1, <1>2, EqualsType
<1>4. PICK a, b \in Int : \E c \in Nat \ {0} : Equals(x, a, c) /\ Equals(y, b, c)
  BY InCommon
<1>5. PICK c \in Nat \ {0} : Equals(x, a, c) /\ Equals(y, b, c)
  BY <1>4
<1>6. ~(a < b)
  BY <1>5, LessIs
<1>7. Equals(Times(Frac(n, d), x), n * a, d * c) /\ Equals(Times(Frac(n, d), y), n * b, d * c)
  BY <1>1, <1>2, <1>5, TimesIs
<1>8. n * b <= n * a
  <2>1. PICK e \in Nat : a = b + e
    <3>1. a - b \in Nat /\ a = b + (a - b)
      BY <1>6
    <3>2. QED  BY <3>1
  <2> DEFINE u == n * b  v == n * e
  <2>2. n * a = u + v /\ u \in Int /\ v \in Nat
    BY <2>1
  <2> HIDE DEF u, v
  <2>3. u <= u + v
    BY <2>2
  <2>4. QED  BY <2>2, <2>3 DEF u
<1> DEFINE u == n * a  v == n * b  k == d * c
<1>9. u \in Int /\ v \in Int /\ k \in Nat \ {0} /\ ~(u < v)
  BY <1>1, <1>8
<1> HIDE DEF u, v, k
<1>10. Equals(Times(Frac(n, d), x), u, k) /\ Equals(Times(Frac(n, d), y), v, k)
  BY <1>7 DEF u, v, k
<1>11. ~Less(Times(Frac(n, d), x), Times(Frac(n, d), y))
  BY <1>9, <1>10, LessIs
<1>12. QED  BY <1>3, <1>11, TimesType

\* A sum is no smaller than another when none of its terms is.
LEMMA SeriesOrder ==
  ASSUME NEW n \in Nat, NEW s \in [1 .. n -> Fractions], NEW t \in [1 .. n -> Fractions],
         \A i \in 1 .. n : ~Less(s[i], t[i])
  PROVE  Sum(s) \in Fractions /\ Sum(t) \in Fractions /\ ~Less(Sum(s), Sum(t))
<1> DEFINE I == 1 .. n
<1>1. IsFiniteSet(I)
  <2>1. n \in Int /\ 1 \in Int
    OBVIOUS
  <2>2. QED  BY <2>1, FS_Interval
<1>2. s \in [I -> Fractions] /\ t \in [I -> Fractions] /\ \A i \in I : ~Less(s[i], t[i])
  OBVIOUS
<1> HIDE DEF I
<1>3. PICK c \in Nat \ {0} : \E k \in [I -> Int] : \A i \in I : Equals(s[i], k[i], c)
  BY <1>1, <1>2, CommonDenominator
<1>4. PICK k \in [I -> Int] : \A i \in I : Equals(s[i], k[i], c)
  BY <1>3
<1>5. PICK d \in Nat \ {0} : \E m \in [I -> Int] : \A i \in I : Equals(t[i], m[i], d)
  BY <1>1, <1>2, CommonDenominator
<1>6. PICK m \in [I -> Int] : \A i \in I : Equals(t[i], m[i], d)
  BY <1>5
<1> DEFINE e == c * d  f == [i \in I |-> k[i] * d]  g == [i \in I |-> m[i] * c]
<1>7. e \in Nat \ {0} /\ e \in Int /\ f \in [I -> Int] /\ g \in [I -> Int]
  BY <1>4, <1>6
<1>8. ASSUME NEW i \in I PROVE Equals(s[i], f[i], e) /\ Equals(t[i], g[i], e) /\ g[i] <= f[i]
  <2>1. f[i] = k[i] * d /\ g[i] = m[i] * c /\ e = c * d /\ e = d * c /\ f[i] \in Int /\ g[i] \in Int
        /\ k[i] \in Int /\ m[i] \in Int
    BY <1>4, <1>6
  <2>2. Equals(s[i], k[i], c) /\ Equals(t[i], m[i], d) /\ c \in Int /\ d \in Int
    BY <1>4, <1>6
  <2> HIDE DEF e, f, g
  <2>3. Equals(s[i], f[i], e)
    BY <1>7, <2>1, <2>2, Rescaled
  <2>4. Equals(t[i], g[i], e)
    BY <1>7, <2>1, <2>2, Rescaled
  <2>5. ~(f[i] < g[i])
    BY <1>2, <1>7, <2>1, <2>3, <2>4, LessIs
  <2>6. QED  BY <2>1, <2>3, <2>4, <2>5
<1> HIDE DEF e, f, g
<1>9. Numerators(s, f, e, n) /\ Numerators(t, g, e, n)
  <2> USE DEF I
  <2>1. QED  BY <1>7, <1>8 DEF Numerators
<1>10. Equals(Sum(s), SumFunction(f), e) /\ Equals(Sum(t), SumFunction(g), e)
  BY <1>9, SeriesSum
<1>11. SumFunction(g) <= SumFunction(f)
  BY <1>1, <1>7, <1>8, SumAtMost
<1>12. SumFunction(f) \in Int /\ SumFunction(g) \in Int
  BY <1>1, <1>7, SumType
<1> DEFINE u == SumFunction(f)  v == SumFunction(g)
<1>13. u \in Int /\ v \in Int /\ ~(u < v) /\ Equals(Sum(s), u, e) /\ Equals(Sum(t), v, e)
  BY <1>10, <1>11, <1>12
<1> HIDE DEF u, v
<1>14. ~Less(Sum(s), Sum(t))
  BY <1>7, <1>13, LessIs
<1>15. QED  BY <1>7, <1>13, <1>14, EqualsType

\* A ranking that is used: a score or none, a confidence, each factor once.
RankingFits(r) ==
  /\ r.overall_score \in Fractions \cup {Missing} /\ r.confidence \in Fractions
  /\ \E m \in Nat : /\ DOMAIN r.contributions = 1 .. m
                    /\ \A i, j \in 1 .. m :
                         r.contributions[i].factor = r.contributions[j].factor => i = j

LEMMA PayloadFits ==
  ASSUME NEW p, MadeOfScores(p), Missing \notin Fractions
  PROVE  RankingFits(p)
<1>1. PICK marks, stock, row, rank, total :
        ScoreShape(marks) /\ p = to_ranking_payload(RankingOf(stock, row, decompose_score(marks)), rank, total)
  BY DEF MadeOfScores
<1> DEFINE d == decompose_score(marks)  q == d.contributions  o == compute_overall_score(marks)
<1>2. /\ d.overall_score = o
      /\ \E n : Lists(q, PartsOf(marks), ByShares(PartsOf(marks)), n)
  BY <1>1, DecomposedIs
<1>3. PICK n : Lists(q, PartsOf(marks), ByShares(PartsOf(marks)), n)
  BY <1>2
<1>4. /\ n \in Nat /\ DOMAIN q = 1 .. n /\ Len(q) = n /\ \A i \in 1 .. n : q[i] \in PartsOf(marks)
      /\ \A i, j \in 1 .. n : q[i] = q[j] => i = j
  BY <1>3 DEF Lists
<1>5. o \in Fractions \cup {Missing}
  BY <1>1, OverallScoreType
<1> HIDE DEF d, q, o
<1>6. p.overall_score = d.overall_score /\ p.contributions = q
      /\ p.confidence = build_confidence(d.overall_score, Len(q))
  BY <1>1 DEF to_ranking_payload, RankingOf, d, q
<1>7. \A x, y \in PartsOf(marks) : x.factor = y.factor => x = y
  <2>1. \A f \in Available(marks) : PartOf(marks, f).factor = f
    BY DEF PartOf, Contribution
  <2>2. QED  BY <2>1 DEF PartsOf
<1>8. \A i, j \in 1 .. n : q[i].factor = q[j].factor => i = j
  BY <1>4, <1>7
<1>9. build_confidence(o, n) \in Fractions
  <2> DEFINE k == Cardinality(Factors)  x == Over2(Distance(o, Whole(55)), Whole(45))
             y == Frac(n, k)  c == Times(Frac(1, 2), Plus(x, y))
  <2>1. Zero \in Fractions /\ Whole(1) \in Fractions /\ Whole(55) \in Fractions /\ Whole(45) \in Fractions
    BY WholeIs DEF Zero
  <2>2. o = Missing => build_confidence(o, n) = Zero
    BY DEF build_confidence
  <2>3. ASSUME o # Missing PROVE c \in Fractions
    <3>1. o \in Fractions
      BY <1>5, <2>3
    <3>2. Distance(o, Whole(55)) \in Fractions
      BY <2>1, <3>1, DistanceIs
    <3>3. Whole(45) # Zero
      BY DEF Whole, Zero
    <3>4. x \in Fractions
      BY <2>1, <3>2, <3>3, QuotientType
    <3>5. k \in Nat /\ k # 0
      <4>1. IsFiniteSet(Factors) /\ "risk" \in Factors
        <5>1. "risk" \in Factors
          BY DEF Factors, Range, FACTOR_COLUMNS
        <5>2. QED  BY <5>1, FactorsAre
      <4>2. QED  BY <4>1, FS_CardinalityType, FS_EmptySet
    <3>6. k \in Int /\ n \in Int /\ 1 \in Int /\ 2 \in Int /\ 2 # 0
      BY <1>4, <3>5
    <3> HIDE DEF x, k
    <3>7. Equals(y, n, k) /\ Equals(Frac(1, 2), 1, 2)
      BY <3>5, <3>6, FracIs
    <3>8. y \in Fractions /\ Frac(1, 2) \in Fractions
      BY <3>6, <3>7, EqualsType
    <3> HIDE DEF y
    <3>9. Plus(x, y) \in Fractions
      BY <3>4, <3>8, PlusType
    <3>10. QED  BY <3>8, <3>9, TimesType
  <2>4. o # Missing => build_confidence(o, n) = IF Less(Whole(1), c) THEN Whole(1) ELSE c
    BY DEF build_confidence
  <2> HIDE DEF c
  <2>5. QED  BY <2>1, <2>2, <2>3, <2>4
<1>10. p.overall_score \in Fractions \cup {Missing} /\ p.confidence \in Fractions
  BY <1>2, <1>4, <1>5, <1>6, <1>9 DEF d
<1>11. QED  BY <1>4, <1>6, <1>8, <1>10 DEF RankingFits

\* The elements at some places.
LEMMA PickedAre ==
  ASSUME NEW q, NEW m \in Nat, DOMAIN q = 1 .. m, NEW P, P \subseteq 1 .. m
  PROVE  /\ DOMAIN Picked(q, P) = 1 .. Cardinality(P) /\ Cardinality(P) \in Nat
         /\ \A k \in 1 .. Cardinality(P) : \E i \in P : Picked(q, P)[k] = q[i]
         /\ Picked(q, P) # <<>> => Cardinality(P) >= 1
<1> DEFINE I == 1 .. m  n == Cardinality(P)
<1>1. m \in Int /\ 1 \in Int
  OBVIOUS
<1>2. IsFiniteSet(I) /\ I \subseteq Int
  BY <1>1, FS_Interval
<1> HIDE DEF I
<1>3. IsFiniteSet(P) /\ P \subseteq Int
  BY <1>2, FS_Subset DEF I
<1>4. n \in Nat
  BY <1>3, FS_CardinalityType
<1>5. Picked(q, P) = [k \in 1 .. n |-> q[Nth(P, k)]]
  BY DEF Picked
<1>6. \A k \in 1 .. n : Nth(P, k) \in P
  BY <1>3, NthIs
<1> HIDE DEF n
<1>7. n = 0 => Picked(q, P) = <<>>
  BY <1>5
<1>8. DOMAIN Picked(q, P) = 1 .. n /\ \A k \in 1 .. n : \E i \in P : Picked(q, P)[k] = q[i]
  BY <1>5, <1>6
<1>9. QED  BY <1>4, <1>7, <1>8 DEF n

\* What an analysis calls weakest has no larger share than what it says leads.
LEMMA WeakestIs ==
  ASSUME NEW r, RankingFits(r), bottom_factor(r) # Missing
  PROVE  ~Less((CHOOSE c \in Range(r.contributions) : c.factor = top_factor(r)).contribution_pct,
               (CHOOSE c \in Range(r.contributions) : c.factor = bottom_factor(r)).contribution_pct)
<1> DEFINE q == r.contributions  P == {i \in DOMAIN q : q[i].contribution_pct # Missing}
           s == Picked(q, P)
           B == {i \in DOMAIN s : \A j \in DOMAIN s : ~Less(s[j].contribution_pct, s[i].contribution_pct)}
           b == Picked(s, B)
<1>1. PICK m \in Nat : /\ DOMAIN q = 1 .. m
                       /\ \A i, j \in 1 .. m : q[i].factor = q[j].factor => i = j
  BY DEF RankingFits
<1>2. WithShare(r) = s
  BY DEF WithShare
<1>3. bottom_factor(r) = First(b) /\ top_factor(r) = First(s)
  BY <1>2 DEF bottom_factor, top_factor
<1> DEFINE n == Cardinality(P)  k == Cardinality(B)
<1>4. /\ DOMAIN s = 1 .. n /\ n \in Nat
      /\ \A i \in 1 .. n : \E j \in P : s[i] = q[j]
      /\ s # <<>> => n >= 1
  <2>1. P \subseteq 1 .. m
    BY <1>1
  <2> HIDE DEF P, q
  <2>2. QED  BY <1>1, <2>1, PickedAre
<1>5. P \subseteq 1 .. m
  BY <1>1
<1> HIDE DEF s, n, P, q
<1>6. B \subseteq 1 .. n /\ \A i \in B, j \in 1 .. n : ~Less(s[j].contribution_pct, s[i].contribution_pct)
  BY <1>4
<1> HIDE DEF B
<1>7. /\ DOMAIN b = 1 .. k /\ k \in Nat
      /\ \A i \in 1 .. k : \E j \in B : b[i] = s[j]
      /\ b # <<>> => k >= 1
  BY <1>4, <1>6, PickedAre
<1> HIDE DEF b, k
<1>8. b # <<>> /\ bottom_factor(r) = b[1].factor
  BY <1>3 DEF First
<1>9. PICK j \in B : b[1] = s[j]
  <2>1. 1 \in 1 .. k
    BY <1>7, <1>8
  <2>2. QED  BY <1>7, <2>1
<1>10. j \in 1 .. n /\ 1 \in 1 .. n
  BY <1>4, <1>6
<1>11. s # <<>>
  BY <1>4, <1>10
<1>12. top_factor(r) = s[1].factor
  BY <1>3, <1>11 DEF First
<1>13. ASSUME NEW i \in 1 .. n
       PROVE  (CHOOSE c \in Range(q) : c.factor = s[i].factor) = s[i]
  <2>1. PICK z \in 1 .. m : s[i] = q[z]
    BY <1>4, <1>5, <1>13
  <2>2. s[i] \in Range(q)
    BY <1>1, <2>1 DEF Range
  <2>3. \A c \in Range(q) : c.factor = s[i].factor => c = s[i]
    BY <1>1, <2>1 DEF Range
  <2>4. QED  BY <2>2, <2>3
<1>14. ~Less(s[1].contribution_pct, s[j].contribution_pct)
  BY <1>6, <1>9, <1>10
<1>15. /\ (CHOOSE c \in Range(q) : c.factor = top_factor(r)) = s[1]
       /\ (CHOOSE c \in Range(q) : c.factor = bottom_factor(r)) = s[j]
  BY <1>8, <1>9, <1>10, <1>12, <1>13
<1>16. QED  BY <1>14, <1>15 DEF q

\* The parts of a confidence.
ConfidenceParts(ranking, quality, regime, evidence) ==
  <<Times(Frac(30, 100), Clamp(Plus(Frac(1, 2), Times(Frac(1, 2), ranking.confidence)))),
    Times(Frac(30, 100), Clamp(Over2(QualityOrNone(quality), Whole(100)))),
    Times(Frac(20, 100), Clamp(regime.confidence)),
    Times(Frac(10, 100), Frac(IF evidence < 4 THEN evidence ELSE 4, 4)),
    Times(Frac(10, 100), Over2(Agreement(ranking.signal), Whole(10)))>>

\* Each part is a value, no smaller than without quality and evidence.
LEMMA PartsAre ==
  ASSUME NEW ranking, ranking.confidence \in Fractions, NEW regime, regime.confidence \in Fractions,
         NEW quality \in Fractions \cup {Missing}, NEW evidence \in Nat, NEW s, NEW t,
         s = ConfidenceParts(ranking, quality, regime, evidence),
         t = ConfidenceParts(ranking, Missing, regime, 0)
  PROVE  /\ s \in [1 .. 5 -> Fractions] /\ t \in [1 .. 5 -> Fractions]
         /\ \A i \in 1 .. 5 : ~Less(s[i], t[i])
<1> DEFINE a1 == Clamp(Plus(Frac(1, 2), Times(Frac(1, 2), ranking.confidence)))
           a2 == Clamp(Over2(QualityOrNone(quality), Whole(100)))
           b2 == Clamp(Over2(QualityOrNone(Missing), Whole(100)))
           a3 == Clamp(regime.confidence)
           e == IF evidence < 4 THEN evidence ELSE 4
           a4 == Frac(e, 4)  b4 == Frac(IF 0 < 4 THEN 0 ELSE 4, 4)
           a5 == Over2(Agreement(ranking.signal), Whole(10))
<1>1. \A n \in Nat : Whole(n) \in Fractions
  BY WholeIs
<1>2. /\ Zero \in Fractions /\ Whole(100) \in Fractions /\ Whole(10) \in Fractions
      /\ Whole(100) # Zero /\ Whole(10) # Zero
  BY <1>1 DEF Zero, Whole
<1>3. \A n \in Nat, d \in Nat \ {0} : Frac(n, d) \in Fractions /\ Amount(Frac(n, d))
  BY AmountFrac DEF Amount
<1>4. a1 \in Fractions
  <2>1. Frac(1, 2) \in Fractions
    <3>1. 1 \in Nat /\ 2 \in Nat \ {0}
      OBVIOUS
    <3>2. QED  BY <1>3, <3>1
  <2>2. Plus(Frac(1, 2), Times(Frac(1, 2), ranking.confidence)) \in Fractions
    BY <2>1, TimesType, PlusType
  <2>3. QED  BY <2>2, ClampIs
<1>5. ASSUME NEW x \in Fractions \cup {Missing}
      PROVE  /\ Clamp(Over2(QualityOrNone(x), Whole(100))) \in Fractions
             /\ Amount(Clamp(Over2(QualityOrNone(x), Whole(100))))
  <2>1. QualityOrNone(x) \in Fractions
    BY <1>2 DEF QualityOrNone, OrZero
  <2>2. Over2(QualityOrNone(x), Whole(100)) \in Fractions
    BY <1>2, <2>1, QuotientType
  <2>3. QED  BY <2>2, ClampIs
<1>6. b2 = Zero
  <2>1. QualityOrNone(Missing) = Zero
    BY DEF QualityOrNone, OrZero
  <2>2. Over2(Zero, Whole(100)) = Zero
    <3>1. 0 \in Int /\ 100 \in Int /\ 1 \in Nat \ {0} /\ 100 # 0 /\ 100 \in Nat \ {0}
      OBVIOUS
    <3>2. Equals(Zero, 0, 1) /\ Equals(Zero, 0, 100)
      BY <3>1, ZeroEquals
    <3>3. Equals(Whole(100), 100, 1)
      <4>1. Equals(Whole(100), 100 * 1, 1)
        BY <3>1, WholeEquals
      <4>2. 100 * 1 = 100
        OBVIOUS
      <4>3. QED  BY <4>1, <4>2
    <3>4. Equals(Over2(Zero, Whole(100)), 0 * 1, 1 * 100)
      BY <3>1, <3>2, <3>3, Over2Is
    <3>5. 0 * 1 = 0 /\ 1 * 100 = 100
      OBVIOUS
    <3>6. Equals(Over2(Zero, Whole(100)), 0, 100)
      BY <3>4, <3>5
    <3>7. QED  BY <3>1, <3>2, <3>6, SameValue
  <2>3. ~Less(Zero, Zero) /\ ~Less(Whole(1), Zero)
    <3>1. ~Less(Zero, Zero)
      BY <1>2, LessTotal
    <3>2. QED  BY <3>1 DEF Less, Zero, Whole
  <2>4. Clamp(Zero) = Zero
    BY <1>2, <2>3, ClampIs
  <2>5. QED  BY <2>1, <2>2, <2>4
<1>7. a2 \in Fractions /\ b2 \in Fractions /\ ~Less(a2, b2)
  BY <1>5, <1>6 DEF Amount
<1>8. a3 \in Fractions
  BY ClampIs
<1>9. a4 \in Fractions /\ b4 \in Fractions /\ ~Less(a4, b4)
  <2>1. e \in Nat /\ 4 \in Nat \ {0} /\ 4 # 0 /\ 0 \in Int /\ 4 \in Int
    OBVIOUS
  <2>2. a4 \in Fractions /\ Amount(a4) /\ b4 = Frac(0, 4)
    BY <1>3, <2>1
  <2>3. Equals(Frac(0, 4), 0, 4) /\ Equals(Zero, 0, 4)
    BY <2>1, FracIs, ZeroEquals
  <2>4. b4 = Zero
    BY <2>1, <2>2, <2>3, SameValue
  <2>5. QED  BY <1>2, <2>2, <2>4 DEF Amount
<1>10. a5 \in Fractions
  <2>1. Agreement(ranking.signal) \in Fractions
    BY <1>1 DEF Agreement
  <2>2. QED  BY <1>2, <2>1, QuotientType
<1> DEFINE k(i) == CASE i = 1 -> 30 [] i = 2 -> 30 [] i = 3 -> 20 [] i = 4 -> 10 [] i = 5 -> 10
<1>11. s = <<Times(Frac(30, 100), a1), Times(Frac(30, 100), a2), Times(Frac(20, 100), a3),
             Times(Frac(10, 100), a4), Times(Frac(10, 100), a5)>>
  BY DEF ConfidenceParts
<1>12. t = <<Times(Frac(30, 100), a1), Times(Frac(30, 100), b2), Times(Frac(20, 100), a3),
             Times(Frac(10, 100), b4), Times(Frac(10, 100), a5)>>
  BY DEF ConfidenceParts
<1> HIDE DEF a1, a2, b2, a3, a4, b4, a5
<1>13. \A x \in Fractions : ~Less(x, x)
  BY LessTotal
<1>14. ASSUME NEW n \in Nat, NEW x \in Fractions, NEW y \in Fractions, ~Less(x, y)
       PROVE  /\ Times(Frac(n, 100), x) \in Fractions /\ Times(Frac(n, 100), y) \in Fractions
              /\ ~Less(Times(Frac(n, 100), x), Times(Frac(n, 100), y))
  <2>1. 100 \in Nat \ {0}
    OBVIOUS
  <2>2. QED  BY <1>14, <2>1, PartOrder
<1>15. /\ s[1] \in Fractions /\ t[1] \in Fractions /\ ~Less(s[1], t[1])
       /\ s[2] \in Fractions /\ t[2] \in Fractions /\ ~Less(s[2], t[2])
       /\ s[3] \in Fractions /\ t[3] \in Fractions /\ ~Less(s[3], t[3])
       /\ s[4] \in Fractions /\ t[4] \in Fractions /\ ~Less(s[4], t[4])
       /\ s[5] \in Fractions /\ t[5] \in Fractions /\ ~Less(s[5], t[5])
  <2>1. s[1] \in Fractions /\ t[1] \in Fractions /\ ~Less(s[1], t[1])
    BY <1>4, <1>11, <1>12, <1>13, <1>14
  <2>2. s[2] \in Fractions /\ t[2] \in Fractions /\ ~Less(s[2], t[2])
    BY <1>7, <1>11, <1>12, <1>14
  <2>3. s[3] \in Fractions /\ t[3] \in Fractions /\ ~Less(s[3], t[3])
    BY <1>8, <1>11, <1>12, <1>13, <1>14
  <2>4. s[4] \in Fractions /\ t[4] \in Fractions /\ ~Less(s[4], t[4])
    BY <1>9, <1>11, <1>12, <1>14
  <2>5. s[5] \in Fractions /\ t[5] \in Fractions /\ ~Less(s[5], t[5])
    BY <1>10, <1>11, <1>12, <1>13, <1>14
  <2>6. QED  BY <2>1, <2>2, <2>3, <2>4, <2>5
<1>16. \A i \in 1 .. 5 : i = 1 \/ i = 2 \/ i = 3 \/ i = 4 \/ i = 5
  OBVIOUS
<1>17. /\ DOMAIN s = 1 .. 5 /\ DOMAIN t = 1 .. 5
       /\ s = [i \in 1 .. 5 |-> s[i]] /\ t = [i \in 1 .. 5 |-> t[i]]
  <2>1. /\ s = [i \in 1 .. 5 |-> s[i]] /\ DOMAIN s = 1 .. 5
    BY <1>11
  <2>2. /\ t = [i \in 1 .. 5 |-> t[i]] /\ DOMAIN t = 1 .. 5
    BY <1>12
  <2>3. QED  BY <2>1, <2>2
<1>18. QED  BY <1>15, <1>16, <1>17

\* Knowing less never makes an analysis surer.
LEMMA ConfidenceOrder ==
  ASSUME NEW ranking, ranking.confidence \in Fractions, NEW regime, regime.confidence \in Fractions,
         NEW quality \in Fractions \cup {Missing}, NEW evidence \in Nat
  PROVE  ~Less(AnalysisConfidence(ranking, quality, regime, evidence),
               AnalysisConfidence(ranking, Missing, regime, 0))
<1> DEFINE s == ConfidenceParts(ranking, quality, regime, evidence)
           t == ConfidenceParts(ranking, Missing, regime, 0)
<1>1. /\ AnalysisConfidence(ranking, quality, regime, evidence) = Clamp(Sum(s))
      /\ AnalysisConfidence(ranking, Missing, regime, 0) = Clamp(Sum(t))
  BY DEF AnalysisConfidence, ConfidenceParts
<1> HIDE DEF s, t
<1>2. /\ s \in [1 .. 5 -> Fractions] /\ t \in [1 .. 5 -> Fractions]
      /\ \A i \in 1 .. 5 : ~Less(s[i], t[i])
  BY PartsAre DEF s, t
<1>3. Sum(s) \in Fractions /\ Sum(t) \in Fractions /\ ~Less(Sum(s), Sum(t))
  <2>1. 5 \in Nat
    OBVIOUS
  <2>2. QED  BY <1>2, <2>1, SeriesOrder
<1>4. QED  BY <1>1, <1>3, ClampOrder

\* What the tools say of a stock.
ToolFits(t) ==
  /\ {"ranking", "quality", "regime", "price"} \subseteq DOMAIN t
  /\ t.price # Missing => Amount(t.price.price)
  /\ t.ranking = Missing \/ RankingFits(t.ranking)
  /\ t.quality \in Fractions \cup {Missing} /\ t.regime.confidence \in Fractions

LEMMA AnalysisHolds ==
  ASSUME NEW t, ToolFits(t), NEW other, "evidence" \in DOMAIN other, other.evidence \in Nat
  PROVE  AnalysisIsSound(t, other)
<1> DEFINE less == [t EXCEPT !.quality = Missing]  none == [other EXCEPT !.evidence = 0]
           a == analyze(t, other)  b == analyze(less, none)
           share(f) == (CHOOSE c \in Range(t.ranking.contributions) : c.factor = f).contribution_pct
<1> SUFFICES ASSUME a # Missing
             PROVE  /\ a.risks.weakest # Missing =>
                         ~Less(share(top_factor(t.ranking)), share(a.risks.weakest))
                    /\ ~Less(a.confidence, b.confidence)
  BY DEF AnalysisIsSound
<1>1. t.ranking # Missing
  BY DEF analyze
<1>2. RankingFits(t.ranking)
  BY <1>1 DEF ToolFits
<1>3. /\ less.ranking = t.ranking /\ less.quality = Missing /\ less.regime = t.regime
      /\ none.evidence = 0
  BY DEF ToolFits
<1>4. /\ a.confidence = AnalysisConfidence(t.ranking, t.quality, t.regime, other.evidence)
      /\ a.risks = Risks(t)
  BY <1>1 DEF analyze
<1>5. b.confidence = AnalysisConfidence(less.ranking, less.quality, less.regime, none.evidence)
  <2> HIDE DEF less, none
  <2>1. less.ranking # Missing
    BY <1>1, <1>3
  <2>2. QED  BY <2>1 DEF analyze
<1>6. a.risks.weakest = bottom_factor(t.ranking)
  BY <1>4 DEF Risks
<1> HIDE DEF a, b, less, none
<1>7. ~Less(a.confidence, b.confidence)
  <2> DEFINE r == t.ranking  q == t.quality  g == t.regime  e == other.evidence
  <2>1. /\ r.confidence \in Fractions /\ g.confidence \in Fractions
        /\ q \in Fractions \cup {Missing} /\ e \in Nat
    BY <1>2 DEF ToolFits, RankingFits
  <2>2. a.confidence = AnalysisConfidence(r, q, g, e) /\ b.confidence = AnalysisConfidence(r, Missing, g, 0)
    BY <1>3, <1>4, <1>5
  <2> HIDE DEF r, q, g, e
  <2>3. QED  BY <2>1, <2>2, ConfidenceOrder
<1>8. ASSUME a.risks.weakest # Missing
      PROVE  ~Less(share(top_factor(t.ranking)), share(a.risks.weakest))
  <2> DEFINE r == t.ranking
  <2>1. RankingFits(r) /\ bottom_factor(r) # Missing
    BY <1>2, <1>6, <1>8
  <2> HIDE DEF r
  <2>2. ~Less((CHOOSE c \in Range(r.contributions) : c.factor = top_factor(r)).contribution_pct,
              (CHOOSE c \in Range(r.contributions) : c.factor = bottom_factor(r)).contribution_pct)
    BY <2>1, WeakestIs
  <2>3. QED  BY <1>6, <2>2 DEF r
<1>9. QED  BY <1>7, <1>8

\* The ranking of a stock is one of those published.
LEMMA RankingOfStock ==
  ASSUME PagesAssumption, IndicatorsAssumption, NEW db, MarketTables(db), NEW ranked,
         ranked = get_ranked(db, StockRows), NEW s
  PROVE  get_ranking(ranked, s) = Missing \/ RankingFits(get_ranking(ranked, s))
<1> DEFINE at == {i \in DOMAIN ranked : ranked[i].payload.symbol = s}  i == CHOOSE i \in at : TRUE
<1>1. at = {} => get_ranking(ranked, s) = Missing
  BY DEF get_ranking
<1>2. ASSUME at # {} PROVE RankingFits(get_ranking(ranked, s))
  <2>1. i \in at /\ get_ranking(ranked, s) = ranked[i].payload
    BY <1>2 DEF get_ranking
  <2> HIDE DEF i
  <2>2. ranked[i] \in Range(get_ranked(db, StockRows))
    BY <2>1 DEF Range
  <2>3. db.scores # {}
    BY <2>2, NoScores
  <2>4. MadeOfScores(ranked[i].payload)
    BY <2>2, <2>3, RankedAre
  <2>5. Missing \notin Fractions
    BY DEF IndicatorsAssumption
  <2>6. RankingFits(ranked[i].payload)
    BY <2>4, <2>5, PayloadFits
  <2>7. QED  BY <2>1, <2>6
<1>3. QED  BY <1>1, <1>2

\* A number above zero is an amount.
LEMMA AboveZero ==
  ASSUME NEW f \in Fractions, Less(Zero, f)
  PROVE  Amount(f)
<1>1. Zero \in Fractions
  BY WholeIs DEF Zero
<1>2. QED  BY <1>1, LessTotal DEF Amount

\* The price of a stock is that of its newest bar.
LEMMA StockPriceFits ==
  ASSUME NEW db, MarketTables(db), NEW s, get_stock_price(db, s) # Missing
  PROVE  Amount(get_stock_price(db, s).price)
<1> DEFINE B == BarsOf(db, s)  closes == Closes(B)
<1>1. Dated(B)
  BY BarsAreDated
<1>2. closes # <<>> /\ get_stock_price(db, s).price = Last(closes)
  BY DEF get_stock_price
<1> HIDE DEF B
<1>3. /\ closes = <<>> <=> B = {}
      /\ \A b : Newest1(B, b) => Last(closes) = b.close /\ closes # <<>>
      /\ B # {} => \E b \in B : Newest1(B, b)
  BY <1>1, ClosesEnd
<1>4. PICK b \in B : Last(closes) = b.close
  BY <1>2, <1>3
<1>5. b.close \in Fractions /\ Less(Zero, b.close)
  BY <1>1, <1>4 DEF Dated, Printed
<1>6. Amount(b.close)
  BY <1>5, AboveZero
<1>7. QED  BY <1>2, <1>4, <1>6

\* What the tools say of the stocks of a database that is reported on.
LEMMA ToolsFit ==
  ASSUME PagesAssumption, IndicatorsAssumption, ReportsAssumption, NEW db \in Described, NEW s \in Stocks
  PROVE  ToolFits(ToolsFrom(db)[s])
<1> DEFINE d == compute_and_store_scores(db)  ranked == get_ranked(d, StockRows)
           t == ToolsFrom(db)[s]
<1>1. /\ MarketTables(db) /\ {"quality", "regime"} \subseteq DOMAIN db
      /\ db.regime.confidence \in Fractions /\ db.quality[s] \in Fractions \cup {Missing}
  BY DEF ReportsAssumption
<1>2. MarketTables(d) /\ d.quality = db.quality /\ d.regime = db.regime
  BY <1>1, ScoredNowTables
<1>3. t = ToolsOf(d, ranked, s)
  BY DEF ToolsFrom
<1> HIDE DEF d
<1>4. get_ranking(ranked, s) = Missing \/ RankingFits(get_ranking(ranked, s))
  BY <1>2, RankingOfStock
<1>5. get_stock_price(d, s) # Missing => Amount(get_stock_price(d, s).price)
  BY <1>2, StockPriceFits
<1> HIDE DEF ranked, t
<1>6. /\ {"ranking", "quality", "regime", "price"} \subseteq DOMAIN t
      /\ t.price = get_stock_price(d, s) /\ t.ranking = get_ranking(ranked, s)
      /\ t.quality = d.quality[s] /\ t.regime = d.regime
  BY <1>3 DEF ToolsOf
<1>7. ToolFits(t)
  BY <1>1, <1>2, <1>4, <1>5, <1>6 DEF ToolFits
<1>8. QED  BY <1>7 DEF t

\* The rows of the positions of a portfolio.
LEMMA PositionsFit ==
  ASSUME PagesAssumption, IndicatorsAssumption, ReportsAssumption,
         NEW db \in Described, NEW positions \in Portfolios
  PROVE  /\ \E n \in Nat : DOMAIN positions = 1 .. n
         /\ RowsFit(ToolsFrom(db), positions)
<1> DEFINE tools == ToolsFrom(db)
<1>1. positions \in Seq([symbol : Stocks, quantity : {q \in Fractions : Less(Zero, q)}])
  BY DEF ReportsAssumption
<1>2. PICK n \in Nat : DOMAIN positions = 1 .. n
  BY <1>1
<1>3. \A s \in Stocks : ToolFits(tools[s])
  BY ToolsFit
<1> HIDE DEF tools
<1>4. ASSUME NEW i \in DOMAIN positions
      PROVE  /\ Amount(positions[i].quantity)
             /\ tools[positions[i].symbol].price # Missing => Amount(tools[positions[i].symbol].price.price)
             /\ ScoreOf(tools[positions[i].symbol].ranking) \in Fractions \cup {Missing}
  <2>1. /\ positions[i].symbol \in Stocks /\ positions[i].quantity \in Fractions
        /\ Less(Zero, positions[i].quantity)
    <3> DEFINE Q == {q \in Fractions : Less(Zero, q)}
    <3>1. positions[i].symbol \in Stocks /\ positions[i].quantity \in Q
      <4> DEFINE P == [symbol : Stocks, quantity : Q]
      <4>1. positions \in Seq(P)
        BY <1>1
      <4> HIDE DEF P
      <4>2. positions[i] \in P
        BY <4>1
      <4> HIDE DEF Q
      <4>3. QED  BY <4>2 DEF P
    <3>2. QED  BY <3>1
  <2>2. Amount(positions[i].quantity)
    BY <2>1, AboveZero
  <2>3. ToolFits(tools[positions[i].symbol])
    BY <1>3, <2>1
  <2>4. QED  BY <2>2, <2>3 DEF ToolFits, RankingFits, ScoreOf
<1>5. RowsFit(tools, positions)
  BY <1>4 DEF RowsFit
<1>6. QED  BY <1>2, <1>5 DEF tools

\* What the portfolio and analysis agents report is backed by what the tools said.  The
\* guardrails of analyze_portfolio agree: a position beyond the limit of a sector is seen
\* in its sector although the weights are rounded, the average score lies between the
\* scores it is made of and a figure that leaves a position out says so.  An analysis
\* follows its ranking: the factor that leads has no smaller share than the weakest, and
\* _confidence never rises when the quality or the evidence is taken away.
THEOREM ReportsAreBacked == ReportsSpec => []ReportsAreSound
<1>1. \A db \in Described, positions \in Portfolios, other \in Others :
        ReportsHold(ToolsFrom(db), other, positions)
  <2> SUFFICES ASSUME NEW db \in Described, NEW positions \in Portfolios, NEW other \in Others
               PROVE  ReportsHold(ToolsFrom(db), other, positions)
    OBVIOUS
  <2>1. /\ WeightUnit \in Nat /\ WeightUnit >= 5 /\ Missing \notin Fractions
        /\ "evidence" \in DOMAIN other /\ other.evidence \in Nat
    BY ReportsAssumption, IndicatorsAssumption DEF ReportsAssumption, IndicatorsAssumption
  <2>2. /\ \E n \in Nat : DOMAIN positions = 1 .. n
        /\ RowsFit(ToolsFrom(db), positions)
    BY PagesAssumption, IndicatorsAssumption, ReportsAssumption, PositionsFit
  <2>3. \A s \in Stocks : ToolFits(ToolsFrom(db)[s])
    BY PagesAssumption, IndicatorsAssumption, ReportsAssumption, ToolsFit
  <2> DEFINE tools == ToolsFrom(db)
  <2>4. DOMAIN tools = Stocks
    BY DEF ToolsFrom
  <2> HIDE DEF tools
  <2>5. PortfolioIsSound(tools, positions)
    BY <2>1, <2>2, PortfolioHolds DEF tools
  <2>6. \A s \in DOMAIN tools : AnalysisIsSound(tools[s], other)
    BY <2>1, <2>3, <2>4, AnalysisHolds DEF tools
  <2>7. QED  BY <2>5, <2>6 DEF ReportsHold, tools
<1>2. ReportsInit => ReportsAreSound
  BY <1>1 DEF ReportsInit, ReportsAreSound, Asked
<1>3. ReportsAreSound /\ [UNCHANGED question]_question => ReportsAreSound'
  BY DEF ReportsAreSound, Asked
<1>4. QED  BY <1>2, <1>3, PTL DEF ReportsSpec, Stays

=============================================================================
