---------------------------- MODULE BacktestProofs ----------------------------
(***************************************************************************)
(* The backtest, the engine and what it is handed, for every constant.     *)
(*                                                                         *)
(* The engine (Backtest): the open legs are the holdings (a sale never     *)
(* exceeds the holding, because targets are never negative, so an emptied  *)
(* leg is an emptied holding), the money adds up and a rebalance borrows   *)
(* only its costs and the drift it left alone.                             *)
(*                                                                         *)
(* The scores (StrategyScores, StrategyFeatures, StrategyAdvice): ranks    *)
(* are fair, overall scores are backed by their groups, and nothing is     *)
(* filled in.  The strategy backtest (StrategyBacktest): nothing of a day  *)
(* to come reaches a decision, and the metrics agree with each other.      *)
(* The indicators (Indicators): none looks ahead, they stay in their       *)
(* ranges, and the model is tested on days after those it learnt from.     *)
(* The evidence (Evidence): cutting loses no character, the answer is the  *)
(* best there is, and a confidence is a positive share as it is.           *)
(*                                                                         *)
(* Sums, ranks and totals are folds, defined by recursion on sets; what    *)
(* they compute is shown by growing a set one element at a time.  Fractions *)
(* are in lowest terms, so that equal values are equal fractions: that is  *)
(* Euclid's algorithm, by recursion on its arguments.                      *)
(***************************************************************************)
EXTENDS Backtest, StrategyAdvice, StrategyBacktest, Indicators, Evidence,
        FiniteSetTheorems, SequenceTheorems, WellFoundedInduction, TLAPS

-----------------------------------------------------------------------------
(* Recursion over finite sets *)

\* What holds of 0, and of n + 1 when it holds of n, holds of every natural number.
LEMMA CountingUp ==
  ASSUME NEW G, 0 \in G, \A n \in Nat : n \in G => n + 1 \in G
  PROVE  Nat \subseteq G
<1> DEFINE R == OpToRel(<, Nat)
           B == {n \in Nat : n \notin G}
<1>1. IsWellFoundedOn(R, Nat)
  BY NatLessThanWellFounded
<1>2. \A a, b \in Nat : a < b => <<a, b>> \in R
  BY DEF OpToRel
<1> HIDE DEF R
<1> SUFFICES ASSUME B # {} PROVE FALSE
  OBVIOUS
<1>3. B \subseteq Nat
  OBVIOUS
<1>4. \E n \in B : \A m \in B : ~(<<m, n>> \in R)
  <2> HIDE DEF B
  <2>1. QED  BY <1>1, <1>3, WFMin
<1>5. PICK n \in B : \A m \in B : ~(<<m, n>> \in R)
  BY <1>4
<1>6. n # 0 /\ n \in Nat
  OBVIOUS
<1>7. n - 1 \in Nat /\ n - 1 < n /\ (n - 1) + 1 = n
  BY <1>6
<1>8. n - 1 \notin B
  BY <1>2, <1>5, <1>6, <1>7
<1>9. QED  BY <1>7, <1>8

\* What holds of the empty set, and of a set when it holds of it without any one of its
\* elements, holds of every subset of a finite set.
LEMMA Growing ==
  ASSUME NEW D, IsFiniteSet(D), NEW G, {} \in G,
         \A s \in SUBSET D : s # {} /\ (\A x \in s : s \ {x} \in G) => s \in G
  PROVE  SUBSET D \subseteq G
<1> DEFINE B == {s \in SUBSET D : s \notin G}
<1> SUFFICES ASSUME B # {} PROVE FALSE
  OBVIOUS
<1>1. IsWellFoundedOn(StrictSubsetOrdering(D), FiniteSubsetsOf(D))
  BY FS_StrictSubsetOrderingWellFounded
<1>2. B \subseteq FiniteSubsetsOf(D)
  BY FS_Subset DEF FiniteSubsetsOf
<1>3. \E s \in B : \A t \in B : ~(<<t, s>> \in StrictSubsetOrdering(D))
  <2> HIDE DEF B
  <2>1. QED  BY <1>1, <1>2, WFMin
<1>4. PICK s \in B : \A t \in B : ~(<<t, s>> \in StrictSubsetOrdering(D))
  BY <1>3
<1>5. s \in SUBSET D /\ s # {} /\ s \notin G
  OBVIOUS
<1>6. ASSUME NEW x \in s PROVE s \ {x} \in G
  <2>1. <<s \ {x}, s>> \in StrictSubsetOrdering(D)
    BY <1>5 DEF StrictSubsetOrdering
  <2>2. QED  BY <1>4, <1>5, <2>1
<1>7. QED  BY <1>5, <1>6

Pick(s) == CHOOSE x \in s : TRUE

\* h is defined by recursion on the subsets of D.
Recursion(h, g, base, D, V) ==
  /\ h \in [SUBSET D -> V] /\ h[{}] = base
  /\ \A s \in SUBSET D : s # {} => h[s] = g[<<Pick(s), h[s \ {Pick(s)}]>>]

\* h folds g over every subset of D, whatever element is taken first.
Folds(h, g, base, D, V) ==
  /\ h \in [SUBSET D -> V] /\ h[{}] = base
  /\ \A s \in SUBSET D : \A x \in s : h[s] = g[<<x, h[s \ {x}]>>]

\* A recursion on finite sets has a solution: it is extended from sets of n elements.
LEMMA FoldExists ==
  ASSUME NEW D, IsFiniteSet(D), NEW V, NEW base \in V, NEW g \in [D \X V -> V]
  PROVE  \E h : Recursion(h, g, base, D, V)
<1> DEFINE Upto(h, n) ==
             /\ h \in [SUBSET D -> V] /\ h[{}] = base
             /\ \A s \in SUBSET D : s # {} /\ Cardinality(s) <= n =>
                  h[s] = g[<<Pick(s), h[s \ {Pick(s)}]>>]
           G == {n \in Nat : \E h : Upto(h, n)}
<1>1. \A s \in SUBSET D : s # {} => Pick(s) \in s
  BY DEF Pick
<1>2. \A s \in SUBSET D : IsFiniteSet(s) /\ Cardinality(s) \in Nat
  BY FS_Subset, FS_CardinalityType
<1>3. \A s \in SUBSET D : s # {} => Cardinality(s \ {Pick(s)}) = Cardinality(s) - 1
  BY <1>1, <1>2, FS_RemoveElement
<1>4. \A s \in SUBSET D : s # {} => Cardinality(s) > 0
  BY <1>2, FS_EmptySet
<1>5. 0 \in G
  <2> DEFINE z == [s \in SUBSET D |-> base]
  <2>1. Upto(z, 0)
    BY <1>2, <1>4
  <2>2. QED  BY <2>1, ZenonT(40)
<1>6. ASSUME NEW n \in Nat, n \in G PROVE n + 1 \in G
  <2>1. PICK h : Upto(h, n)
    BY <1>6
  <2> DEFINE k == [s \in SUBSET D |-> IF Cardinality(s) <= n THEN h[s]
                                      ELSE g[<<Pick(s), h[s \ {Pick(s)}]>>]]
  <2>2. k \in [SUBSET D -> V]
    <3>1. \A s \in SUBSET D : ~(Cardinality(s) <= n) => s # {}
      BY FS_EmptySet
    <3>2. \A s \in SUBSET D : s # {} => <<Pick(s), h[s \ {Pick(s)}]>> \in D \X V
      BY <1>1, <2>1
    <3>3. QED  BY <2>1, <3>1, <3>2
  <2>3. k[{}] = base
    BY <2>1, FS_EmptySet
  <2>4. ASSUME NEW s \in SUBSET D, s # {}, Cardinality(s) <= n + 1
        PROVE  k[s] = g[<<Pick(s), k[s \ {Pick(s)}]>>]
    <3>1. Cardinality(s \ {Pick(s)}) <= n /\ s \ {Pick(s)} \in SUBSET D
      BY <1>2, <1>3, <2>4
    <3>2. k[s \ {Pick(s)}] = h[s \ {Pick(s)}]
      BY <3>1
    <3>3. k[s] = g[<<Pick(s), h[s \ {Pick(s)}]>>]
      BY <2>1, <2>4
    <3>4. QED  BY <3>2, <3>3
  <2> HIDE DEF k
  <2>5. Upto(k, n + 1)
    BY <2>2, <2>3, <2>4
  <2>6. n + 1 \in Nat
    OBVIOUS
  <2>7. QED  BY <2>5, <2>6
<1> HIDE DEF G
<1>7. Nat \subseteq G
  BY <1>5, <1>6, CountingUp
<1>8. Cardinality(D) \in G
  BY <1>2, <1>7
<1>9. PICK h : Upto(h, Cardinality(D))
  BY <1>8 DEF G
<1>10. \A s \in SUBSET D : Cardinality(s) <= Cardinality(D)
  BY FS_Subset
<1>11. QED  BY <1>9, <1>10 DEF Recursion

\* When the order does not matter, the solution is a fold whatever element is taken first.
LEMMA FoldSplits ==
  ASSUME NEW D, IsFiniteSet(D), NEW V, NEW base \in V, NEW g \in [D \X V -> V],
         \A x, y \in D : \A v \in V : g[<<x, g[<<y, v>>]>>] = g[<<y, g[<<x, v>>]>>],
         NEW h, Recursion(h, g, base, D, V)
  PROVE  Folds(h, g, base, D, V)
<1> DEFINE G == {s \in SUBSET D : \A x \in s : h[s] = g[<<x, h[s \ {x}]>>]}
<1>1. {} \in G
  OBVIOUS
<1>2. ASSUME NEW s \in SUBSET D, s # {}, \A x \in s : s \ {x} \in G PROVE s \in G
  <2> SUFFICES ASSUME NEW x \in s PROVE h[s] = g[<<x, h[s \ {x}]>>]
    OBVIOUS
  <2> DEFINE z == Pick(s)
  <2>1. z \in s /\ h[s] = g[<<z, h[s \ {z}]>>]
    BY <1>2 DEF Pick, Recursion
  <2> HIDE DEF z
  <2>2. CASE x = z
    BY <2>1, <2>2
  <2>3. CASE x # z
    <3> DEFINE r == (s \ {x}) \ {z}
    <3>1. r = (s \ {z}) \ {x} /\ r \in SUBSET D
      OBVIOUS
    <3>2. h[s \ {z}] = g[<<x, h[(s \ {z}) \ {x}]>>]
      BY <1>2, <2>1, <2>3
    <3>3. h[s \ {x}] = g[<<z, h[(s \ {x}) \ {z}]>>]
      BY <1>2, <2>1, <2>3
    <3> HIDE DEF r
    <3>4. h[r] \in V /\ x \in D /\ z \in D
      BY <2>1, <3>1 DEF Recursion
    <3>5. g[<<x, g[<<z, h[r]>>]>>] = g[<<z, g[<<x, h[r]>>]>>]
      BY <3>4
    <3>6. h[s \ {z}] = g[<<x, h[r]>>] /\ h[s \ {x}] = g[<<z, h[r]>>]
      BY <3>1, <3>2, <3>3 DEF r
    <3>7. QED  BY <2>1, <3>5, <3>6
  <2>4. QED  BY <2>2, <2>3
<1> HIDE DEF G
<1>3. SUBSET D \subseteq G
  BY <1>1, <1>2, Growing
<1>4. QED  BY <1>3 DEF G, Folds, Recursion

-----------------------------------------------------------------------------
(* Sums over finite sets *)

\* h sums f over every subset of D, whatever element is taken first.
Adds(f, D, h) ==
  /\ h \in [SUBSET D -> Int] /\ h[{}] = 0
  /\ \A s \in SUBSET D : \A x \in s : h[s] = f[x] + h[s \ {x}]

LEMMA SumExists ==
  ASSUME NEW D, IsFiniteSet(D), NEW f \in [D -> Int]
  PROVE  \E h : Adds(f, D, h)
<1> DEFINE g == [p \in D \X Int |-> f[p[1]] + p[2]]
<1>1. g \in [D \X Int -> Int] /\ 0 \in Int
  OBVIOUS
<1>2. \A x \in D, v \in Int : g[<<x, v>>] = f[x] + v
  OBVIOUS
<1> HIDE DEF g
<1>3. \A x, y \in D : \A v \in Int : g[<<x, g[<<y, v>>]>>] = g[<<y, g[<<x, v>>]>>]
  <2> SUFFICES ASSUME NEW x \in D, NEW y \in D, NEW v \in Int
               PROVE  g[<<x, g[<<y, v>>]>>] = g[<<y, g[<<x, v>>]>>]
    OBVIOUS
  <2>1. f[x] \in Int /\ f[y] \in Int
    OBVIOUS
  <2>2. f[x] + v \in Int /\ f[y] + v \in Int /\ f[x] + (f[y] + v) = f[y] + (f[x] + v)
    BY <2>1
  <2>3. QED  BY <1>2, <2>2
<1>4. PICK h : Recursion(h, g, 0, D, Int)
  BY <1>1, FoldExists
<1>5. Folds(h, g, 0, D, Int)
  BY <1>1, <1>3, <1>4, FoldSplits
<1>6. ASSUME NEW s \in SUBSET D, NEW x \in s PROVE h[s] = f[x] + h[s \ {x}]
  <2>1. h[s] = g[<<x, h[s \ {x}]>>] /\ h[s \ {x}] \in Int /\ x \in D
    BY <1>5 DEF Folds
  <2>2. QED  BY <1>2, <2>1
<1>7. QED  BY <1>5, <1>6 DEF Adds, Folds

\* SumFunction over a part is what such a function says of it.
LEMMA SumOfPart ==
  ASSUME NEW D, IsFiniteSet(D), NEW f \in [D -> Int], NEW h, Adds(f, D, h), NEW t \in SUBSET D
  PROVE  SumFunction(Restrict(f, t)) = h[t]
<1> DEFINE e == [x \in t |-> f[x]]
           P(k) == k = [s \in SUBSET t |-> IF s = {} THEN 0
                                 ELSE e[CHOOSE x \in s : TRUE] + k[s \ {CHOOSE x \in s : TRUE}]]
           it == CHOOSE k : P(k)
           k == [s \in SUBSET t |-> h[s]]
<1>1. SumFunction(e) = it[t]
  BY DEF SumFunction, SumFunctionOnSet, FoldFunctionOnSet, MapThenFoldSet
<1>2. ASSUME NEW s \in SUBSET t, s # {}
      PROVE  k[s] = e[CHOOSE x \in s : TRUE] + k[s \ {CHOOSE x \in s : TRUE}]
  <2> DEFINE z == CHOOSE x \in s : TRUE
  <2>1. z \in s
    BY <1>2
  <2> HIDE DEF z
  <2>2. h[s] = f[z] + h[s \ {z}]
    BY <2>1 DEF Adds
  <2>3. k[s] = e[z] + k[s \ {z}]
    BY <2>1, <2>2
  <2>4. QED  BY <2>3 DEF z
<1>3. k[{}] = 0
  BY DEF Adds
<1> HIDE DEF e
<1>4. P(k)
  <2>1. k = [s \in SUBSET t |-> k[s]]
    OBVIOUS
  <2> HIDE DEF k
  <2>2. QED  BY <1>2, <1>3, <2>1, ZenonT(40)
<1> HIDE DEF k
<1>5. P(it)
  BY <1>4
<1> HIDE DEF it
<1>6. \A s \in SUBSET t : it[s] = k[s]
  <2> DEFINE G == {s \in SUBSET t : it[s] = k[s]}
  <2>1. IsFiniteSet(t)
    BY FS_Subset
  <2>2. {} \in G
    BY <1>3, <1>5
  <2>3. ASSUME NEW s \in SUBSET t, s # {}, \A x \in s : s \ {x} \in G PROVE s \in G
    <3> DEFINE z == CHOOSE x \in s : TRUE
    <3>1. it[s] = e[z] + it[s \ {z}] /\ k[s] = e[z] + k[s \ {z}]
      BY <1>2, <1>5, <2>3
    <3>2. z \in s
      BY <2>3
    <3> HIDE DEF z
    <3>3. QED  BY <2>3, <3>1, <3>2
  <2> HIDE DEF G
  <2>4. SUBSET t \subseteq G
    BY <2>1, <2>2, <2>3, Growing
  <2>5. QED  BY <2>4 DEF G
<1>7. it[t] = k[t] /\ k[t] = h[t]
  BY <1>6 DEF k
<1>8. QED  BY <1>1, <1>7 DEF e, Restrict

\* The sum over nothing is 0; any element splits off a sum.
LEMMA SumSplits ==
  ASSUME NEW D, IsFiniteSet(D), NEW f \in [D -> Int]
  PROVE  /\ SumFunction(f) \in Int
         /\ D = {} => SumFunction(f) = 0
         /\ \A x \in D : /\ Restrict(f, D \ {x}) \in [D \ {x} -> Int]
                         /\ SumFunction(Restrict(f, D \ {x})) \in Int
                         /\ SumFunction(f) = f[x] + SumFunction(Restrict(f, D \ {x}))
<1>1. PICK h : Adds(f, D, h)
  BY SumExists
<1>2. f = Restrict(f, D)
  BY DEF Restrict
<1>3. SumFunction(f) = h[D]
  <2>1. D \in SUBSET D
    OBVIOUS
  <2>2. SumFunction(Restrict(f, D)) = h[D]
    BY <1>1, <2>1, SumOfPart
  <2>3. QED  BY <1>2, <2>2
<1>4. ASSUME NEW x \in D
      PROVE  SumFunction(Restrict(f, D \ {x})) = h[D \ {x}] /\ Restrict(f, D \ {x}) \in [D \ {x} -> Int]
  <2>1. D \ {x} \in SUBSET D
    OBVIOUS
  <2>2. SumFunction(Restrict(f, D \ {x})) = h[D \ {x}]
    BY <1>1, <2>1, SumOfPart
  <2>3. QED  BY <2>2 DEF Restrict
<1>5. h \in [SUBSET D -> Int] /\ h[{}] = 0 /\ \A x \in D : h[D] = f[x] + h[D \ {x}]
  BY <1>1 DEF Adds
<1>6. h[D] \in Int /\ \A x \in D : h[D \ {x}] \in Int
  BY <1>5
<1>7. QED  BY <1>3, <1>4, <1>5, <1>6

\* Every function to the integers on a finite set has its sums, and SumFunction is the whole.
LEMMA SumHas ==
  ASSUME NEW D, IsFiniteSet(D), NEW f \in [D -> Int]
  PROVE  \E h : Adds(f, D, h) /\ h[D] = SumFunction(f)
<1>1. PICK h : Adds(f, D, h)
  BY SumExists
<1>2. f = Restrict(f, D) /\ D \in SUBSET D
  BY DEF Restrict
<1>3. SumFunction(Restrict(f, D)) = h[D]
  BY <1>1, <1>2, SumOfPart
<1>4. QED  BY <1>1, <1>2, <1>3

\* Sums add up element by element.
LEMMA SumPlus ==
  ASSUME NEW D, IsFiniteSet(D), NEW f \in [D -> Int], NEW g \in [D -> Int], NEW e \in [D -> Int],
         \A x \in D : e[x] = f[x] + g[x]
  PROVE  SumFunction(e) = SumFunction(f) + SumFunction(g)
<1>1. PICK hf : Adds(f, D, hf) /\ hf[D] = SumFunction(f)
  BY SumHas
<1>2. PICK hg : Adds(g, D, hg) /\ hg[D] = SumFunction(g)
  BY SumHas
<1>3. PICK he : Adds(e, D, he) /\ he[D] = SumFunction(e)
  BY SumHas
<1> DEFINE G == {s \in SUBSET D : he[s] = hf[s] + hg[s]}
<1>4. {} \in G
  BY <1>1, <1>2, <1>3 DEF Adds
<1>5. ASSUME NEW s \in SUBSET D, s # {}, \A x \in s : s \ {x} \in G PROVE s \in G
  <2>1. PICK z \in s : TRUE
    BY <1>5
  <2> DEFINE r == s \ {z}
  <2>2. he[r] = hf[r] + hg[r]
    BY <1>5
  <2>3. he[s] = e[z] + he[r] /\ hf[s] = f[z] + hf[r] /\ hg[s] = g[z] + hg[r]
    BY <1>1, <1>2, <1>3, <2>1 DEF Adds
  <2>4. f[z] \in Int /\ g[z] \in Int /\ hf[r] \in Int /\ hg[r] \in Int /\ e[z] = f[z] + g[z]
    BY <1>1, <1>2, <2>1 DEF Adds
  <2> HIDE DEF r
  <2>5. he[s] = hf[s] + hg[s]
    BY <2>2, <2>3, <2>4
  <2>6. QED  BY <2>5
<1> HIDE DEF G
<1>6. SUBSET D \subseteq G
  BY <1>4, <1>5, Growing
<1>7. D \in G
  BY <1>6
<1>8. QED  BY <1>1, <1>2, <1>3, <1>7 DEF G

\* The same value for some, nothing for the others.
Marks(f, D, A, k) ==
  /\ f \in [D -> Int] /\ A \subseteq D /\ k \in Int
  /\ \A x \in D : f[x] = IF x \in A THEN k ELSE 0

\* Their sum counts the marked ones.
LEMMA SumCount ==
  ASSUME NEW D, IsFiniteSet(D), NEW A, NEW k, NEW f, Marks(f, D, A, k)
  PROVE  SumFunction(f) = k * Cardinality(A)
<1>0. /\ f \in [D -> Int] /\ A \in SUBSET D /\ k \in Int
      /\ \A x \in D : f[x] = IF x \in A THEN k ELSE 0
  BY DEF Marks
<1>1. PICK h : Adds(f, D, h) /\ h[D] = SumFunction(f)
  BY <1>0, SumHas
<1> DEFINE G == {s \in SUBSET D : h[s] = k * Cardinality(s \cap A)}
<1>2. {} \in G
  <2>1. {} \cap A = {} /\ Cardinality({}) = 0 /\ k * 0 = 0
    BY <1>0, FS_EmptySet
  <2>2. h[{}] = 0
    BY <1>1 DEF Adds
  <2>3. QED  BY <2>1, <2>2
<1>3. ASSUME NEW s \in SUBSET D, s # {}, \A x \in s : s \ {x} \in G PROVE s \in G
  <2>1. PICK z \in s : TRUE
    BY <1>3
  <2> DEFINE r == s \ {z}  a == s \cap A  b == r \cap A
  <2>2. h[r] = k * Cardinality(b)
    BY <1>3
  <2>3. h[s] = f[z] + h[r]
    BY <1>1, <2>1 DEF Adds
  <2>4. IsFiniteSet(a) /\ IsFiniteSet(b) /\ Cardinality(a) \in Nat /\ Cardinality(b) \in Nat
    BY <1>0, FS_Subset, FS_CardinalityType
  <2>5. CASE z \in A
    <3>1. b = a \ {z} /\ z \in a
      BY <2>1, <2>5
    <3> HIDE DEF a, b
    <3>2. Cardinality(a) = Cardinality(b) + 1
      BY <2>4, <3>1, FS_RemoveElement
    <3>3. k * (Cardinality(b) + 1) = k + k * Cardinality(b)
      BY <1>0, <2>4
    <3>4. h[s] = k * Cardinality(a)
      BY <1>0, <2>1, <2>2, <2>3, <2>4, <2>5, <3>2, <3>3
    <3>5. QED  BY <3>4 DEF a
  <2>6. CASE z \notin A
    <3>1. b = a
      BY <2>1, <2>6
    <3> HIDE DEF a, b
    <3>2. k * Cardinality(b) \in Int /\ f[z] = 0
      BY <1>0, <2>1, <2>4, <2>6
    <3>3. h[s] = k * Cardinality(a)
      BY <2>2, <2>3, <3>1, <3>2
    <3>4. QED  BY <3>3 DEF a
  <2>7. QED  BY <2>5, <2>6
<1> HIDE DEF G
<1>4. SUBSET D \subseteq G
  BY <1>2, <1>3, Growing
<1>5. D \in G /\ D \cap A = A
  BY <1>0, <1>4
<1>6. QED  BY <1>1, <1>5 DEF G

\* Larger terms, larger sum.
LEMMA SumAtMost ==
  ASSUME NEW D, IsFiniteSet(D), NEW f \in [D -> Int], NEW g \in [D -> Int],
         \A x \in D : f[x] <= g[x]
  PROVE  SumFunction(f) <= SumFunction(g)
<1>1. PICK hf : Adds(f, D, hf) /\ hf[D] = SumFunction(f)
  BY SumHas
<1>2. PICK hg : Adds(g, D, hg) /\ hg[D] = SumFunction(g)
  BY SumHas
<1> DEFINE G == {s \in SUBSET D : hf[s] <= hg[s]}
<1>3. {} \in G
  BY <1>1, <1>2 DEF Adds
<1>4. ASSUME NEW s \in SUBSET D, s # {}, \A x \in s : s \ {x} \in G PROVE s \in G
  <2>1. PICK z \in s : TRUE
    BY <1>4
  <2> DEFINE r == s \ {z}
  <2>2. hf[r] <= hg[r]
    BY <1>4
  <2>3. hf[s] = f[z] + hf[r] /\ hg[s] = g[z] + hg[r]
    BY <1>1, <1>2, <2>1 DEF Adds
  <2>4. f[z] \in Int /\ g[z] \in Int /\ hf[r] \in Int /\ hg[r] \in Int /\ f[z] <= g[z]
    BY <1>1, <1>2, <2>1 DEF Adds
  <2> HIDE DEF r
  <2>5. hf[s] <= hg[s]
    BY <2>2, <2>3, <2>4
  <2>6. QED  BY <2>5
<1> HIDE DEF G
<1>5. SUBSET D \subseteq G
  BY <1>3, <1>4, Growing
<1>6. D \in G
  BY <1>5
<1>7. QED  BY <1>1, <1>2, <1>6 DEF G

\* A sum of positive numbers, of one at least, is positive.
LEMMA SumPositive ==
  ASSUME NEW D, IsFiniteSet(D), D # {}, NEW f \in [D -> Int], \A x \in D : f[x] > 0
  PROVE  SumFunction(f) > 0
<1>1. PICK h : Adds(f, D, h) /\ h[D] = SumFunction(f)
  BY SumHas
<1> DEFINE G == {s \in SUBSET D : h[s] >= 0 /\ (s # {} => h[s] > 0)}
<1>2. {} \in G
  BY <1>1 DEF Adds
<1>3. ASSUME NEW s \in SUBSET D, s # {}, \A x \in s : s \ {x} \in G PROVE s \in G
  <2>1. PICK z \in s : TRUE
    BY <1>3
  <2> DEFINE r == s \ {z}
  <2>2. h[r] >= 0
    BY <1>3
  <2>3. h[s] = f[z] + h[r] /\ f[z] \in Int /\ f[z] > 0 /\ h[r] \in Int
    BY <1>1, <2>1 DEF Adds
  <2> HIDE DEF r
  <2>4. h[s] > 0 /\ h[s] >= 0
    BY <2>2, <2>3
  <2>5. QED  BY <2>4
<1> HIDE DEF G
<1>4. SUBSET D \subseteq G
  BY <1>2, <1>3, Growing
<1>5. D \in G
  BY <1>4
<1>6. QED  BY <1>1, <1>5 DEF G

\* Some element of a finite set has the largest key, some the least.
LEMMA LargestKey ==
  ASSUME NEW D, IsFiniteSet(D), D # {}, NEW key \in [D -> Int]
  PROVE  \E x \in D : \A y \in D : key[y] <= key[x]
<1> DEFINE G == {s \in SUBSET D : s = {} \/ \E x \in s : \A y \in s : key[y] <= key[x]}
<1>1. {} \in G
  OBVIOUS
<1>2. ASSUME NEW s \in SUBSET D, s # {}, \A x \in s : s \ {x} \in G PROVE s \in G
  <2>1. PICK x \in s : TRUE
    BY <1>2
  <2>2. CASE s \ {x} = {}
    <3>1. \A y \in s : y = x
      BY <2>2
    <3>2. QED  BY <2>1, <3>1
  <2>3. CASE s \ {x} # {}
    <3>1. PICK z \in s \ {x} : \A y \in s \ {x} : key[y] <= key[z]
      BY <1>2, <2>3
    <3>2. \A y \in s : key[y] \in Int
      OBVIOUS
    <3>3. CASE key[x] <= key[z]
      BY <3>1, <3>3
    <3>4. CASE ~(key[x] <= key[z])
      <4>1. \A y \in s : key[y] <= key[x]
        BY <3>1, <3>2, <3>4
      <4>2. QED  BY <4>1
    <3>5. QED  BY <3>3, <3>4
  <2>4. QED  BY <2>2, <2>3
<1> HIDE DEF G
<1>3. SUBSET D \subseteq G
  BY <1>1, <1>2, Growing
<1>4. D \in G
  BY <1>3
<1>5. QED  BY <1>4 DEF G

LEMMA LeastKey ==
  ASSUME NEW D, IsFiniteSet(D), D # {}, NEW key \in [D -> Int]
  PROVE  \E x \in D : \A y \in D : key[x] <= key[y]
<1> DEFINE k == [x \in D |-> -key[x]]
<1>1. k \in [D -> Int] /\ \A x \in D : k[x] = -key[x]
  OBVIOUS
<1> HIDE DEF k
<1>2. PICK x \in D : \A y \in D : k[y] <= k[x]
  BY <1>1, LargestKey
<1>3. \A y \in D : key[y] \in Int /\ -key[y] <= -key[x]
  BY <1>1, <1>2
<1>4. \A y \in D : key[x] <= key[y]
  BY <1>3
<1>5. QED  BY <1>4

LEMMA RankIsTaken ==
  ASSUME NEW D, IsFiniteSet(D), NEW key \in [D -> Int],
         \A x, y \in D : key[x] = key[y] => x = y
  PROVE  \A n \in 1 .. Cardinality(D) :
           \E x \in D : Cardinality({y \in D : key[y] < key[x]}) = n - 1
<1> DEFINE Below(s, x) == {y \in s : key[y] < key[x]}
           G == {s \in SUBSET D : \A n \in 1 .. Cardinality(s) :
                                     \E x \in s : Cardinality(Below(s, x)) = n - 1}
           H == {s \in SUBSET D : s = {} \/ \E x \in s : \A y \in s : key[y] <= key[x]}
<1>1. \A s \in SUBSET D : IsFiniteSet(s) /\ Cardinality(s) \in Nat
  BY FS_Subset, FS_CardinalityType
<1>2. SUBSET D \subseteq H
  <2>1. {} \in H
    OBVIOUS
  <2>2. ASSUME NEW s \in SUBSET D, s # {}, \A x \in s : s \ {x} \in H PROVE s \in H
    <3>1. PICK x \in s : TRUE
      BY <2>2
    <3>2. CASE s \ {x} = {}
      <4>1. \A y \in s : y = x
        BY <3>2
      <4>2. QED  BY <3>1, <4>1
    <3>3. CASE s \ {x} # {}
      <4>1. PICK z \in s \ {x} : \A y \in s \ {x} : key[y] <= key[z]
        BY <2>2, <3>3
      <4>2. \A y \in s : key[y] \in Int
        OBVIOUS
      <4>3. CASE key[x] <= key[z]
        BY <4>1, <4>3
      <4>4. CASE ~(key[x] <= key[z])
        <5>1. \A y \in s : key[y] <= key[x]
          BY <4>1, <4>2, <4>4
        <5>2. QED  BY <5>1
      <4>5. QED  BY <4>3, <4>4
    <3>4. QED  BY <3>2, <3>3
  <2> HIDE DEF H
  <2>3. QED  BY <2>1, <2>2, Growing
<1>3. {} \in G
  BY FS_EmptySet
<1>4. ASSUME NEW s \in SUBSET D, s # {}, \A x \in s : s \ {x} \in G PROVE s \in G
  <2>1. PICK m \in s : \A y \in s : key[y] <= key[m]
    BY <1>2, <1>4
  <2> DEFINE r == s \ {m}
  <2>2. Cardinality(r) = Cardinality(s) - 1 /\ Cardinality(s) \in Nat /\ Cardinality(r) \in Nat
    BY <1>1, FS_RemoveElement, FS_CardinalityType
  <2>3. r \in G
    BY <1>4
  <2>4. Below(s, m) = r
    BY <2>1
  <2>5. \A x \in r : Below(s, x) = Below(r, x)
    BY <2>1
  <2> HIDE DEF r
  <2>6. ASSUME NEW n \in 1 .. Cardinality(s)
        PROVE  \E x \in s : Cardinality(Below(s, x)) = n - 1
    <3>1. CASE n = Cardinality(s)
      BY <2>1, <2>2, <2>4, <3>1
    <3>2. CASE n # Cardinality(s)
      <4>1. n \in 1 .. Cardinality(r)
        BY <2>2, <3>2
      <4>2. PICK x \in r : Cardinality(Below(r, x)) = n - 1
        BY <2>3, <4>1
      <4>3. x \in s
        BY DEF r
      <4>4. QED  BY <2>5, <4>2, <4>3
    <3>3. QED  BY <3>1, <3>2
  <2>7. QED  BY <2>6
<1> HIDE DEF G
<1>5. SUBSET D \subseteq G
  BY <1>3, <1>4, Growing
<1>6. D \in G
  BY <1>5
<1>7. QED  BY <1>6 DEF G

\* A claim about the subsets of a finite set that fails for some fails for a smallest one.
LEMMA MinimalSet ==
  ASSUME NEW S, IsFiniteSet(S), NEW B, B \subseteq SUBSET S, B # {}
  PROVE  \E s \in B : \A t \in B : t \subseteq s => t = s
<1>1. IsWellFoundedOn(StrictSubsetOrdering(S), FiniteSubsetsOf(S))
  BY FS_StrictSubsetOrderingWellFounded
<1>2. B \subseteq FiniteSubsetsOf(S)
  BY FS_Subset DEF FiniteSubsetsOf
<1>3. PICK s \in B : \A t \in B : ~(<<t, s>> \in StrictSubsetOrdering(S))
  BY <1>1, <1>2, WFMin
<1>4. QED  BY <1>3 DEF StrictSubsetOrdering

\* All the sums of f, and that of the whole set.
Totals(f, D, h) == Adds(f, D, h) /\ h[D] = SumFunction(f)

LEMMA SumTotals ==
  ASSUME NEW D, IsFiniteSet(D), NEW f \in [D -> Int]
  PROVE  \E h : Totals(f, D, h)
<1>1. PICK h : Adds(f, D, h) /\ h[D] = SumFunction(f)
  BY SumHas
<1>2. QED  BY <1>1 DEF Totals

\* What is zero can be left out of a sum.
LEMMA SumOfRest ==
  ASSUME NEW D, IsFiniteSet(D), NEW E \in SUBSET D, NEW f \in [D -> Int], NEW g \in [E -> Int],
         \A x \in E : g[x] = f[x], \A x \in D : x \notin E => f[x] = 0
  PROVE  SumFunction(f) = SumFunction(g)
<1>1. PICK hf : Totals(f, D, hf)
  BY SumTotals
<1>2. IsFiniteSet(E)
  BY FS_Subset
<1>3. PICK hg : Totals(g, E, hg)
  BY <1>2, SumTotals
<1> DEFINE Bad == {s \in SUBSET D : hf[s] # hg[s \cap E]}
<1>4. Bad = {}
  <2> SUFFICES ASSUME Bad # {} PROVE FALSE
    OBVIOUS
  <2>1. PICK t \in Bad : \A u \in Bad : u \subseteq t => u = t
    <3>1. Bad \subseteq SUBSET D
      OBVIOUS
    <3> HIDE DEF Bad
    <3>2. QED  BY <3>1, MinimalSet
  <2>2. t # {}
    <3>4. {} \cap E = {}
      OBVIOUS
    <3>1. hf[{}] = 0 /\ hg[{} \cap E] = 0
      BY <1>1, <1>3, <3>4 DEF Totals, Adds
    <3>2. {} \notin Bad
      BY <3>1
    <3>3. QED  BY <3>2
  <2>3. PICK z \in t : TRUE
    BY <2>2
  <2>4. t \ {z} \notin Bad
    BY <2>1
  <2>5. hf[t \ {z}] = hg[(t \ {z}) \cap E]
    BY <2>4
  <2>6. hf[t] = f[z] + hf[t \ {z}]
    BY <1>1 DEF Totals, Adds
  <2>7. f[z] \in Int /\ hf[t \ {z}] \in Int
    BY <1>1 DEF Totals, Adds
  <2>8. CASE z \in E
    <3>1. hg[t \cap E] = g[z] + hg[(t \cap E) \ {z}]
      BY <1>2, <1>3, <2>8 DEF Totals, Adds
    <3>2. (t \cap E) \ {z} = (t \ {z}) \cap E
      OBVIOUS
    <3>3. QED  BY <2>5, <2>6, <2>8, <3>1, <3>2
  <2>9. CASE z \notin E
    <3>1. t \cap E = (t \ {z}) \cap E
      BY <2>9
    <3>2. f[z] = 0
      BY <2>9
    <3>5. hf[t] = hf[t \ {z}]
      BY <2>6, <2>7, <3>2
    <3>3. hf[t] = hg[t \cap E]
      BY <2>5, <3>1, <3>5
    <3>4. QED  BY <3>3
  <2>10. QED  BY <2>8, <2>9
<1>5. hf[D] = hg[D \cap E] /\ D \cap E = E
  BY <1>4
<1>6. QED  BY <1>1, <1>3, <1>5 DEF Totals, Adds

\* What exceeds another term by at most b sums up to at most b more for each of them.
LEMMA SumBound ==
  ASSUME NEW D, IsFiniteSet(D), NEW f \in [D -> Int], NEW g \in [D -> Int],
         NEW b \in Int, \A x \in D : f[x] <= g[x] + b
  PROVE  SumFunction(f) <= SumFunction(g) + Cardinality(D) * b
<1>1. PICK hf : Totals(f, D, hf)
  BY SumTotals
<1>2. PICK hg : Totals(g, D, hg)
  BY SumTotals
<1> DEFINE Bad == {s \in SUBSET D : ~(hf[s] <= hg[s] + Cardinality(s) * b)}
<1>4. Bad = {}
  <2> SUFFICES ASSUME Bad # {} PROVE FALSE
    OBVIOUS
  <2>1. PICK t \in Bad : \A u \in Bad : u \subseteq t => u = t
    <3>1. Bad \subseteq SUBSET D
      OBVIOUS
    <3> HIDE DEF Bad
    <3>2. QED  BY <3>1, MinimalSet
  <2>2. t # {}
    <3>1. hf[{}] = 0 /\ hg[{}] = 0 /\ Cardinality({}) = 0
      BY <1>1, <1>2, FS_EmptySet DEF Totals, Adds
    <3>2. {} \notin Bad
      BY <3>1
    <3>3. QED  BY <3>2
  <2>3. PICK z \in t : TRUE
    BY <2>2
  <2> DEFINE r == t \ {z}
  <2>4. r \notin Bad
    BY <2>1
  <2>5. hf[r] <= hg[r] + Cardinality(r) * b
    BY <2>4
  <2>6. hf[t] = f[z] + hf[r] /\ hg[t] = g[z] + hg[r]
    <3>1. t \in SUBSET D
      OBVIOUS
    <3> HIDE DEF Bad
    <3>2. hf[t] = f[z] + hf[t \ {z}]
      BY <1>1, <3>1 DEF Totals, Adds
    <3>3. hg[t] = g[z] + hg[t \ {z}]
      BY <1>2, <3>1 DEF Totals, Adds
    <3>4. QED  BY <3>2, <3>3
  <2>7. f[z] \in Int /\ g[z] \in Int /\ hf[r] \in Int /\ hg[r] \in Int
    BY <1>1, <1>2 DEF Totals, Adds
  <2>8. f[z] <= g[z] + b /\ ~(hf[t] <= hg[t] + Cardinality(t) * b)
    OBVIOUS
  <2>9. Cardinality(t) \in Nat /\ Cardinality(r) = Cardinality(t) - 1
    <3>1. IsFiniteSet(t)
      BY FS_Subset
    <3>2. QED  BY <2>3, <3>1, FS_CardinalityType, FS_RemoveElement
  <2>10. (Cardinality(t) - 1) * b + b = Cardinality(t) * b
    BY <2>9
  <2> HIDE DEF r, Bad
  <2>11. (Cardinality(t) - 1) * b \in Int /\ Cardinality(t) * b \in Int
    BY <2>9
  <2>12. QED  BY <2>5, <2>6, <2>7, <2>8, <2>9, <2>10, <2>11
<1>5. ~(D \in Bad)
  BY <1>4
<1>6. QED  BY <1>1, <1>2, <1>5 DEF Totals, Adds

\* A constant factor can be taken out of a sum.
LEMMA SumTimes ==
  ASSUME NEW D, IsFiniteSet(D), NEW f \in [D -> Int], NEW g \in [D -> Int],
         NEW k \in Int, \A x \in D : g[x] = k * f[x]
  PROVE  SumFunction(g) = k * SumFunction(f)
<1>1. PICK hf : Totals(f, D, hf)
  BY SumTotals
<1>2. PICK hg : Totals(g, D, hg)
  BY SumTotals
<1> DEFINE Bad == {s \in SUBSET D : hg[s] # k * hf[s]}
<1>4. Bad = {}
  <2> SUFFICES ASSUME Bad # {} PROVE FALSE
    OBVIOUS
  <2>1. PICK t \in Bad : \A u \in Bad : u \subseteq t => u = t
    <3>1. Bad \subseteq SUBSET D
      OBVIOUS
    <3> HIDE DEF Bad
    <3>2. QED  BY <3>1, MinimalSet
  <2>2. t # {}
    <3>1. hf[{}] = 0 /\ hg[{}] = 0
      BY <1>1, <1>2 DEF Totals, Adds
    <3>2. {} \notin Bad
      BY <3>1
    <3>3. QED  BY <3>2
  <2>3. PICK z \in t : TRUE
    BY <2>2
  <2> DEFINE r == t \ {z}
  <2>4. r \notin Bad
    BY <2>1
  <2>5. hg[r] = k * hf[r]
    BY <2>4
  <2>6. hf[t] = f[z] + hf[r] /\ hg[t] = g[z] + hg[r]
    <3>1. t \in SUBSET D
      OBVIOUS
    <3> HIDE DEF Bad
    <3>2. hf[t] = f[z] + hf[t \ {z}]
      BY <1>1, <3>1 DEF Totals, Adds
    <3>3. hg[t] = g[z] + hg[t \ {z}]
      BY <1>2, <3>1 DEF Totals, Adds
    <3>4. QED  BY <3>2, <3>3
  <2>7. f[z] \in Int /\ hf[r] \in Int
    BY <1>1 DEF Totals, Adds
  <2>8. g[z] = k * f[z] /\ hg[t] # k * hf[t]
    OBVIOUS
  <2>9. k * (f[z] + hf[r]) = k * f[z] + k * hf[r]
    BY <2>7
  <2> HIDE DEF r, Bad
  <2>12. QED  BY <2>5, <2>6, <2>8, <2>9
<1>5. QED  BY <1>1, <1>2, <1>4 DEF Totals, Adds

\* The same, about functions that are named.
Multiple1(g, f, D, k) ==
  f \in [D -> Int] /\ g \in [D -> Int] /\ k \in Int /\ \A x \in D : g[x] = k * f[x]

LEMMA SumMultiple ==
  ASSUME NEW D, IsFiniteSet(D), NEW f, NEW g, NEW k, Multiple1(g, f, D, k)
  PROVE  SumFunction(g) = k * SumFunction(f)
BY SumTimes DEF Multiple1

LEMMA SumType ==
  ASSUME NEW D, IsFiniteSet(D), NEW f \in [D -> Int]
  PROVE  SumFunction(f) \in Int
<1>1. PICK h : Totals(f, D, h)
  BY SumTotals
<1>2. QED  BY <1>1 DEF Totals, Adds

LEMMA SumOfZeros ==
  ASSUME NEW D, IsFiniteSet(D), NEW f \in [D -> Int], \A x \in D : f[x] = 0
  PROVE  SumFunction(f) = 0
<1>1. SumFunction(f) = 0 * SumFunction(f)
  BY SumTimes
<1>2. QED  BY <1>1, SumType

LEMMA SumNat ==
  ASSUME NEW D, IsFiniteSet(D), NEW f \in [D -> Int], \A x \in D : f[x] >= 0
  PROVE  SumFunction(f) \in Nat
<1> DEFINE z == [x \in D |-> 0]
<1>1. z \in [D -> Int] /\ \A x \in D : z[x] <= f[x] + 0
  OBVIOUS
<1>2. SumFunction(z) = 0
  BY SumOfZeros
<1> HIDE DEF z
<1>3. SumFunction(z) <= SumFunction(f) + Cardinality(D) * 0
  BY <1>1, SumBound
<1>4. Cardinality(D) * 0 = 0
  BY FS_CardinalityType
<1>5. QED  BY <1>2, <1>3, <1>4, SumType

-----------------------------------------------------------------------------
(* The money *)

-----------------------------------------------------------------------------
(* The engine: holdings *)

Holdings ==
  /\ shares \in [Symbols -> Nat]
  /\ \A s \in Symbols : legs[s].qty = shares[s]

Sold == pc = "done" => \A s \in Symbols : legs[s] = NoLeg

AllSold == pc = "done" => \A s \in Symbols : shares[s] = 0

LEMMA QuotientNat ==
  ASSUME NEW w \in Nat, NEW v \in Nat, NEW d \in Nat \ {0}
  PROVE  (w * v) \div d \in Nat
<1>1. w * v \in Nat
  OBVIOUS
<1>2. \A x \in Nat : x \div d \in Nat
  OBVIOUS
<1>3. QED  BY <1>1, <1>2

LEMMA TargetNat ==
  ASSUME NEW s \in Symbols, NEW price \in [Symbols -> Prices], Worth(price), Valid
  PROVE  Target(s, price, Value(price)) \in Nat
<1>1. targets[s] \in Nat /\ Value(price) \in Nat
  BY BacktestAssumption DEF Valid, Worth
<1>2. Parts \in Nat \ {0} /\ price[s] \in Nat \ {0}
  BY BacktestAssumption
<1>3. Parts * price[s] \in Nat \ {0}
  BY <1>2
<1>4. QED  BY <1>1, <1>3, QuotientNat DEF Target

\* A fill changes the leg as it changes the holding, as long as no more is sold than held.
LEMMA FillKeepsLeg ==
  ASSUME NEW leg, leg.qty \in Nat, NEW n \in Int, leg.qty + n >= 0, NEW price
  PROVE  AfterFill(leg, n, price).qty = leg.qty + n
<1>1. CASE n >= 0
  BY <1>1 DEF AfterFill
<1>2. CASE n < 0 /\ leg.qty <= -n
  BY <1>2 DEF AfterFill, NoLeg
<1>3. CASE n < 0 /\ leg.qty > -n
  BY <1>3 DEF AfterFill
<1>4. QED  BY <1>1, <1>2, <1>3

LEMMA TradeKeepsHoldings ==
  ASSUME Holdings, NEW price \in [Symbols -> Prices], Trade(price)
  PROVE  Holdings'
<1> DEFINE n == [s \in Symbols |-> Traded(s, price, Value(price))]
<1>1. Worth(price) /\ Valid /\ Fill(n, price)
  BY DEF Trade
<1>2. ASSUME NEW s \in Symbols PROVE n[s] \in Int /\ shares[s] + n[s] \in Nat
  <2>1. Target(s, price, Value(price)) \in Nat /\ shares[s] \in Nat
    BY <1>1, TargetNat DEF Holdings
  <2>2. \/ n[s] = 0
        \/ n[s] = Target(s, price, Value(price)) - shares[s]
    BY DEF Traded
  <2>3. QED  BY <2>1, <2>2
<1> HIDE DEF n
<1>3. /\ shares' = [s \in Symbols |-> shares[s] + n[s]]
      /\ legs' = [s \in Symbols |-> AfterFill(legs[s], n[s], price[s])]
  BY <1>1 DEF Fill
<1>4. ASSUME NEW s \in Symbols PROVE legs'[s].qty = shares'[s]
  <2>1. legs[s].qty \in Nat /\ legs[s].qty = shares[s]
    BY DEF Holdings
  <2>2. AfterFill(legs[s], n[s], price[s]).qty = legs[s].qty + n[s]
    BY <1>2, <2>1, FillKeepsLeg
  <2>3. QED  BY <1>3, <2>1, <2>2
<1>5. QED  BY <1>2, <1>3, <1>4 DEF Holdings

LEMMA HoldingsStep ==
  ASSUME Holdings, [Next]_vars
  PROVE  Holdings'
<1>1. CASE KeepPositions \/ Decide
  BY <1>1 DEF KeepPositions, Decide, money, Holdings
<1>2. CASE Rebalance
  BY <1>2, TradeKeepsHoldings DEF Rebalance, money, Holdings
<1>3. CASE Liquidate
  <2> DEFINE open == {s \in Symbols : legs[s] # NoLeg}
  <2>1. /\ shares' = [s \in Symbols |-> IF s \in open THEN 0 ELSE shares[s]]
        /\ legs' = [s \in Symbols |-> NoLeg]
    BY <1>3 DEF Liquidate
  <2>2. \A s \in Symbols : s \notin open => shares[s] = 0
    BY DEF Holdings, NoLeg
  <2>3. QED  BY <2>1, <2>2 DEF Holdings, NoLeg
<1>4. CASE UNCHANGED vars
  BY <1>4 DEF vars, money, Holdings
<1>5. QED  BY <1>1, <1>2, <1>3, <1>4 DEF Next

\* Whatever the strategy asks for and the prices do, the open leg of a symbol is the
\* position held in it (_rebalance, _close_all).
THEOREM LegsAreHoldings == Spec => []LegsMatchHoldings
<1>1. Init => Holdings
  BY DEF Init, Holdings, NoLeg
<1>2. Holdings /\ [Next]_vars => Holdings'
  BY HoldingsStep
<1>3. Holdings => LegsMatchHoldings
  BY DEF Holdings, LegsMatchHoldings
<1>4. QED  BY <1>1, <1>2, <1>3, PTL DEF Spec

\* Nothing is left behind: once the engine has liquidated, no share is held.
THEOREM NothingLeftBehind == Spec => []AllSold
<1>1. Init => Holdings /\ Sold
  BY DEF Init, Holdings, Sold, NoLeg
<1>2. Holdings /\ Sold /\ [Next]_vars => Holdings' /\ Sold'
  <2> SUFFICES ASSUME Holdings, Sold, [Next]_vars PROVE Sold'
    BY HoldingsStep
  <2>1. CASE Liquidate
    BY <2>1 DEF Liquidate, Sold
  <2>2. CASE KeepPositions \/ Rebalance \/ Decide
    BY <2>2 DEF KeepPositions, Rebalance, Trade, Decide, Sold
  <2>3. CASE UNCHANGED vars
    BY <2>3 DEF vars, money, Sold
  <2>4. QED  BY <2>1, <2>2, <2>3 DEF Next
<1>3. Holdings /\ Sold => AllSold
  BY DEF Holdings, Sold, AllSold, NoLeg
<1>4. QED  BY <1>1, <1>2, <1>3, PTL DEF Spec

-----------------------------------------------------------------------------
(* Sums over a finite set *)

-----------------------------------------------------------------------------
(* The engine: money *)

\* An empty leg binds no money.
Typed ==
  /\ cash \in Int /\ realised \in Int /\ paid \in Nat
  /\ legs \in [Symbols -> [qty : Nat, cost : Nat]]
  /\ \A s \in Symbols : legs[s].qty = 0 => legs[s].cost = 0

MoneyInv == Typed /\ MoneyAddsUp

LEMMA QuotientBound ==
  ASSUME NEW a \in Nat, NEW d \in Nat \ {0}
  PROVE  a \div d \in Nat /\ d * (a \div d) <= a
OBVIOUS

\* The cost of what is sold is not more than the leg bound.
LEMMA BasisBound ==
  ASSUME NEW c \in Nat, NEW q \in Nat \ {0}, NEW n \in 0 .. q
  PROVE  (c * n) \div q \in 0 .. c
<1>1. c * n \in Nat /\ c * n <= c * q
  OBVIOUS
<1> DEFINE d == (c * n) \div q
<1>2. d \in Nat /\ q * d <= c * n
  BY <1>1, QuotientBound
<1> HIDE DEF d
<1>3. q * d <= q * c
  BY <1>1, <1>2
<1>4. d <= c
  BY <1>2, <1>3
<1>5. QED  BY <1>2, <1>4 DEF d

\* What a fill does to the cost bound in a leg: it adds the price paid and, for what
\* is sold, the profit that is booked.
LEMMA FillKeepsMoney ==
  ASSUME NEW leg \in [qty : Nat, cost : Nat], NEW n \in Int, leg.qty + n >= 0,
         NEW price \in Nat \ {0}, leg.qty = 0 => leg.cost = 0
  PROVE  /\ AfterFill(leg, n, price) \in [qty : Nat, cost : Nat]
         /\ AfterFill(leg, n, price).qty = 0 => AfterFill(leg, n, price).cost = 0
         /\ Pnl(leg, n, price) \in Int
         /\ AfterFill(leg, n, price).cost = leg.cost + n * price + Pnl(leg, n, price)
<1>1. leg.qty \in Nat /\ leg.cost \in Nat /\ n * price \in Int
  OBVIOUS
<1>2. CASE n >= 0
  <2>1. n * price \in Nat /\ (n = 0 => n * price = 0)
    BY <1>2
  <2>3. leg.qty + n = 0 => leg.cost + n * price = 0
    BY <1>1, <1>2, <2>1
  <2>2. QED  BY <1>1, <1>2, <2>1, <2>3 DEF AfterFill, Pnl
<1>3. CASE n < 0 /\ leg.qty <= -n
  <2>1. leg.qty = -n
    BY <1>1, <1>3
  <2>2. leg.qty * price = -(n * price)
    BY <1>1, <2>1
  <2>3. AfterFill(leg, n, price) = NoLeg /\ Pnl(leg, n, price) = leg.qty * price - leg.cost
    BY <1>3 DEF AfterFill, Pnl
  <2>4. QED  BY <1>1, <2>2, <2>3 DEF NoLeg
<1>4. CASE n < 0 /\ leg.qty > -n
  <2> DEFINE b == Basis(leg, -n)
  <2>1. b \in 0 .. leg.cost
    BY <1>1, <1>4, BasisBound DEF Basis
  <2>2. price * (-n) = -(n * price)
    BY <1>1
  <2>3. /\ AfterFill(leg, n, price) = [qty |-> leg.qty + n, cost |-> leg.cost - b]
        /\ Pnl(leg, n, price) = price * (-n) - b
    BY <1>4 DEF AfterFill, Pnl
  <2> HIDE DEF b
  <2>4. leg.qty + n \in Nat \ {0} /\ leg.cost - b \in Nat /\ b \in Int
    BY <1>1, <1>4, <2>1
  <2>5. /\ AfterFill(leg, n, price) \in [qty : Nat, cost : Nat]
        /\ AfterFill(leg, n, price).qty # 0 /\ AfterFill(leg, n, price).cost = leg.cost - b
    BY <2>3, <2>4
  <2>6. leg.cost - b = leg.cost + n * price + (price * (-n) - b)
    BY <1>1, <2>2, <2>4
  <2>7. price * (-n) - b \in Int
    BY <1>1, <2>2, <2>4
  <2>8. QED  BY <2>3, <2>5, <2>6, <2>7
<1>5. QED  BY <1>1, <1>2, <1>3, <1>4

\* What is traded of each symbol, and what it costs to trade it.
LEMMA TradedTyped ==
  ASSUME Holdings, NEW price \in [Symbols -> Prices], Worth(price), Valid, NEW s \in Symbols
  PROVE  /\ Traded(s, price, Value(price)) \in Int
         /\ shares[s] + Traded(s, price, Value(price)) \in Nat
<1>1. Target(s, price, Value(price)) \in Nat /\ shares[s] \in Nat
  BY TargetNat DEF Holdings
<1>2. \/ Traded(s, price, Value(price)) = 0
      \/ Traded(s, price, Value(price)) = Target(s, price, Value(price)) - shares[s]
  BY DEF Traded
<1>3. QED  BY <1>1, <1>2

LEMMA CostNat ==
  ASSUME NEW n \in Int
  PROVE  Cost(Size(n)) \in Nat
<1>1. Size(n) \in Nat
  BY DEF Size
<1>2. CostShare \in Nat \ {0}
  BY BacktestAssumption
<1>3. QED  BY <1>1, <1>2, QuotientBound DEF Cost

LEMMA TradeKeepsMoney ==
  ASSUME Holdings, MoneyInv, NEW price \in [Symbols -> Prices], Trade(price)
  PROVE  MoneyInv'
<1> DEFINE n == [s \in Symbols |-> Traded(s, price, Value(price))]
<1>1. Worth(price) /\ Valid /\ Fill(n, price)
  BY DEF Trade
<1>2. ASSUME NEW s \in Symbols
      PROVE  /\ n[s] \in Int /\ shares[s] + n[s] \in Nat /\ shares[s] = legs[s].qty
             /\ legs[s] \in [qty : Nat, cost : Nat] /\ price[s] \in Nat \ {0}
             /\ (legs[s].qty = 0 => legs[s].cost = 0)
  BY <1>1, TradedTyped, BacktestAssumption DEF Holdings, MoneyInv, Typed
<1> HIDE DEF n
<1> DEFINE before == [s \in Symbols |-> legs[s].cost]
           after == [s \in Symbols |-> AfterFill(legs[s], n[s], price[s]).cost]
           pnl == [s \in Symbols |-> Pnl(legs[s], n[s], price[s])]
           notional == [s \in Symbols |-> n[s] * price[s]]
           spent == [s \in Symbols |-> notional[s] + pnl[s]]
           costs == [s \in Symbols |-> Cost(Size(notional[s]))]
<1>3. ASSUME NEW s \in Symbols
      PROVE  /\ AfterFill(legs[s], n[s], price[s]) \in [qty : Nat, cost : Nat]
             /\ AfterFill(legs[s], n[s], price[s]).qty = 0 => after[s] = 0
             /\ before[s] \in Int /\ pnl[s] \in Int /\ notional[s] \in Int
             /\ after[s] = before[s] + notional[s] + pnl[s] /\ costs[s] \in Nat
  <2>1. /\ n[s] \in Int /\ legs[s].qty + n[s] >= 0 /\ price[s] \in Nat \ {0}
        /\ legs[s] \in [qty : Nat, cost : Nat] /\ (legs[s].qty = 0 => legs[s].cost = 0)
    BY <1>2
  <2>2. /\ AfterFill(legs[s], n[s], price[s]) \in [qty : Nat, cost : Nat]
        /\ AfterFill(legs[s], n[s], price[s]).qty = 0 => AfterFill(legs[s], n[s], price[s]).cost = 0
        /\ Pnl(legs[s], n[s], price[s]) \in Int
        /\ AfterFill(legs[s], n[s], price[s]).cost
             = legs[s].cost + n[s] * price[s] + Pnl(legs[s], n[s], price[s])
    BY <2>1, FillKeepsMoney
  <2>3. n[s] * price[s] \in Int /\ legs[s].cost \in Int
    BY <2>1
  <2>4. Cost(Size(n[s] * price[s])) \in Nat
    BY <2>3, CostNat
  <2>5. QED  BY <2>2, <2>3, <2>4
<1>4. /\ before \in [Symbols -> Int] /\ after \in [Symbols -> Int] /\ pnl \in [Symbols -> Int]
      /\ notional \in [Symbols -> Int] /\ spent \in [Symbols -> Int]
      /\ costs \in [Symbols -> Int]
  <2>1. \A s \in Symbols : after[s] \in Int /\ spent[s] \in Int
    BY <1>3
  <2> HIDE DEF after, spent
  <2>2. after \in [Symbols -> Int] /\ spent \in [Symbols -> Int]
    BY <2>1 DEF after, spent
  <2>3. QED  BY <1>3, <2>2
<1>5. /\ legs' = [s \in Symbols |-> AfterFill(legs[s], n[s], price[s])]
      /\ realised' = realised + SumFunction(pnl)
      /\ cash' = cash - SumFunction(notional) - SumFunction(costs)
      /\ paid' = paid + SumFunction(costs)
  BY <1>1 DEF Fill
<1>6. [s \in Symbols |-> legs'[s].cost] = after
  BY <1>5
<1>7. /\ \A s \in Symbols : spent[s] = notional[s] + pnl[s]
      /\ \A s \in Symbols : after[s] = before[s] + spent[s]
  BY <1>3
<1>8. IsFiniteSet(Symbols) /\ \A s \in Symbols : costs[s] >= 0
  BY <1>3, BacktestAssumption
<1>9. cash \in Int /\ realised \in Int /\ paid \in Nat
      /\ cash + SumFunction(before) + paid = Capital + realised
  BY DEF MoneyInv, Typed, MoneyAddsUp
<1>10. /\ legs' \in [Symbols -> [qty : Nat, cost : Nat]]
       /\ \A s \in Symbols : legs'[s].qty = 0 => legs'[s].cost = 0
  BY <1>3, <1>5
<1> HIDE DEF before, after, pnl, notional, spent, costs
<1>11. /\ SumFunction(spent) = SumFunction(notional) + SumFunction(pnl)
       /\ SumFunction(after) = SumFunction(before) + SumFunction(spent)
  BY <1>4, <1>7, <1>8, SumPlus, SMTT(30)
<1>12. /\ SumFunction(before) \in Int /\ SumFunction(pnl) \in Int
       /\ SumFunction(notional) \in Int /\ SumFunction(costs) \in Nat
  BY <1>4, <1>8, SumType, SumNat
<1>13. Capital \in Int
  BY BacktestAssumption
<1>14. cash' + SumFunction(after) + paid' = Capital + realised'
  <2> DEFINE b == SumFunction(before)  p == SumFunction(pnl)
             x == SumFunction(notional)  c == SumFunction(costs)
  <2>1. SumFunction(after) = b + (x + p) /\ b \in Int /\ p \in Int /\ x \in Int /\ c \in Int
    BY <1>11, <1>12
  <2>2. cash' = cash - x - c /\ paid' = paid + c /\ realised' = realised + p
    BY <1>5
  <2>3. cash + b + paid = Capital + realised
    BY <1>9
  <2> HIDE DEF b, p, x, c
  <2>4. QED  BY <1>9, <1>13, <2>1, <2>2, <2>3
<1>15. MoneyAddsUp'
  BY <1>6, <1>14 DEF MoneyAddsUp
<1>16. Typed'
  BY <1>5, <1>9, <1>10, <1>12 DEF Typed
<1>17. QED  BY <1>15, <1>16 DEF MoneyInv

LEMMA LiquidateKeepsMoney ==
  ASSUME Holdings, MoneyInv, Liquidate
  PROVE  MoneyInv'
<1> DEFINE open == {s \in Symbols : legs[s] # NoLeg}
<1>1. PICK price \in [Symbols -> Prices] :
        LET proceeds == [s \in open |-> shares[s] * price[s]]
            cost == SumFunction([s \in open |-> Cost(proceeds[s])])
        IN /\ cash' = cash + SumFunction(proceeds) - cost
           /\ paid' = paid + cost
           /\ realised' = realised + SumFunction([s \in open |-> Pnl(legs[s], -legs[s].qty, price[s])])
           /\ legs' = [s \in Symbols |-> NoLeg]
  BY DEF Liquidate
<1> DEFINE proceeds == [s \in open |-> shares[s] * price[s]]
           costs == [s \in open |-> Cost(proceeds[s])]
           pnl == [s \in open |-> Pnl(legs[s], -legs[s].qty, price[s])]
           bound == [s \in open |-> legs[s].cost]
           before == [s \in Symbols |-> legs[s].cost]
           after == [s \in Symbols |-> legs'[s].cost]
<1>2. /\ cash' = cash + SumFunction(proceeds) - SumFunction(costs)
      /\ paid' = paid + SumFunction(costs)
      /\ realised' = realised + SumFunction(pnl)
      /\ legs' = [s \in Symbols |-> NoLeg]
  BY <1>1
<1>3. ASSUME NEW s \in open
      PROVE  /\ proceeds[s] \in Nat /\ costs[s] \in Nat /\ pnl[s] \in Int /\ bound[s] \in Int
             /\ proceeds[s] = bound[s] + pnl[s]
  <2>1. /\ s \in Symbols /\ legs[s] \in [qty : Nat, cost : Nat] /\ price[s] \in Nat \ {0}
        /\ shares[s] = legs[s].qty /\ (legs[s].qty = 0 => legs[s].cost = 0)
    BY BacktestAssumption DEF Holdings, MoneyInv, Typed
  <2>2. legs[s].qty \in Nat \ {0} /\ legs[s].cost \in Nat
    BY <2>1 DEF NoLeg
  <2>3. shares[s] * price[s] \in Nat
    BY <2>1, <2>2
  <2>4. Size(shares[s] * price[s]) = shares[s] * price[s]
    BY <2>3 DEF Size
  <2>5. Cost(shares[s] * price[s]) \in Nat
    BY <2>3, <2>4, CostNat
  <2>6. Pnl(legs[s], -legs[s].qty, price[s]) = legs[s].qty * price[s] - legs[s].cost
    BY <2>2 DEF Pnl
  <2>7. QED  BY <2>1, <2>2, <2>3, <2>5, <2>6
<1>4. open \in SUBSET Symbols /\ IsFiniteSet(Symbols) /\ IsFiniteSet(open)
  BY BacktestAssumption, FS_Subset
<1>5. \A s \in Symbols : before[s] \in Int /\ after[s] = 0
  BY <1>2 DEF NoLeg, MoneyInv, Typed
<1>6. \A s \in Symbols : s \notin open => before[s] = 0
  BY DEF NoLeg
<1>7. \A s \in open : bound[s] = before[s]
  OBVIOUS
<1>8. /\ before \in [Symbols -> Int] /\ after \in [Symbols -> Int]
      /\ bound \in [open -> Int] /\ pnl \in [open -> Int]
      /\ proceeds \in [open -> Int] /\ costs \in [open -> Int]
  <2>1. before \in [Symbols -> Int] /\ after \in [Symbols -> Int]
    <3> HIDE DEF before, after
    <3>1. before \in [Symbols -> Int]
      BY <1>5 DEF before
    <3>2. after \in [Symbols -> Int]
      BY <1>5 DEF after
    <3>3. QED  BY <3>1, <3>2
  <2> HIDE DEF open, bound, pnl, proceeds, costs
  <2>2. \A s \in open : /\ bound[s] \in Int /\ pnl[s] \in Int
                       /\ proceeds[s] \in Int /\ costs[s] \in Int
    BY <1>3
  <2>3. bound \in [open -> Int] /\ pnl \in [open -> Int]
    BY <2>2 DEF bound, pnl
  <2>4. proceeds \in [open -> Int]
    BY <2>2 DEF proceeds
  <2>5. costs \in [open -> Int]
    BY <2>2 DEF costs
  <2>6. QED  BY <2>1, <2>3, <2>4, <2>5
<1>9. \A s \in open : costs[s] >= 0 /\ proceeds[s] = bound[s] + pnl[s]
  <2> HIDE DEF open, bound, pnl, proceeds, costs
  <2>1. QED  BY <1>3
<1>10. /\ cash \in Int /\ realised \in Int /\ paid \in Nat
       /\ cash + SumFunction(before) + paid = Capital + realised
  BY DEF MoneyInv, Typed, MoneyAddsUp
<1>11. Capital \in Int
  BY BacktestAssumption
<1> HIDE DEF open, before, after, bound, pnl, proceeds, costs
<1>12. SumFunction(before) = SumFunction(bound)
  BY <1>4, <1>6, <1>7, <1>8, SumOfRest
<1>13. SumFunction(proceeds) = SumFunction(bound) + SumFunction(pnl)
  BY <1>4, <1>8, <1>9, SumPlus
<1>14. SumFunction(after) = 0
  BY <1>4, <1>5, <1>8, SumOfZeros
<1>15. SumFunction(bound) \in Int /\ SumFunction(pnl) \in Int /\ SumFunction(costs) \in Nat
  BY <1>4, <1>8, <1>9, SumType, SumNat
<1>16. cash' + SumFunction(after) + paid' = Capital + realised'
  <2> DEFINE b == SumFunction(bound)  p == SumFunction(pnl)  c == SumFunction(costs)
  <2>1. b \in Int /\ p \in Int /\ c \in Int
    BY <1>15
  <2>2. cash' = cash + (b + p) - c /\ paid' = paid + c /\ realised' = realised + p
    BY <1>2, <1>13
  <2>3. cash + b + paid = Capital + realised
    BY <1>10, <1>12
  <2> HIDE DEF b, p, c
  <2>4. QED  BY <1>10, <1>11, <1>14, <2>1, <2>2, <2>3
<1>17. MoneyAddsUp'
  BY <1>16 DEF MoneyAddsUp, after
<1>18. Typed'
  <2>1. cash' \in Int /\ realised' \in Int /\ paid' \in Nat
    BY <1>2, <1>10, <1>13, <1>15
  <2>2. NoLeg \in [qty : Nat, cost : Nat] /\ NoLeg.cost = 0
    BY DEF NoLeg
  <2>3. QED  BY <1>2, <2>1, <2>2 DEF Typed
<1>19. QED  BY <1>17, <1>18 DEF MoneyInv

LEMMA MoneyInvStep ==
  ASSUME Holdings, MoneyInv, [Next]_vars
  PROVE  MoneyInv'
<1>1. CASE UNCHANGED money
  BY <1>1 DEF money, MoneyInv, Typed, MoneyAddsUp
<1>2. CASE Rebalance
  BY <1>1, <1>2, TradeKeepsMoney DEF Rebalance
<1>3. CASE Liquidate
  BY <1>3, LiquidateKeepsMoney
<1>4. CASE KeepPositions \/ Decide \/ UNCHANGED vars
  BY <1>1, <1>4 DEF KeepPositions, Decide, vars
<1>5. QED  BY <1>2, <1>3, <1>4 DEF Next

LEMMA HoldingsHold == Spec => []Holdings
<1>1. Init => Holdings
  BY DEF Init, Holdings, NoLeg
<1>2. QED  BY <1>1, HoldingsStep, PTL DEF Spec

LEMMA MoneyInvHolds == Spec => []MoneyInv
<1>1. Init => MoneyInv
  <2> SUFFICES ASSUME Init PROVE MoneyInv
    OBVIOUS
  <2>1. /\ cash = Capital /\ realised = 0 /\ paid = 0
        /\ legs = [s \in Symbols |-> NoLeg]
    BY DEF Init
  <2>2. NoLeg \in [qty : Nat, cost : Nat] /\ NoLeg.cost = 0
    BY DEF NoLeg
  <2>3. Typed
    BY <2>1, <2>2, BacktestAssumption DEF Typed
  <2> DEFINE none == [s \in Symbols |-> legs[s].cost]
  <2>4. none \in [Symbols -> Int] /\ \A s \in Symbols : none[s] = 0
    BY <2>1, <2>2
  <2> HIDE DEF none
  <2>5. SumFunction(none) = 0
    BY <2>4, SumOfZeros, BacktestAssumption
  <2>6. MoneyAddsUp
    BY <2>1, <2>5, BacktestAssumption DEF MoneyAddsUp, none
  <2>7. QED  BY <2>3, <2>6 DEF MoneyInv
<1>2. QED  BY <1>1, MoneyInvStep, HoldingsHold, PTL DEF Spec

\* Whatever is traded, at whichever prices: cash, the money bound in open legs and the
\* costs paid are the capital and the profit booked (cost_total, the trade log).
THEOREM MoneyIsConserved == Spec => []MoneyAddsUp
<1>1. MoneyInv => MoneyAddsUp
  BY DEF MoneyInv
<1>2. QED  BY <1>1, MoneyInvHolds, PTL

-----------------------------------------------------------------------------
(* The drift a rebalance leaves alone *)

-----------------------------------------------------------------------------
(* The engine: the drift a rebalance leaves alone *)

\* A position that is not traded is worth at most its target and the band.
LEMMA WorthAfterTrade ==
  ASSUME NEW t \in Nat, NEW q \in Nat, NEW p \in Nat \ {0}, NEW b \in Int, b >= 0,
         NEW n \in Int, n = t - q \/ (n = 0 /\ Size(t - q) * p < b)
  PROVE  (q + n) * p <= t * p + b
<1>1. t * p \in Int /\ q * p \in Int
  OBVIOUS
<1>2. CASE n = t - q
  BY <1>1, <1>2
<1>3. CASE n = 0 /\ Size(t - q) * p < b
  <2>1. CASE t >= q
    <3>1. q * p <= t * p
      BY <2>1
    <3>2. QED  BY <1>1, <1>3, <3>1
  <2>2. CASE t < q
    <3>1. Size(t - q) = q - t
      BY <2>2 DEF Size
    <3>2. (q - t) * p = q * p - t * p
      OBVIOUS
    <3>3. (q + n) * p = q * p
      BY <1>3
    <3>4. QED  BY <1>1, <1>3, <3>1, <3>2, <3>3
  <2>3. QED  BY <2>1, <2>2
<1>4. QED  BY <1>2, <1>3

\* A target is worth at most its share of the portfolio.
LEMMA TargetWorth ==
  ASSUME NEW w \in Nat, NEW v \in Nat, NEW m \in Nat \ {0}, NEW p \in Nat \ {0}
  PROVE  m * (((w * v) \div (m * p)) * p) <= w * v
<1> DEFINE d == (w * v) \div (m * p)
<1>1. w * v \in Nat /\ m * p \in Nat \ {0}
  OBVIOUS
<1>2. d \in Nat /\ (m * p) * d <= w * v
  BY <1>1, QuotientBound
<1> HIDE DEF d
<1>3. m * (d * p) = (m * p) * d
  BY <1>2
<1>4. QED  BY <1>2, <1>3 DEF d

\* The targets together are worth at most the portfolio.
LEMMA TargetsWorth ==
  ASSUME targets \in [Symbols -> Weights],
         NEW price \in [Symbols -> Prices], Worth(price), Valid,
         NEW want, want = [s \in Symbols |-> Target(s, price, Value(price)) * price[s]]
  PROVE  want \in [Symbols -> Int] /\ SumFunction(want) <= Value(price)
<1> DEFINE v == Value(price)
           scaled == [s \in Symbols |-> Parts * want[s]]
           share == [s \in Symbols |-> v * targets[s]]
<1>1. v \in Nat \ {0} /\ Parts \in Nat \ {0} /\ IsFiniteSet(Symbols)
  BY BacktestAssumption DEF Worth
<1> HIDE DEF v
<1>2. ASSUME NEW s \in Symbols
      PROVE  /\ want[s] \in Int /\ scaled[s] \in Int /\ share[s] \in Int
             /\ scaled[s] <= share[s]
  <2>1. targets[s] \in Nat /\ price[s] \in Nat \ {0}
    <3>1. targets[s] \in 0 .. Parts
      BY DEF Valid
    <3>2. targets[s] \in Nat
      BY <1>1, <3>1
    <3>3. price[s] \in Nat \ {0}
      BY BacktestAssumption
    <3>4. QED  BY <3>2, <3>3
  <2>2. want[s] = ((targets[s] * v) \div (Parts * price[s])) * price[s]
    BY DEF Target, v
  <2>3. Target(s, price, Value(price)) \in Nat
    BY TargetNat
  <2>4. want[s] \in Int
    BY <2>1, <2>3
  <2>5. Parts * want[s] <= targets[s] * v
    BY <1>1, <2>1, <2>2, TargetWorth
  <2>6. targets[s] * v = v * targets[s] /\ v * targets[s] \in Int /\ Parts * want[s] \in Int
    BY <1>1, <2>1, <2>4
  <2>7. QED  BY <2>4, <2>5, <2>6
<1> HIDE DEF scaled, share
<1>3. want \in [Symbols -> Int] /\ scaled \in [Symbols -> Int] /\ share \in [Symbols -> Int]
  BY <1>2 DEF scaled, share
<1>4. \A s \in Symbols : scaled[s] <= share[s] + 0
  BY <1>2
<1>5. SumFunction(scaled) <= SumFunction(share) + Cardinality(Symbols) * 0
  BY <1>1, <1>3, <1>4, SumBound
<1>6. SumFunction(scaled) = Parts * SumFunction(want)
  BY <1>1, <1>3, SumTimes DEF scaled
<1>7. targets \in [Symbols -> Int]
  BY BacktestAssumption
<1>8. SumFunction(share) = v * SumFunction(targets)
  BY <1>1, <1>3, <1>7, SumTimes DEF share
<1>9. SumFunction(targets) \in Int /\ SumFunction(want) \in Int
  BY <1>1, <1>3, <1>7, SumType
<1>10. SumFunction(targets) <= Parts
  BY DEF Valid
<1> DEFINE x == SumFunction(want)  y == SumFunction(targets)
<1>11. Parts * x <= v * y
  <2>1. Cardinality(Symbols) * 0 = 0
    BY <1>1, FS_CardinalityType
  <2>2. Parts * x \in Int /\ v * y \in Int
    BY <1>1, <1>9
  <2> HIDE DEF x, y
  <2>3. QED  BY <1>5, <1>6, <1>8, <2>1, <2>2 DEF x, y
<1>12. x \in Int /\ y \in Int /\ y <= Parts
  BY <1>9, <1>10
<1> HIDE DEF x, y
<1>13. v * y <= v * Parts
  BY <1>1, <1>12
<1>14. Parts * x <= Parts * v
  BY <1>1, <1>11, <1>12, <1>13
<1>15. x <= v
  BY <1>1, <1>12, <1>14
<1>16. QED  BY <1>3, <1>15 DEF x, v

TargetsTyped == targets \in [Symbols -> Weights] \cup {Hold}

\* What a trade leaves invested is at most the portfolio and a band per symbol.
LEMMA TradeBorrows ==
  ASSUME Holdings, Typed, targets \in [Symbols -> Weights],
         NEW price \in [Symbols -> Prices], Trade(price)
  PROVE  cash' + (paid' - paid) + Cardinality(Symbols) * Band(Value(price)) >= 0
<1> DEFINE v == Value(price)
           b == Band(v)
           n == [s \in Symbols |-> Traded(s, price, v)]
           want == [s \in Symbols |-> Target(s, price, v) * price[s]]
           held == [s \in Symbols |-> shares[s] * price[s]]
           notional == [s \in Symbols |-> n[s] * price[s]]
           left == [s \in Symbols |-> held[s] + notional[s]]
           costs == [s \in Symbols |-> Cost(Size(notional[s]))]
<1>1. Worth(price) /\ Valid /\ Fill(n, price)
  BY DEF Trade
<1>2. v \in Nat \ {0} /\ IsFiniteSet(Symbols) /\ v = cash + SumFunction(held)
  BY <1>1, BacktestAssumption DEF Worth, Value
<1>3. b \in Nat
  <2>1. BandShare \in Nat \ {0}
    BY BacktestAssumption
  <2>2. QED  BY <1>2, <2>1, QuotientBound DEF Band
<1>4. cash' = cash - SumFunction(notional) - SumFunction(costs) /\ paid' = paid + SumFunction(costs)
  BY <1>1 DEF Fill
<1>5. want \in [Symbols -> Int] /\ SumFunction(want) <= v
  BY <1>1, TargetsWorth
<1>6. ASSUME NEW s \in Symbols
      PROVE  /\ held[s] \in Int /\ notional[s] \in Int /\ left[s] \in Int
             /\ left[s] <= want[s] + b /\ costs[s] \in Int
  <2> DEFINE t == Target(s, price, v)
  <2>1. t \in Nat /\ shares[s] \in Nat /\ price[s] \in Nat \ {0}
    BY <1>1, TargetNat, BacktestAssumption DEF Holdings
  <2>2. /\ n[s] \in Int
        /\ \/ n[s] = t - shares[s]
           \/ n[s] = 0 /\ Size(t - shares[s]) * price[s] < b
    BY <1>1, TradedTyped DEF Traded
  <2>3. held[s] = shares[s] * price[s] /\ notional[s] = n[s] * price[s]
    OBVIOUS
  <2>7. want[s] = t * price[s] /\ left[s] = held[s] + notional[s]
    OBVIOUS
  <2>8. costs[s] = Cost(Size(notional[s]))
    OBVIOUS
  <2> HIDE DEF t, b, n, want, held, notional, left, costs
  <2>4. held[s] \in Int /\ notional[s] \in Int
    BY <2>1, <2>2, <2>3
  <2>5. (shares[s] + n[s]) * price[s] <= t * price[s] + b
    <3> DEFINE q == shares[s]  m == n[s]  p == price[s]
    <3>1. /\ t \in Nat /\ q \in Nat /\ p \in Nat \ {0} /\ b \in Int /\ b >= 0 /\ m \in Int
          /\ m = t - q \/ (m = 0 /\ Size(t - q) * p < b)
      BY <1>3, <2>1, <2>2
    <3> HIDE DEF q, m, p
    <3>2. (q + m) * p <= t * p + b
      BY <3>1, WorthAfterTrade
    <3>3. QED  BY <3>2 DEF q, m, p
  <2>6. (shares[s] + n[s]) * price[s] = shares[s] * price[s] + n[s] * price[s]
    BY <2>1, <2>2
  <2>9. costs[s] \in Int
    BY <2>4, <2>8, CostNat
  <2>10. QED  BY <2>3, <2>4, <2>5, <2>6, <2>7, <2>9
<1>13. \A s \in Symbols : left[s] = held[s] + notional[s]
  OBVIOUS
<1> HIDE DEF v, b, n, want, held, notional, left, costs
<1>7. held \in [Symbols -> Int] /\ notional \in [Symbols -> Int]
  BY <1>6 DEF held, notional
<1>8. left \in [Symbols -> Int] /\ costs \in [Symbols -> Int]
  BY <1>6 DEF left, costs
<1>9. SumFunction(left) = SumFunction(held) + SumFunction(notional)
  BY <1>2, <1>7, <1>8, <1>13, SumPlus
<1>10. SumFunction(left) <= SumFunction(want) + Cardinality(Symbols) * b
  BY <1>2, <1>3, <1>5, <1>6, <1>8, SumBound
<1>11. /\ SumFunction(held) \in Int /\ SumFunction(notional) \in Int
       /\ SumFunction(costs) \in Int /\ SumFunction(want) \in Int
  BY <1>2, <1>5, <1>7, <1>8, SumType
<1>12. Cardinality(Symbols) * b \in Int
  BY <1>2, <1>3, FS_CardinalityType
<1>14. cash \in Int /\ paid \in Int
  BY DEF Typed
<1> DEFINE x == SumFunction(held)  y == SumFunction(notional)  c == SumFunction(costs)
           w == SumFunction(want)  k == Cardinality(Symbols) * b
<1>15. /\ cash' = cash - y - c /\ paid' = paid + c /\ v = cash + x /\ w <= v
       /\ x + y <= w + k
  BY <1>2, <1>4, <1>5, <1>9, <1>10
<1>16. x \in Int /\ y \in Int /\ c \in Int /\ w \in Int /\ k \in Int
  BY <1>11, <1>12
<1> HIDE DEF x, y, c, w, k
<1>17. cash' + (paid' - paid) + k >= 0
  BY <1>2, <1>14, <1>15, <1>16
<1>18. QED  BY <1>17 DEF k, b, v

\* A rebalance never spends more than the portfolio, its costs and the drift the band
\* left alone, for every universe, every target the engine accepts and every price.
THEOREM BorrowingIsBounded == Spec => BorrowsCostsAndDriftOnly
<1> DEFINE Bounded ==
      \A price \in [Symbols -> Prices] :
        pc = "open" /\ targets # Hold /\ Trade(price) =>
          cash' + (paid' - paid) + Cardinality(Symbols) * Band(Value(price)) >= 0
<1>1. Init => TargetsTyped
  BY DEF Init, TargetsTyped
<1>2. TargetsTyped /\ [Next]_vars => TargetsTyped'
  BY DEF TargetsTyped, Next, KeepPositions, Rebalance, Decide, Liquidate, vars
<1>3. Holdings /\ MoneyInv /\ TargetsTyped /\ [Next]_vars => [Bounded]_vars
  BY TradeBorrows DEF TargetsTyped, MoneyInv
<1>4. QED  BY <1>1, <1>2, <1>3, HoldingsHold, MoneyInvHolds, PTL
           DEF Spec, BorrowsCostsAndDriftOnly

-----------------------------------------------------------------------------
(* Fractions in lowest terms *)

\* Same as in VendorRows part
LEMMA QuotientIs ==
  ASSUME NEW a \in Int, NEW b \in Nat \ {0}, NEW q \in Int, b * q <= a, a < b * q + b
  PROVE  a \div b = q
<1> DEFINE k == a \div b
<1>1. k \in Int /\ b * k <= a /\ a < b * k + b
  OBVIOUS
<1> HIDE DEF k
<1>2. \A x, y \in Int : x < y => b * x + b <= b * y
  <2> SUFFICES ASSUME NEW x \in Int, NEW y \in Int, x < y PROVE b * x + b <= b * y
    OBVIOUS
  <2>1. b * (y - x - 1) >= 0
    OBVIOUS
  <2>2. b * (y - x - 1) = b * y - b * x - b
    OBVIOUS
  <2>3. QED  BY <2>1, <2>2
<1>3. ~(k < q) /\ ~(q < k)
  <2>1. b * k \in Int /\ b * q \in Int
    BY <1>1
  <2> DEFINE bk == b * k  bq == b * q
  <2>2. (k < q => bk + b <= bq) /\ (q < k => bq + b <= bk)
    BY <1>1, <1>2
  <2>3. bk <= a /\ a < bk + b /\ bq <= a /\ a < bq + b
    BY <1>1
  <2>4. bk \in Int /\ bq \in Int
    BY <2>1
  <2> HIDE DEF bk, bq
  <2>5. QED  BY <2>2, <2>3, <2>4
<1>4. QED  BY <1>1, <1>3 DEF k

\* The common divisors of two numbers.
Common(a, b) == {d \in Nat : \E x, y \in Int : a = d * x /\ b = d * y}

LEMMA DivMod ==
  ASSUME NEW a \in Nat, NEW b \in Nat \ {0}
  PROVE  a \div b \in Nat /\ a % b \in Nat /\ a % b < b /\ a = b * (a \div b) + (a % b)
OBVIOUS

LEMMA CommonStays ==
  ASSUME NEW a \in Nat, NEW b \in Nat \ {0}
  PROVE  Common(a, b) = Common(b, a % b)
<1> DEFINE q == a \div b  r == a % b
<1>1. q \in Int /\ r \in Int /\ a = b * q + r
  BY DivMod
<1> HIDE DEF q, r
<1>2. ASSUME NEW d \in Nat, NEW x \in Int, NEW y \in Int, a = d * x, b = d * y
      PROVE  d \in Common(b, r)
  <2>1. r = d * (x - y * q)
    <3>1. r = a - b * q
      <4> DEFINE m == b * q
      <4>1. m \in Int
        BY <1>1
      <4>2. a = m + r
        BY <1>1
      <4> HIDE DEF m
      <4>3. r = a - m
        BY <1>1, <4>1, <4>2
      <4>4. QED  BY <4>3 DEF m
    <3>2. d * x - (d * y) * q = d * (x - y * q)
      BY <1>1
    <3>3. QED  BY <1>2, <3>1, <3>2
  <2>2. x - y * q \in Int
    BY <1>1
  <2>3. QED  BY <1>2, <2>1, <2>2 DEF Common
<1>3. ASSUME NEW d \in Nat, NEW x \in Int, NEW y \in Int, b = d * x, r = d * y
      PROVE  d \in Common(a, b)
  <2>1. a = d * (x * q + y)
    <3>1. (d * x) * q + d * y = d * (x * q + y)
      BY <1>1
    <3>2. QED  BY <1>1, <1>3, <3>1
  <2>2. x * q + y \in Int
    BY <1>1
  <2>3. QED  BY <1>3, <2>1, <2>2 DEF Common
<1>4. QED  BY <1>2, <1>3 DEF Common, r

\* Euclid's recursion has a solution, the largest common divisor.
LEMMA GcdIs ==
  ASSUME NEW a \in Nat, NEW b \in Nat
  PROVE  Gcd[<<a, b>>] = IF b = 0 THEN a ELSE Gcd[<<b, a % b>>]
<1> DEFINE top(s) == CHOOSE d \in s : \A e \in s : e <= d
           h == [p \in Nat \X Nat |-> IF p[1] = 0 /\ p[2] = 0 THEN 0 ELSE top(Common(p[1], p[2]))]
           E(g) == g = [p \in Nat \X Nat |-> IF p[2] = 0 THEN p[1] ELSE g[<<p[2], p[1] % p[2]>>]]
<1>1. ASSUME NEW n \in Nat \ {0} PROVE top(Common(n, 0)) = n
  <2>1. n \in Common(n, 0)
    <3>1. n = n * 1 /\ 0 = n * 0
      OBVIOUS
    <3>2. QED  BY <3>1 DEF Common
  <2>2. ASSUME NEW d \in Common(n, 0) PROVE d \in Nat /\ d <= n
    <3>1. PICK x \in Int : n = d * x
      BY DEF Common
    <3>2. d \in Nat
      BY DEF Common
    <3>3. x > 0
      <4> SUFFICES ASSUME x <= 0 PROVE FALSE
        BY <3>1
      <4>1. d * x <= 0
        BY <3>2
      <4>2. QED  BY <3>1, <4>1
    <3>4. d * (x - 1) >= 0 /\ d * (x - 1) = d * x - d
      BY <3>2, <3>3
    <3>5. QED  BY <3>1, <3>2, <3>4
  <2>3. QED  BY <2>1, <2>2
<1>2. ASSUME NEW x \in Nat, NEW y \in Nat
      PROVE  h[<<x, y>>] = IF y = 0 THEN x ELSE h[<<y, x % y>>]
  <2>1. CASE y = 0 /\ x = 0
    BY <2>1
  <2>2. CASE y = 0 /\ x # 0
    <3>1. h[<<x, y>>] = top(Common(x, y))
      BY <2>2
    <3>2. QED  BY <1>1, <2>2, <3>1
  <2>3. CASE y # 0
    <3>1. x % y \in Nat
      BY <2>3
    <3>2. h[<<x, y>>] = top(Common(x, y)) /\ h[<<y, x % y>>] = top(Common(y, x % y))
      BY <2>3, <3>1
    <3> HIDE DEF h
    <3>3. QED  BY <2>3, <3>2, CommonStays
  <2>4. QED  BY <2>1, <2>2, <2>3
<1>3. E(h)
  <2>1. h = [p \in Nat \X Nat |-> h[p]]
    OBVIOUS
  <2>2. \A p \in Nat \X Nat : p = <<p[1], p[2]>> /\ p[1] \in Nat /\ p[2] \in Nat
    OBVIOUS
  <2> HIDE DEF h
  <2>3. \A p \in Nat \X Nat : h[p] = IF p[2] = 0 THEN p[1] ELSE h[<<p[2], p[1] % p[2]>>]
    BY <1>2, <2>2
  <2>4. QED  BY <2>1, <2>3
<1> HIDE DEF h
<1>4. E(Gcd)
  <2>1. Gcd = CHOOSE g : E(g)
    BY DEF Gcd
  <2>2. QED  BY <1>3, <2>1
<1>5. <<a, b>> \in Nat \X Nat
  OBVIOUS
<1>6. QED  BY <1>4, <1>5

\* g divides a and b and is a combination of them.
Combines(g, a, b) ==
  /\ g \in Nat
  /\ \E x, y \in Int : a = g * x /\ b = g * y
  /\ \E u, v \in Int : g = a * u + b * v

LEMMA GcdCombines ==
  ASSUME NEW a \in Nat, NEW b \in Nat
  PROVE  Combines(Gcd[<<a, b>>], a, b)
<1> DEFINE P(x, y) == Combines(Gcd[<<x, y>>], x, y)
           G == {n \in Nat : \A y \in 0 .. n : \A x \in Nat : P(x, y)}
<1>1. \A x \in Nat : P(x, 0)
  <2> SUFFICES ASSUME NEW x \in Nat PROVE P(x, 0)
    OBVIOUS
  <2>1. Gcd[<<x, 0>>] = x
    BY GcdIs
  <2>2. x = x * 1 /\ 0 = x * 0 /\ x = x * 1 + 0 * 0
    OBVIOUS
  <2>3. QED  BY <2>1, <2>2 DEF Combines
<1>2. 0 \in G
  BY <1>1
<1>3. ASSUME NEW n \in Nat, n \in G PROVE n + 1 \in G
  <2> SUFFICES ASSUME NEW x \in Nat PROVE P(x, n + 1)
    BY <1>3
  <2> DEFINE y == n + 1  q == x \div y  r == x % y  g == Gcd[<<y, r>>]
  <2>1. y \in Nat \ {0}
    OBVIOUS
  <2>2. q \in Int /\ r \in 0 .. n /\ x = y * q + r
    <3> HIDE DEF y
    <3>1. q \in Nat /\ r \in Nat /\ r < y /\ x = y * q + r
      BY <2>1, DivMod
    <3>2. QED  BY <3>1 DEF y
  <2>3. Gcd[<<x, y>>] = g
    BY <2>1, GcdIs
  <2>4. P(y, r)
    BY <1>3, <2>1, <2>2
  <2> HIDE DEF y, q, r, g, G, P
  <2>5. Combines(g, y, r)
    BY <2>4 DEF P, g
  <2>6. g \in Nat
    BY <2>5 DEF Combines
  <2>7. PICK s, t \in Int : y = g * s /\ r = g * t
    BY <2>5 DEF Combines
  <2>8. PICK u, v \in Int : g = y * u + r * v
    BY <2>5 DEF Combines
  <2>9. x = g * (s * q + t) /\ s * q + t \in Int
    <3>1. (g * s) * q + g * t = g * (s * q + t) /\ s * q + t \in Int
      BY <2>2, <2>6
    <3>2. x = (g * s) * q + g * t
      BY <2>2, <2>7
    <3>3. QED  BY <3>1, <3>2
  <2>10. g = x * v + y * (u - q * v) /\ u - q * v \in Int
    <3>1. (y * q + r) * v + y * (u - q * v) = y * u + r * v /\ u - q * v \in Int
      BY <2>1, <2>2
    <3>2. QED  BY <2>2, <2>8, <3>1
  <2>11. Combines(g, x, y)
    BY <2>6, <2>7, <2>9, <2>10 DEF Combines
  <2>12. QED  BY <2>3, <2>11 DEF P, y
<1> HIDE DEF G, P
<1>4. Nat \subseteq G
  BY <1>2, <1>3, CountingUp
<1>5. b \in G
  BY <1>4
<1>6. P(a, b)
  BY <1>5 DEF G
<1>7. QED  BY <1>6 DEF P

\* f is n / d.
Equals(f, n, d) == f \in Fractions /\ f.num * d = n * f.den

LEMMA Cancel ==
  ASSUME NEW a \in Int, NEW b \in Int, NEW k \in Int, k # 0, a * k = b * k
  PROVE  a = b
<1>1. (a - b) * k = 0
  OBVIOUS
<1>2. \A x \in Int : x # 0 => x * k # 0
  OBVIOUS
<1>3. QED  BY <1>1, <1>2

\* Lowest terms: some combination of numerator and denominator is 1.
LEMMA FractionCombines ==
  ASSUME NEW f \in Fractions
  PROVE  /\ f.num \in Int /\ f.den \in Nat \ {0} /\ f = [num |-> f.num, den |-> f.den]
         /\ \E x, y \in Int : f.num * x + f.den * y = 1
<1> DEFINE n == f.num  d == f.den
<1>1. n \in Int /\ d \in Nat \ {0} /\ f = [num |-> n, den |-> d] /\ Gcd[<<Magnitude(n), d>>] = 1
  BY DEF Fractions
<1> HIDE DEF n, d
<1>2. Magnitude(n) \in Nat /\ (Magnitude(n) = n \/ Magnitude(n) = -n)
  BY <1>1 DEF Magnitude
<1>3. Combines(1, Magnitude(n), d)
  BY <1>1, <1>2, GcdCombines
<1>4. PICK u, v \in Int : 1 = Magnitude(n) * u + d * v
  BY <1>3 DEF Combines
<1>5. CASE Magnitude(n) = n
  <2>1. n * u + d * v = 1
    BY <1>4, <1>5
  <2>2. QED  BY <1>1, <2>1 DEF n, d
<1>6. CASE Magnitude(n) = -n
  <2>1. n * (-u) + d * v = 1
    <3>1. (-n) * u = n * (-u)
      BY <1>1
    <3>2. QED  BY <1>4, <1>6, <3>1
  <2>2. -u \in Int
    OBVIOUS
  <2>3. QED  BY <1>1, <2>1, <2>2 DEF n, d
<1>7. QED  BY <1>2, <1>5, <1>6

LEMMA DividesDen ==
  ASSUME NEW n \in Int, NEW d \in Nat \ {0}, NEW m \in Int, NEW e \in Nat \ {0},
         n * e = m * d, NEW x \in Int, NEW y \in Int, n * x + d * y = 1
  PROVE  d <= e
<1> DEFINE k == m * x + e * y
<1>1. e = d * k
  <2>1. e * (n * x + d * y) = (n * e) * x + d * (e * y)
    OBVIOUS
  <2>2. (m * d) * x + d * (e * y) = d * (m * x + e * y)
    OBVIOUS
  <2>3. e * 1 = e
    OBVIOUS
  <2>4. QED  BY <2>1, <2>2, <2>3
<1>2. k \in Int
  OBVIOUS
<1> HIDE DEF k
<1>3. k > 0
  <2> SUFFICES ASSUME k <= 0 PROVE FALSE
    BY <1>2
  <2>1. d * k <= 0
    BY <1>2
  <2>2. QED  BY <1>1, <2>1
<1>4. d * (k - 1) >= 0 /\ d * (k - 1) = d * k - d
  BY <1>2, <1>3
<1>5. QED  BY <1>1, <1>4

\* In lowest terms, equal values are equal fractions.
LEMMA Canonical ==
  ASSUME NEW f \in Fractions, NEW h \in Fractions, f.num * h.den = h.num * f.den
  PROVE  f = h
<1> DEFINE n == f.num  d == f.den  m == h.num  e == h.den
<1>1. /\ n \in Int /\ d \in Nat \ {0} /\ m \in Int /\ e \in Nat \ {0}
      /\ f = [num |-> n, den |-> d] /\ h = [num |-> m, den |-> e]
      /\ \E x, y \in Int : n * x + d * y = 1
      /\ \E x, y \in Int : m * x + e * y = 1
  BY FractionCombines
<1>2. n * e = m * d
  OBVIOUS
<1> HIDE DEF n, d, m, e
<1>3. d <= e
  BY <1>1, <1>2, DividesDen
<1>4. e <= d
  BY <1>1, <1>2, DividesDen
<1>5. d = e
  BY <1>1, <1>3, <1>4
<1>6. n = m
  <2>1. n * d = m * d /\ d # 0
    BY <1>1, <1>2, <1>5
  <2>2. QED  BY <1>1, <2>1, Cancel
<1>7. QED  BY <1>1, <1>5, <1>6

LEMMA GcdOne ==
  ASSUME NEW x \in Nat, NEW y \in Nat, \E u, v \in Int : x * u + y * v = 1
  PROVE  Gcd[<<x, y>>] = 1
<1> PICK u, v \in Int : x * u + y * v = 1
  OBVIOUS
<1> DEFINE h == Gcd[<<x, y>>]
<1>1. Combines(h, x, y)
  BY GcdCombines
<1> HIDE DEF h
<1>2. h \in Nat
  BY <1>1 DEF Combines
<1>3. PICK s, t \in Int : x = h * s /\ y = h * t
  BY <1>1 DEF Combines
<1> DEFINE k == s * u + t * v
<1>4. h * k = 1 /\ k \in Int
  <2>1. (h * s) * u + (h * t) * v = h * (s * u + t * v) /\ s * u + t * v \in Int
    BY <1>2
  <2>2. QED  BY <1>3, <2>1
<1> HIDE DEF k
<1>5. h # 0 /\ k > 0
  <2>1. k <= 0 => h * k <= 0
    BY <1>2, <1>4
  <2>2. h = 0 => h * k = 0
    BY <1>4
  <2>3. QED  BY <1>4, <2>1, <2>2
<1>6. h * (k - 1) >= 0 /\ h * (k - 1) = h * k - h
  BY <1>2, <1>4, <1>5
<1>7. h = 1
  BY <1>2, <1>4, <1>5, <1>6
<1>8. QED  BY <1>7 DEF h

LEMMA ExactQuotient ==
  ASSUME NEW g \in Nat \ {0}, NEW x \in Int
  PROVE  (g * x) \div g = x
<1> DEFINE a == g * x
<1>1. a \in Int /\ g * x <= a /\ a < g * x + g
  OBVIOUS
<1> HIDE DEF a
<1>2. a \div g = x
  BY <1>1, QuotientIs
<1>3. QED  BY <1>2 DEF a

LEMMA WholeIs ==
  ASSUME NEW n \in Int
  PROVE  Whole(n) \in Fractions
<1>1. Magnitude(n) \in Nat
  BY DEF Magnitude
<1>2. Gcd[<<Magnitude(n), 1>>] = 1
  <2> DEFINE x == Magnitude(n)
  <2>1. x * 0 + 1 * 1 = 1 /\ x \in Nat
    BY <1>1
  <2> HIDE DEF x
  <2>2. \E u, v \in Int : x * u + 1 * v = 1
    BY <2>1
  <2>3. Gcd[<<x, 1>>] = 1
    BY <2>1, <2>2, GcdOne
  <2>4. QED  BY <2>3 DEF x
<1>3. QED  BY <1>2 DEF Fractions, Whole

\* Lowest terms keep the value.
LEMMA FracIs ==
  ASSUME NEW n \in Int, NEW d \in Int, d # 0
  PROVE  Equals(Frac(n, d), n, d)
<1>1. CASE d = 1
  <2>1. Frac(n, d) = Whole(n)
    BY <1>1 DEF Frac, Whole
  <2>2. Whole(n).num * d = n * Whole(n).den
    BY <1>1 DEF Whole
  <2>3. QED  BY <2>1, <2>2, WholeIs DEF Equals
<1>2. CASE d # 1
  <2> DEFINE sign == IF d < 0 THEN -1 ELSE 1
             p == Magnitude(n)  q == Magnitude(d)
             g == Gcd[<<p, q>>]
  <2>1. Frac(n, d) = [num |-> (sign * n) \div g, den |-> (sign * d) \div g]
    BY <1>2 DEF Frac
  <2>2. p \in Nat /\ q \in Nat \ {0} /\ (p = n \/ p = -n)
    BY DEF Magnitude
  <2>3. q = sign * d /\ sign \in {-1, 1}
    BY DEF Magnitude
  <2>4. Combines(g, p, q)
    BY <2>2, GcdCombines
  <2> HIDE DEF sign, p, q, g
  <2>5. PICK x, y \in Int : p = g * x /\ q = g * y
    BY <2>4 DEF Combines
  <2>6. PICK u, v \in Int : g = p * u + q * v
    BY <2>4 DEF Combines
  <2>7. g \in Nat \ {0}
    <3>1. g \in Nat
      BY <2>4 DEF Combines
    <3>2. g = 0 => g * y = 0
      OBVIOUS
    <3>3. QED  BY <2>2, <2>5, <3>1, <3>2
  <2>8. y > 0
    <3>1. y <= 0 => g * y <= 0
      BY <2>7
    <3>2. QED  BY <2>2, <2>5, <3>1
  <2>9. x >= 0
    <3>1. x < 0 => g * x < 0
      BY <2>7
    <3>2. QED  BY <2>2, <2>5, <3>1
  <2>10. x * u + y * v = 1
    <3>1. (g * x) * u + (g * y) * v = g * (x * u + y * v)
      BY <2>7
    <3>2. (x * u + y * v) * g = 1 * g /\ x * u + y * v \in Int
      BY <2>5, <2>6, <2>7, <3>1
    <3>3. QED  BY <2>7, <3>2, Cancel
  <2>11. PICK z \in Int : sign * n = g * z /\ (z = x \/ z = -x)
    <3>1. sign * n = p \/ sign * n = -p
      BY <2>2, <2>3
    <3>2. -(g * x) = g * (-x) /\ -x \in Int
      BY <2>7
    <3>3. QED  BY <2>5, <3>1, <3>2
  <2>12. Frac(n, d) = [num |-> z, den |-> y]
    <3>1. (g * z) \div g = z /\ (g * y) \div g = y
      BY <2>7, ExactQuotient
    <3>2. QED  BY <2>1, <2>3, <2>5, <2>11, <3>1
  <2>13. Gcd[<<x, y>>] = 1 /\ Magnitude(z) = x
    <3>1. x \in Nat /\ y \in Nat
      BY <2>8, <2>9
    <3>2. Gcd[<<x, y>>] = 1
      BY <2>10, <3>1, GcdOne
    <3>3. Magnitude(z) = x
      BY <2>9, <2>11 DEF Magnitude
    <3>4. QED  BY <3>2, <3>3
  <2>14. Frac(n, d) \in Fractions
    BY <2>8, <2>12, <2>13 DEF Fractions
  <2>15. z * d = n * y
    <3>1. (z * d) * g = (g * z) * d /\ (n * y) * g = n * (g * y)
      BY <2>7
    <3>2. (g * z) * d = (sign * n) * d /\ n * (g * y) = n * (sign * d)
      BY <2>3, <2>5, <2>11
    <3>3. (sign * n) * d = n * (sign * d)
      BY <2>3
    <3>4. (z * d) * g = (n * y) * g /\ z * d \in Int /\ n * y \in Int
      BY <3>1, <3>2, <3>3
    <3> DEFINE zd == z * d  ny == n * y
    <3>5. zd * g = ny * g /\ zd \in Int /\ ny \in Int
      BY <3>4
    <3> HIDE DEF zd, ny
    <3>6. zd = ny
      BY <2>7, <3>5, Cancel
    <3>7. QED  BY <3>6 DEF zd, ny
  <2>16. QED  BY <2>12, <2>14, <2>15 DEF Equals
<1>3. QED  BY <1>1, <1>2

LEMMA Itself == ASSUME NEW f \in Fractions PROVE Equals(f, f.num, f.den)
BY DEF Equals

\* Values over one denominator: the sum, the difference and the order are those of the numerators.
LEMMA PlusIs ==
  ASSUME NEW a, NEW b, NEW n \in Int, NEW m \in Int, NEW d \in Nat \ {0}, Equals(a, n, d), Equals(b, m, d)
  PROVE  Equals(Plus(a, b), n + m, d)
<1> DEFINE an == a.num  ad == a.den  bn == b.num  bd == b.den  f == Plus(a, b)  fn == f.num  fd == f.den
           k == ad * bd
<1>1. an \in Int /\ ad \in Nat \ {0} /\ bn \in Int /\ bd \in Nat \ {0}
  BY DEF Equals, Fractions
<1>2. an * d = n * ad /\ bn * d = m * bd
  BY DEF Equals
<1>3. Equals(f, an * bd + bn * ad, ad * bd)
  <2>1. an * bd + bn * ad \in Int /\ ad * bd \in Int /\ ad * bd # 0
    <3> HIDE DEF an, ad, bn, bd
    <3>1. QED  BY <1>1
  <2>2. QED  BY <2>1, FracIs DEF Plus
<1>4. f \in Fractions /\ fn \in Int /\ fd \in Int /\ fn * (ad * bd) = (an * bd + bn * ad) * fd
  BY <1>3 DEF Equals, Fractions
<1> HIDE DEF an, ad, bn, bd, fn, fd
<1>5. (fn * d) * k = ((n + m) * fd) * k
  <2>1. (fn * d) * (ad * bd) = d * (fn * (ad * bd))
    BY <1>1, <1>4
  <2>2. d * ((an * bd + bn * ad) * fd) = ((an * d) * bd + (bn * d) * ad) * fd
    BY <1>1, <1>4
  <2>3. ((n * ad) * bd + (m * bd) * ad) * fd = ((n + m) * fd) * (ad * bd)
    BY <1>1, <1>4
  <2>4. QED  BY <1>2, <1>4, <2>1, <2>2, <2>3
<1>6. k \in Int /\ k # 0 /\ fn * d \in Int /\ (n + m) * fd \in Int
  BY <1>1, <1>4
<1> DEFINE l == fn * d  r == (n + m) * fd
<1>7. l * k = r * k /\ l \in Int /\ r \in Int
  BY <1>5, <1>6
<1> HIDE DEF l, r, k
<1>8. l = r
  BY <1>6, <1>7, Cancel
<1>9. fn * d = (n + m) * fd
  BY <1>8 DEF l, r
<1>10. QED  BY <1>4, <1>9 DEF Equals, fn, fd

LEMMA MinusIs ==
  ASSUME NEW a, NEW b, NEW n \in Int, NEW m \in Int, NEW d \in Nat \ {0}, Equals(a, n, d), Equals(b, m, d)
  PROVE  Equals(Minus(a, b), n - m, d)
<1> DEFINE an == a.num  ad == a.den  bn == b.num  bd == b.den  f == Minus(a, b)  fn == f.num  fd == f.den
           k == ad * bd
<1>1. an \in Int /\ ad \in Nat \ {0} /\ bn \in Int /\ bd \in Nat \ {0}
  BY DEF Equals, Fractions
<1>2. an * d = n * ad /\ bn * d = m * bd
  BY DEF Equals
<1>3. Equals(f, an * bd - bn * ad, ad * bd)
  <2>1. an * bd - bn * ad \in Int /\ ad * bd \in Int /\ ad * bd # 0
    <3> HIDE DEF an, ad, bn, bd
    <3>1. QED  BY <1>1
  <2>2. QED  BY <2>1, FracIs DEF Minus
<1>4. f \in Fractions /\ fn \in Int /\ fd \in Int /\ fn * (ad * bd) = (an * bd - bn * ad) * fd
  BY <1>3 DEF Equals, Fractions
<1> HIDE DEF an, ad, bn, bd, fn, fd
<1>5. (fn * d) * k = ((n - m) * fd) * k
  <2>1. (fn * d) * (ad * bd) = d * (fn * (ad * bd))
    BY <1>1, <1>4
  <2>2. d * ((an * bd - bn * ad) * fd) = ((an * d) * bd - (bn * d) * ad) * fd
    BY <1>1, <1>4
  <2>3. ((n * ad) * bd - (m * bd) * ad) * fd = ((n - m) * fd) * (ad * bd)
    BY <1>1, <1>4
  <2>4. QED  BY <1>2, <1>4, <2>1, <2>2, <2>3
<1>6. k \in Int /\ k # 0 /\ fn * d \in Int /\ (n - m) * fd \in Int
  BY <1>1, <1>4
<1> DEFINE l == fn * d  r == (n - m) * fd
<1>7. l * k = r * k /\ l \in Int /\ r \in Int
  BY <1>5, <1>6
<1> HIDE DEF l, r, k
<1>8. l = r
  BY <1>6, <1>7, Cancel
<1>9. fn * d = (n - m) * fd
  BY <1>8 DEF l, r
<1>10. QED  BY <1>4, <1>9 DEF Equals, fn, fd

LEMMA EqualsType ==
  ASSUME NEW f, NEW n \in Int, NEW d \in Int, Equals(f, n, d)
  PROVE  f \in Fractions /\ f.num \in Int /\ f.den \in Nat \ {0} /\ f.num * d = n * f.den
BY DEF Equals, Fractions

LEMMA WholeEquals ==
  ASSUME NEW k \in Int, NEW d \in Int
  PROVE  Equals(Whole(k), k * d, d)
<1>1. Whole(k).num = k /\ Whole(k).den = 1 /\ (k * d) * 1 = k * d
  BY DEF Whole
<1>2. QED  BY <1>1, WholeIs DEF Equals

\* One value is one fraction.
LEMMA SameValue ==
  ASSUME NEW f, NEW h, NEW n \in Int, NEW d \in Int, d # 0, Equals(f, n, d), Equals(h, n, d)
  PROVE  f = h
<1> DEFINE fn == f.num  fd == f.den  hn == h.num  hd == h.den
<1>1. /\ f \in Fractions /\ h \in Fractions
      /\ fn \in Int /\ fd \in Int /\ hn \in Int /\ hd \in Int
      /\ fn * d = n * fd /\ hn * d = n * hd
  BY EqualsType
<1> HIDE DEF fn, fd, hn, hd
<1>2. (fn * hd) * d = (hn * fd) * d
  <2>1. (fn * hd) * d = (fn * d) * hd /\ (hn * fd) * d = (hn * d) * fd
    BY <1>1
  <2>2. (n * fd) * hd = (n * hd) * fd
    BY <1>1
  <2>3. QED  BY <1>1, <2>1, <2>2
<1> DEFINE l == fn * hd  r == hn * fd
<1>3. l \in Int /\ r \in Int /\ l * d = r * d
  BY <1>1, <1>2
<1> HIDE DEF l, r
<1>4. l = r
  BY <1>3, Cancel
<1>5. f.num * h.den = h.num * f.den
  BY <1>4 DEF l, r, fn, fd, hn, hd
<1>6. QED  BY <1>1, <1>5, Canonical

LEMMA OrderCancels ==
  ASSUME NEW a \in Int, NEW b \in Int, NEW k \in Nat \ {0}
  PROVE  a * k < b * k <=> a < b
<1>1. (b - a) * k = b * k - a * k
  OBVIOUS
<1>2. a < b => (b - a) * k > 0
  OBVIOUS
<1>3. ~(a < b) => (b - a) * k <= 0
  OBVIOUS
<1>4. QED  BY <1>1, <1>2, <1>3

\* Fractions are in the order of their cross products.
LEMMA LessIs ==
  ASSUME NEW f, NEW h, NEW n \in Int, NEW m \in Int, NEW d \in Nat \ {0},
         Equals(f, n, d), Equals(h, m, d)
  PROVE  Less(f, h) <=> n < m
<1> DEFINE fn == f.num  fd == f.den  hn == h.num  hd == h.den  k == fd * hd
           l == fn * hd  r == hn * fd
<1>1. /\ fn \in Int /\ fd \in Nat \ {0} /\ hn \in Int /\ hd \in Nat \ {0}
      /\ fn * d = n * fd /\ hn * d = m * hd
  BY EqualsType
<1> HIDE DEF fn, fd, hn, hd
<1>2. l * d = n * k /\ r * d = m * k
  <2>1. (fn * hd) * d = (fn * d) * hd /\ (hn * fd) * d = (hn * d) * fd
    BY <1>1
  <2>2. (n * fd) * hd = n * (fd * hd) /\ (m * hd) * fd = m * (fd * hd)
    BY <1>1
  <2>3. QED  BY <1>1, <2>1, <2>2
<1>3. k \in Nat \ {0} /\ l \in Int /\ r \in Int
  BY <1>1
<1>4. Less(f, h) <=> l < r
  BY DEF Less, l, r, fn, fd, hn, hd
<1> HIDE DEF k, l, r
<1>5. l < r <=> l * d < r * d
  BY <1>3, OrderCancels
<1>6. n < m <=> n * k < m * k
  BY <1>3, OrderCancels
<1>7. QED  BY <1>2, <1>4, <1>5, <1>6

\* Two fractions have a denominator in common.
LEMMA InCommon ==
  ASSUME NEW f \in Fractions, NEW h \in Fractions
  PROVE  \E n, m \in Int : \E d \in Nat \ {0} : Equals(f, n, d) /\ Equals(h, m, d)
<1> DEFINE fn == f.num  fd == f.den  hn == h.num  hd == h.den
<1>1. fn \in Int /\ fd \in Nat \ {0} /\ hn \in Int /\ hd \in Nat \ {0}
  BY DEF Fractions
<1> HIDE DEF fn, fd, hn, hd
<1>2. fn * (fd * hd) = (fn * hd) * fd /\ hn * (fd * hd) = (hn * fd) * hd
  BY <1>1
<1>3. fn * hd \in Int /\ hn * fd \in Int /\ fd * hd \in Nat \ {0}
  BY <1>1
<1>4. Equals(f, fn * hd, fd * hd) /\ Equals(h, hn * fd, fd * hd)
  BY <1>2 DEF Equals, fn, fd, hn, hd
<1>5. QED  BY <1>3, <1>4

LEMMA LessTotal ==
  ASSUME NEW f \in Fractions, NEW h \in Fractions
  PROVE  (Less(f, h) \/ Less(h, f) \/ f = h) /\ ~(Less(f, h) /\ Less(h, f)) /\ ~Less(f, f)
<1>1. PICK n \in Int, m \in Int, d \in Nat \ {0} : Equals(f, n, d) /\ Equals(h, m, d)
  BY InCommon
<1>2. (Less(f, h) <=> n < m) /\ (Less(h, f) <=> m < n) /\ (Less(f, f) <=> n < n)
  BY <1>1, LessIs
<1>3. n = m => f = h
  BY <1>1, SameValue
<1>4. QED  BY <1>2, <1>3

LEMMA Rescaled ==
  ASSUME NEW f, NEW n \in Int, NEW d \in Int, Equals(f, n, d), NEW k \in Int,
         NEW m \in Int, m = n * k, NEW e \in Int, e = d * k
  PROVE  Equals(f, m, e)
<1> DEFINE fn == f.num  fd == f.den
<1>1. fn \in Int /\ fd \in Int /\ fn * d = n * fd /\ f \in Fractions
  BY EqualsType
<1> HIDE DEF fn, fd
<1>2. fn * (d * k) = (fn * d) * k /\ (n * k) * fd = (n * fd) * k
  BY <1>1
<1>3. QED  BY <1>1, <1>2 DEF Equals, fn, fd

LEMMA LessOrder ==
  ASSUME NEW f \in Fractions, NEW g \in Fractions, NEW h \in Fractions,
         ~Less(g, f), ~Less(h, g)
  PROVE  ~Less(h, f)
<1> DEFINE fn == f.num  fd == f.den  gn == g.num  gd == g.den  hn == h.num  hd == h.den
           d == fd * gd * hd
<1>1. /\ fn \in Int /\ fd \in Nat \ {0} /\ gn \in Int /\ gd \in Nat \ {0} 
      /\ hn \in Int /\ hd \in Nat \ {0}
  BY DEF Fractions
<1>2. Equals(f, fn, fd) /\ Equals(g, gn, gd) /\ Equals(h, hn, hd)
  BY DEF Equals
<1> HIDE DEF fn, fd, gn, gd, hn, hd
<1>3. /\ fd * (gd * hd) = d /\ gd * (fd * hd) = d /\ hd * (fd * gd) = d
      /\ gd * hd \in Int /\ fd * hd \in Int /\ fd * gd \in Int /\ d \in Nat \ {0}
  BY <1>1
<1> DEFINE a == fn * (gd * hd)  b == gn * (fd * hd)  c == hn * (fd * gd)
<1>4. a \in Int /\ b \in Int /\ c \in Int
  BY <1>1
<1> HIDE DEF d
<1>5. Equals(f, a, d) /\ Equals(g, b, d) /\ Equals(h, c, d)
  <2> DEFINE x == gd * hd  y == fd * hd  z == fd * gd
  <2>1. /\ x \in Int /\ y \in Int /\ z \in Int
        /\ a = fn * x /\ b = gn * y /\ c = hn * z /\ d = fd * x /\ d = gd * y /\ d = hd * z
    BY <1>1, <1>3
  <2> HIDE DEF x, y, z, a, b, c
  <2>2. Equals(f, a, d)
    BY <1>1, <1>2, <1>3, <1>4, <2>1, Rescaled
  <2>3. Equals(g, b, d)
    BY <1>1, <1>2, <1>3, <1>4, <2>1, Rescaled
  <2>4. Equals(h, c, d)
    BY <1>1, <1>2, <1>3, <1>4, <2>1, Rescaled
  <2>5. QED  BY <2>2, <2>3, <2>4
<1> HIDE DEF a, b, c
<1>6. (Less(g, f) <=> b < a) /\ (Less(h, g) <=> c < b) /\ (Less(h, f) <=> c < a)
  BY <1>3, <1>4, <1>5, LessIs
<1>7. QED  BY <1>4, <1>6

LEMMA TimesIs ==
  ASSUME NEW a, NEW b, NEW n \in Int, NEW m \in Int, NEW d \in Nat \ {0}, NEW e \in Nat \ {0},
         Equals(a, n, d), Equals(b, m, e)
  PROVE  Equals(Times(a, b), n * m, d * e)
<1> DEFINE an == a.num  ad == a.den  bn == b.num  bd == b.den  f == Times(a, b)  fn == f.num  fd == f.den
           k == ad * bd  l == fn * (d * e)  r == (n * m) * fd
<1>1. /\ an \in Int /\ ad \in Nat \ {0} /\ bn \in Int /\ bd \in Nat \ {0}
      /\ an * d = n * ad /\ bn * e = m * bd
  BY EqualsType
<1>3. Equals(f, an * bn, ad * bd)
  <2>1. an * bn \in Int /\ ad * bd \in Int /\ ad * bd # 0
    <3> HIDE DEF an, ad, bn, bd
    <3>1. QED  BY <1>1
  <2>2. QED  BY <2>1, FracIs DEF Times
<1>4. f \in Fractions /\ fn \in Int /\ fd \in Int /\ fn * (ad * bd) = (an * bn) * fd
  BY <1>3 DEF Equals, Fractions
<1> HIDE DEF an, ad, bn, bd, fn, fd
<1>5. (fn * (d * e)) * (ad * bd) = ((n * m) * fd) * (ad * bd)
  <2>1. (fn * (d * e)) * (ad * bd) = (d * e) * (fn * (ad * bd))
    BY <1>1, <1>4
  <2>2. (d * e) * ((an * bn) * fd) = (an * d) * ((bn * e) * fd)
    BY <1>1, <1>4
  <2>3. (n * ad) * ((m * bd) * fd) = ((n * m) * fd) * (ad * bd)
    BY <1>1, <1>4
  <2>4. QED  BY <1>1, <1>4, <2>1, <2>2, <2>3
<1>6. k \in Int /\ k # 0 /\ l \in Int /\ r \in Int
  BY <1>1, <1>4
<1>7. l * k = r * k
  BY <1>5
<1> HIDE DEF l, r, k
<1>8. l = r
  BY <1>6, <1>7, Cancel
<1>9. fn * (d * e) = (n * m) * fd
  BY <1>8 DEF l, r
<1>10. QED  BY <1>4, <1>9 DEF Equals, fn, fd

LEMMA Over2Is ==
  ASSUME NEW a, NEW b, NEW n \in Int, NEW m \in Int, m # 0, NEW d \in Nat \ {0}, NEW e \in Nat \ {0},
         Equals(a, n, d), Equals(b, m, e)
  PROVE  Equals(Over2(a, b), n * e, d * m)
<1> DEFINE an == a.num  ad == a.den  bn == b.num  bd == b.den  f == Over2(a, b)  fn == f.num  fd == f.den
           k == ad * bn  l == fn * (d * m)  r == (n * e) * fd
<1>1. /\ an \in Int /\ ad \in Nat \ {0} /\ bn \in Int /\ bd \in Nat \ {0}
      /\ an * d = n * ad /\ bn * e = m * bd
  BY EqualsType
<1>2. bn # 0
  <2> SUFFICES ASSUME bn = 0 PROVE FALSE
    OBVIOUS
  <2> HIDE DEF bn, bd
  <2>1. m * bd = 0
    BY <1>1
  <2>2. m * bd # 0
    BY <1>1
  <2>3. QED  BY <2>1, <2>2
<1>3. Equals(f, an * bd, ad * bn)
  <2>1. an * bd \in Int /\ ad * bn \in Int /\ ad * bn # 0
    <3> HIDE DEF an, ad, bn, bd
    <3>1. QED  BY <1>1, <1>2
  <2>2. QED  BY <2>1, FracIs DEF Over2
<1>4. f \in Fractions /\ fn \in Int /\ fd \in Int /\ fn * (ad * bn) = (an * bd) * fd
  BY <1>3 DEF Equals, Fractions
<1> HIDE DEF an, ad, bn, bd, fn, fd
<1>5. ((fn * (d * m)) * (ad * bn)) * bd = (((n * e) * fd) * (ad * bn)) * bd
  <2>1. ((fn * (d * m)) * (ad * bn)) * bd = (d * (m * bd)) * (fn * (ad * bn))
    BY <1>1, <1>4
  <2>2. (d * (bn * e)) * ((an * bd) * fd) = (an * d) * ((bn * e) * (bd * fd))
    BY <1>1, <1>4
  <2>3. (n * ad) * ((bn * e) * (bd * fd)) = (((n * e) * fd) * (ad * bn)) * bd
    BY <1>1, <1>4
  <2>4. QED  BY <1>1, <1>4, <2>1, <2>2, <2>3
<1>6. k \in Int /\ k # 0 /\ l \in Int /\ r \in Int
  BY <1>1, <1>2, <1>4
<1>7. (l * k) * bd = (r * k) * bd
  BY <1>5
<1> HIDE DEF l, r, k
<1> DEFINE ll == l * k  rr == r * k
<1>8. ll \in Int /\ rr \in Int /\ ll * bd = rr * bd
  BY <1>6, <1>7
<1> HIDE DEF ll, rr
<1>9. ll = rr
  BY <1>1, <1>8, Cancel
<1>10. l = r
  BY <1>6, <1>9, Cancel DEF ll, rr
<1>11. fn * (d * m) = (n * e) * fd
  BY <1>10 DEF l, r
<1>12. QED  BY <1>4, <1>11 DEF Equals, fn, fd

-----------------------------------------------------------------------------
(* Ranks and scores *)

\* Two disjoint sets are as many as both together.
LEMMA JoinedCount ==
  ASSUME NEW S, IsFiniteSet(S), NEW T, IsFiniteSet(T), S \cap T = {}
  PROVE  IsFiniteSet(S \cup T) /\ Cardinality(S \cup T) = Cardinality(S) + Cardinality(T)
<1>1. Cardinality(S \cap T) = 0
  BY FS_EmptySet
<1>2. Cardinality(S) \in Nat /\ Cardinality(T) \in Nat
  BY FS_CardinalityType
<1>3. /\ IsFiniteSet(S \cup T)
      /\ Cardinality(S \cup T) = Cardinality(S) + Cardinality(T) - Cardinality(S \cap T)
  BY FS_Union
<1>4. QED  BY <1>1, <1>2, <1>3

\* What a value beats and what it ties with.
Beaten(rows, x) == {r \in rows : Less(r[3], x)}

Tied(rows, x) == {r \in rows : r[3] = x}

Points(rows, x) == 100 * Cardinality(Beaten(rows, x)) + 50 * Cardinality(Tied(rows, x))

\* Points are a number.
LEMMA PointsType ==
  ASSUME NEW rows, IsFiniteSet(rows), NEW x
  PROVE  /\ IsFiniteSet(Beaten(rows, x)) /\ Cardinality(Beaten(rows, x)) \in Nat
         /\ IsFiniteSet(Tied(rows, x)) /\ Cardinality(Tied(rows, x)) \in Nat
         /\ Points(rows, x) \in Nat
<1>1. IsFiniteSet(Beaten(rows, x)) /\ IsFiniteSet(Tied(rows, x))
  BY FS_Subset DEF Beaten, Tied
<1>2. Cardinality(Beaten(rows, x)) \in Nat /\ Cardinality(Tied(rows, x)) \in Nat
  BY <1>1, FS_CardinalityType
<1>3. QED  BY <1>1, <1>2 DEF Points

\* Every pair of rows brings 100 points, in one order or the other or shared.
LEMMA PointsSum ==
  ASSUME NEW D, IsFiniteSet(D), \A r \in D : r[3] \in Fractions
  PROVE  SumFunction([r \in D |-> Points(D, r[3])]) = 50 * (Cardinality(D) * Cardinality(D))
<1> DEFINE total(s) == SumFunction([r \in s |-> Points(s, r[3])])
           G == {s \in SUBSET D : total(s) = 50 * (Cardinality(s) * Cardinality(s))}
<1>1. {} \in G
  <2> DEFINE e == [r \in {} |-> Points({}, r[3])]
  <2>1. IsFiniteSet({}) /\ e \in [{} -> Int] /\ Cardinality({}) = 0
    BY FS_EmptySet
  <2>2. SumFunction(e) = 0
    <3> HIDE DEF e
    <3>1. QED  BY <2>1, SumSplits
  <2>3. QED  BY <2>1, <2>2
<1>2. ASSUME NEW s \in SUBSET D, s # {}, \A x \in s : s \ {x} \in G PROVE s \in G
  <2>1. PICK m \in s : TRUE
    BY <1>2
  <2> DEFINE r == s \ {m}
             n == Cardinality(r)
             f == [x \in s |-> Points(s, x[3])]
             g == [x \in r |-> Points(r, x[3])]
             best == {x \in r : Less(m[3], x[3])}
             tied == Tied(r, m[3])
             i == [x \in r |-> IF x \in best THEN 100 ELSE 0]
             j == [x \in r |-> IF x \in tied THEN 50 ELSE 0]
             ij == [x \in r |-> i[x] + j[x]]
             rest == [x \in r |-> g[x] + ij[x]]
  <2>2. IsFiniteSet(s) /\ IsFiniteSet(r) /\ n \in Nat /\ Cardinality(s) = n + 1
    BY <2>1, FS_Subset, FS_RemoveElement, FS_CardinalityType
  <2>3. \A x \in s : x[3] \in Fractions
    OBVIOUS
  <2>4. best \in SUBSET r /\ tied \in SUBSET r
    BY DEF Tied
  <2>5. \A x \in s : Points(s, x[3]) \in Int /\ Points(r, x[3]) \in Int
    BY <2>2, PointsType
  <2>6. f \in [s -> Int] /\ g \in [r -> Int] /\ i \in [r -> Int] /\ j \in [r -> Int]
    <3>1. f \in [s -> Int] /\ g \in [r -> Int]
      BY <2>5
    <3> HIDE DEF best, tied
    <3>2. i \in [r -> Int] /\ j \in [r -> Int]
      OBVIOUS
    <3>3. QED  BY <3>1, <3>2
  <2>7. \A x \in r : /\ g[x] = Points(r, x[3]) /\ f[x] = Points(s, x[3])
                     /\ i[x] = IF x \in best THEN 100 ELSE 0
                     /\ j[x] = IF x \in tied THEN 50 ELSE 0
    OBVIOUS
  <2>8. f[m] = Points(s, m[3])
    BY <2>1
  <2>9. total(r) = SumFunction(g) /\ total(s) = SumFunction(f)
    OBVIOUS
  <2>10. SumFunction(g) = 50 * (n * n)
    BY <1>2, <2>1, <2>9
  <2> HIDE DEF f, g, i, j
  <2>11. ij \in [r -> Int] /\ \A x \in r : ij[x] = i[x] + j[x]
    BY <2>6
  <2> HIDE DEF ij
  <2>12. rest \in [r -> Int] /\ \A x \in r : rest[x] = g[x] + ij[x]
    BY <2>6, <2>11
  <2> HIDE DEF rest
  <2>13. SumFunction(ij) = SumFunction(i) + SumFunction(j)
    BY <2>2, <2>6, <2>11, SumPlus
  <2>14. SumFunction(rest) = SumFunction(g) + SumFunction(ij)
    BY <2>2, <2>6, <2>11, <2>12, SumPlus
  <2>15. SumFunction(i) = 100 * Cardinality(best)
    <3> HIDE DEF best, tied
    <3>1. Marks(i, r, best, 100)
      BY <2>4, <2>6, <2>7 DEF Marks
    <3> HIDE DEF r
    <3>2. QED  BY <2>2, <3>1, SumCount
  <2>16. SumFunction(j) = 50 * Cardinality(tied)
    <3> HIDE DEF best, tied
    <3>1. Marks(j, r, tied, 50)
      BY <2>4, <2>6, <2>7 DEF Marks
    <3> HIDE DEF r
    <3>2. QED  BY <2>2, <3>1, SumCount
  <2>17. ASSUME NEW x \in r PROVE f[x] = rest[x]
    <3> DEFINE b == Beaten(r, x[3])  t == Tied(r, x[3])
    <3>1. f[x] = 100 * Cardinality(Beaten(s, x[3])) + 50 * Cardinality(Tied(s, x[3]))
      BY <2>7 DEF Points
    <3>2. g[x] = 100 * Cardinality(b) + 50 * Cardinality(t)
      BY <2>7 DEF Points
    <3>3. IsFiniteSet(b) /\ Cardinality(b) \in Nat /\ IsFiniteSet(t) /\ Cardinality(t) \in Nat
      BY <2>2, PointsType
    <3>4. m[3] \in Fractions /\ x[3] \in Fractions /\ m \notin b /\ m \notin t
      BY <2>1, <2>3 DEF Beaten, Tied
    <3>5. CASE x \in best
      <4>1. Less(m[3], x[3]) /\ m[3] # x[3]
        BY <3>4, <3>5, LessTotal
      <4>2. Beaten(s, x[3]) = b \cup {m} /\ Tied(s, x[3]) = t /\ x \notin tied
        BY <2>1, <4>1 DEF Beaten, Tied
      <4> HIDE DEF b, t
      <4>3. Cardinality(b \cup {m}) = Cardinality(b) + 1
        BY <3>3, <3>4, FS_AddElement
      <4>4. i[x] = 100 /\ j[x] = 0
        BY <2>7, <3>5, <4>2
      <4>5. QED  BY <2>11, <2>12, <3>1, <3>2, <3>3, <4>2, <4>3, <4>4
    <3>6. CASE x \in tied
      <4>1. ~Less(m[3], x[3]) /\ m[3] = x[3]
        BY <3>4, <3>6, LessTotal DEF Tied
      <4>2. Beaten(s, x[3]) = b /\ Tied(s, x[3]) = t \cup {m} /\ x \notin best
        BY <2>1, <4>1 DEF Beaten, Tied
      <4> HIDE DEF b, t
      <4>3. Cardinality(t \cup {m}) = Cardinality(t) + 1
        BY <3>3, <3>4, FS_AddElement
      <4>4. i[x] = 0 /\ j[x] = 50
        BY <2>7, <3>6, <4>2
      <4>5. QED  BY <2>11, <2>12, <3>1, <3>2, <3>3, <4>2, <4>3, <4>4
    <3>7. CASE x \notin best /\ x \notin tied
      <4>1. ~Less(m[3], x[3]) /\ m[3] # x[3]
        BY <3>7 DEF Tied
      <4>2. Beaten(s, x[3]) = b /\ Tied(s, x[3]) = t
        BY <2>1, <4>1 DEF Beaten, Tied
      <4> HIDE DEF b, t
      <4>3. i[x] = 0 /\ j[x] = 0
        BY <2>7, <3>7
      <4>4. QED  BY <2>11, <2>12, <3>1, <3>2, <3>3, <4>2, <4>3
    <3>8. QED  BY <3>5, <3>6, <3>7
  <2>18. Restrict(f, r) = rest
    <3>1. rest = [x \in r |-> rest[x]]
      BY <2>12
    <3>2. QED  BY <2>17, <3>1 DEF Restrict
  <2>19. SumFunction(f) = f[m] + SumFunction(Restrict(f, r))
    BY <2>1, <2>2, <2>6, SumSplits
  <2>20. f[m] = 100 * Cardinality(Beaten(r, m[3])) + 50 * (Cardinality(tied) + 1)
    <3>1. Beaten(s, m[3]) = Beaten(r, m[3]) /\ Tied(s, m[3]) = tied \cup {m} /\ m \notin tied
      <4>1. ~Less(m[3], m[3])
        BY <2>1, <2>3, LessTotal
      <4>2. QED  BY <2>1, <4>1 DEF Beaten, Tied
    <3>2. Cardinality(tied \cup {m}) = Cardinality(tied) + 1
      BY <2>2, <3>1, PointsType, FS_AddElement
    <3>3. QED  BY <2>8, <3>1, <3>2 DEF Points
  <2>21. Cardinality(Beaten(r, m[3])) + Cardinality(tied) + Cardinality(best) = n
    <3> DEFINE b == Beaten(r, m[3])
    <3>1. IsFiniteSet(b) /\ IsFiniteSet(tied) /\ IsFiniteSet(best)
      BY <2>2, <2>4, PointsType, FS_Subset
    <3>2. b \cup tied \cup best = r /\ b \cap tied = {} /\ (b \cup tied) \cap best = {}
      <4>1. \A x \in r : /\ Less(x[3], m[3]) \/ x[3] = m[3] \/ Less(m[3], x[3])
                         /\ ~(Less(x[3], m[3]) /\ Less(m[3], x[3]))
                         /\ x[3] = m[3] => ~Less(x[3], m[3]) /\ ~Less(m[3], x[3])
        BY <2>1, <2>3, LessTotal
      <4>2. QED  BY <4>1 DEF Beaten, Tied
    <3> HIDE DEF b, best, tied
    <3>3. IsFiniteSet(b \cup tied) /\ Cardinality(b \cup tied) = Cardinality(b) + Cardinality(tied)
      BY <3>1, <3>2, JoinedCount
    <3>4. Cardinality((b \cup tied) \cup best) = Cardinality(b \cup tied) + Cardinality(best)
      BY <3>1, <3>2, <3>3, JoinedCount
    <3>5. Cardinality(b) \in Nat /\ Cardinality(tied) \in Nat /\ Cardinality(best) \in Nat
      BY <3>1, FS_CardinalityType
    <3>6. Cardinality((b \cup tied) \cup best) = Cardinality(b) + Cardinality(tied) + Cardinality(best)
      BY <3>3, <3>4, <3>5
    <3>7. (b \cup tied) \cup best = r
      BY <3>2
    <3>8. QED  BY <3>6, <3>7 DEF b
  <2> DEFINE cb == Cardinality(Beaten(r, m[3]))  ct == Cardinality(tied)  cg == Cardinality(best)
  <2>22. cb \in Nat /\ ct \in Nat /\ cg \in Nat
    BY <2>2, <2>4, PointsType, FS_Subset, FS_CardinalityType
  <2>23. total(s) = (100 * cb + 50 * (ct + 1)) + (50 * (n * n) + (100 * cg + 50 * ct))
    BY <2>9, <2>10, <2>13, <2>14, <2>15, <2>16, <2>18, <2>19, <2>20
  <2> HIDE DEF cb, ct, cg, n
  <2>24. cb + ct + cg = n
    BY <2>21 DEF cb, ct, cg, n
  <2>25. 50 * ((n + 1) * (n + 1)) = 50 * (n * n) + 100 * n + 50 /\ n * n \in Int
    BY <2>2
  <2>26. (100 * cb + 50 * (ct + 1)) + (50 * (n * n) + (100 * cg + 50 * ct)) = 50 * ((n + 1) * (n + 1))
    <3> DEFINE sq == n * n  all == 50 * ((n + 1) * (n + 1))
    <3>1. all = 50 * sq + 100 * n + 50 /\ sq \in Int
      BY <2>25
    <3> HIDE DEF sq, all
    <3>2. (100 * cb + 50 * (ct + 1)) + (50 * sq + (100 * cg + 50 * ct)) = all
      BY <2>2, <2>22, <2>24, <3>1
    <3>3. QED  BY <3>2 DEF sq, all
  <2>27. total(s) = 50 * (Cardinality(s) * Cardinality(s))
    BY <2>2, <2>23, <2>26
  <2>28. QED  BY <2>27
<1> HIDE DEF G
<1>3. SUBSET D \subseteq G
  BY <1>1, <1>2, Growing
<1>4. D \in G
  BY <1>3
<1>5. QED  BY <1>4 DEF G

\* Sums of fractions, an element at a time.
Accumulates(it, D, w) ==
  it = [s \in SUBSET D |-> IF s = {} THEN Zero ELSE Plus(it[s \ {Pick(s)}], w[Pick(s)])]

LEMMA PlusType == ASSUME NEW f \in Fractions, NEW h \in Fractions PROVE Plus(f, h) \in Fractions
<1>1. PICK n \in Int, m \in Int, d \in Nat \ {0} : Equals(f, n, d) /\ Equals(h, m, d)
  BY InCommon
<1>2. Equals(Plus(f, h), n + m, d)
  BY <1>1, PlusIs
<1>3. QED  BY <1>2 DEF Equals

LEMMA AccumulatesExists ==
  ASSUME NEW D, IsFiniteSet(D), NEW w \in [D -> Fractions]
  PROVE  \E it : Accumulates(it, D, w)
<1> DEFINE g == [p \in D \X Fractions |-> Plus(p[2], w[p[1]])]
<1>1. g \in [D \X Fractions -> Fractions] /\ Zero \in Fractions
  BY PlusType, WholeIs DEF Zero
<1>2. \A x \in D, v \in Fractions : g[<<x, v>>] = Plus(v, w[x])
  OBVIOUS
<1> HIDE DEF g
<1>3. PICK h : Recursion(h, g, Zero, D, Fractions)
  BY <1>1, FoldExists
<1>4. ASSUME NEW s \in SUBSET D, s # {} PROVE h[s] = Plus(h[s \ {Pick(s)}], w[Pick(s)])
  <2>1. Pick(s) \in s
    BY <1>4 DEF Pick
  <2>2. h[s] = g[<<Pick(s), h[s \ {Pick(s)}]>>] /\ h[s \ {Pick(s)}] \in Fractions
    BY <1>3, <1>4, <2>1 DEF Recursion
  <2>3. QED  BY <1>2, <2>1, <2>2
<1>5. h = [s \in SUBSET D |-> h[s]] /\ h[{}] = Zero
  BY <1>3 DEF Recursion
<1>6. Accumulates(h, D, w)
  BY <1>4, <1>5 DEF Accumulates
<1>7. QED  BY <1>6

\* Over a common denominator the numerators add up.
LEMMA AccumulatesSum ==
  ASSUME NEW D, IsFiniteSet(D), NEW w \in [D -> Fractions], NEW it, Accumulates(it, D, w),
         NEW c \in Nat \ {0}, NEW k \in [D -> Int], \A x \in D : Equals(w[x], k[x], c)
  PROVE  Equals(it[D], SumFunction(k), c)
<1>1. PICK h : Adds(k, D, h) /\ h[D] = SumFunction(k)
  BY SumHas
<1> DEFINE G == {s \in SUBSET D : Equals(it[s], h[s], c)}
<1>2. {} \in G
  <2>1. it[{}] = Whole(0) /\ h[{}] = 0
    BY <1>1 DEF Accumulates, Adds, Zero
  <2>2. Equals(Whole(0), 0 * c, c) /\ 0 * c = 0
    BY WholeEquals
  <2>3. QED  BY <2>1, <2>2
<1>3. ASSUME NEW s \in SUBSET D, s # {}, \A x \in s : s \ {x} \in G PROVE s \in G
  <2> DEFINE z == Pick(s)  r == s \ {z}
  <2>1. z \in s
    BY <1>3 DEF Pick
  <2>2. it[s] = Plus(it[r], w[z])
    BY <1>3 DEF Accumulates
  <2>3. Equals(it[r], h[r], c)
    BY <1>3, <2>1
  <2>4. h[s] = k[z] + h[r] /\ h[r] \in Int
    BY <1>1, <2>1 DEF Adds
  <2> HIDE DEF z, r
  <2>5. k[z] \in Int /\ Equals(w[z], k[z], c)
    BY <2>1
  <2>6. Equals(Plus(it[r], w[z]), h[r] + k[z], c)
    BY <2>3, <2>4, <2>5, PlusIs
  <2>7. h[s] = h[r] + k[z]
    BY <2>4, <2>5
  <2>8. QED  BY <2>2, <2>6, <2>7
<1> HIDE DEF G
<1>4. SUBSET D \subseteq G
  BY <1>2, <1>3, Growing
<1>5. D \in G
  BY <1>4
<1>6. QED  BY <1>1, <1>5 DEF G

\* So does what TotalOf sums.
LEMMA TotalSum ==
  ASSUME NEW D, IsFiniteSet(D), NEW w \in [D -> Fractions],
         NEW c \in Nat \ {0}, NEW k \in [D -> Int], \A x \in D : Equals(w[x], k[x], c)
  PROVE  Equals(TotalOf(w), SumFunction(k), c)
<1> DEFINE P(h) == h = [s \in SUBSET D |-> IF s = {} THEN Zero
                     ELSE Plus(h[s \ {CHOOSE x \in s : TRUE}], w[CHOOSE x \in s : TRUE])]
           it == CHOOSE h : P(h)
<1>1. TotalOf(w) = it[D]
  BY DEF TotalOf, FoldSet, MapThenFoldSet
<1>2. ASSUME NEW h PROVE Accumulates(h, D, w) <=> P(h)
  BY DEF Accumulates, Pick
<1> HIDE DEF P
<1>3. \E h : P(h)
  BY <1>2, AccumulatesExists
<1>4. P(it)
  BY <1>3
<1> HIDE DEF it
<1>5. Accumulates(it, D, w)
  BY <1>2, <1>4
<1>6. Equals(it[D], SumFunction(k), c)
  BY <1>5, AccumulatesSum
<1>7. QED  BY <1>1, <1>6

LEMMA PointsOrder ==
  ASSUME NEW D, IsFiniteSet(D), \A q \in D : q[3] \in Fractions, NEW r \in D, NEW t \in D,
         Less(r[3], t[3])
  PROVE  Points(D, r[3]) < Points(D, t[3])
<1> DEFINE b == Beaten(D, r[3])  e == Tied(D, r[3])  c == Beaten(D, t[3])  u == Tied(D, t[3])
<1>1. b \cup e \subseteq c
  <2> SUFFICES ASSUME NEW q \in D, Less(q[3], r[3]) \/ q[3] = r[3], ~Less(q[3], t[3]) PROVE FALSE
    BY DEF Beaten, Tied
  <2>1. q[3] \in Fractions /\ r[3] \in Fractions /\ t[3] \in Fractions
    OBVIOUS
  <2>2. ~Less(r[3], q[3])
    BY <2>1, LessTotal
  <2>3. ~Less(r[3], t[3])
    BY <2>1, <2>2, LessOrder
  <2>4. QED  BY <2>3
<1>2. b \cap e = {} /\ r \in e
  <2>1. \A q \in D : q[3] = r[3] => ~Less(q[3], r[3])
    BY LessTotal
  <2>2. QED  BY <2>1 DEF Beaten, Tied
<1>3. /\ IsFiniteSet(b) /\ IsFiniteSet(e) /\ IsFiniteSet(c) /\ IsFiniteSet(u)
      /\ Cardinality(b) \in Nat /\ Cardinality(e) \in Nat /\ Cardinality(c) \in Nat
      /\ Cardinality(u) \in Nat
  BY PointsType
<1>4. Points(D, r[3]) = 100 * Cardinality(b) + 50 * Cardinality(e)
  BY DEF Points
<1>5. Points(D, t[3]) = 100 * Cardinality(c) + 50 * Cardinality(u)
  BY DEF Points
<1> HIDE DEF b, e, c, u
<1>6. Cardinality(b \cup e) = Cardinality(b) + Cardinality(e)
  BY <1>2, <1>3, JoinedCount
<1>7. Cardinality(b \cup e) <= Cardinality(c)
  BY <1>1, <1>3, FS_Subset
<1>8. Cardinality(e) > 0
  BY <1>2, <1>3, FS_EmptySet
<1>9. QED  BY <1>3, <1>4, <1>5, <1>6, <1>7, <1>8

\* The numerator of a rank, over the number of rows.
RankPoints(D, name, r) ==
  IF name \in Inverse24 THEN 100 * Cardinality(D) - Points(D, r[3]) ELSE Points(D, r[3])

LEMMA RankedIs ==
  ASSUME NEW raw, NEW name, NEW D, D = {q \in raw : q[2] = name}, IsFiniteSet(D),
         \A q \in D : q[3] \in Fractions, NEW r \in D
  PROVE  /\ Cardinality(D) \in Nat \ {0} /\ Points(D, r[3]) \in Int
         /\ RankPoints(D, name, r) \in Int
         /\ Equals(Ranked(raw, r), RankPoints(D, name, r), Cardinality(D))
<1> DEFINE c == Cardinality(D)  p == Points(D, r[3])  pct == RankPercentile(r[3], D)
<1>1. c \in Nat \ {0} /\ p \in Int
  BY FS_CardinalityType, FS_EmptySet, PointsType
<1>2. pct = Frac(p, c)
  BY DEF RankPercentile, Points, Beaten, Tied
<1>3. r[2] = name /\ {q \in raw : q[2] = r[2]} = D
  OBVIOUS
<1>4. Ranked(raw, r) = IF name \in Inverse24 THEN Minus(Whole(100), pct) ELSE pct
  BY <1>3 DEF Ranked
<1> HIDE DEF p, pct, c
<1>5. Equals(pct, p, c)
  BY <1>1, <1>2, FracIs
<1>6. Equals(Whole(100), 100 * c, c) /\ 100 * c \in Int
  BY <1>1, WholeEquals
<1>7. Equals(Minus(Whole(100), pct), 100 * c - p, c)
  <2> DEFINE m == 100 * c
  <2>1. m \in Int /\ Equals(Whole(100), m, c)
    BY <1>6
  <2> HIDE DEF m
  <2>2. Equals(Minus(Whole(100), pct), m - p, c)
    BY <1>1, <1>5, <2>1, MinusIs
  <2>3. QED  BY <2>2 DEF m
<1>8. 100 * c - p \in Int
  BY <1>1
<1>9. RankPoints(D, name, r) = IF name \in Inverse24 THEN 100 * c - p ELSE p
  BY DEF RankPoints, c, p
<1>10. CASE name \in Inverse24
  BY <1>1, <1>4, <1>7, <1>8, <1>9, <1>10 DEF c, p
<1>11. CASE name \notin Inverse24
  BY <1>1, <1>4, <1>5, <1>9, <1>11 DEF c, p
<1>12. QED  BY <1>10, <1>11

\* What a universe is told of its ranks: each between 0 and 100, ordered as the values are,
\* and 50 on average (percentile_ranks).
LEMMA RanksFair ==
  ASSUME NEW raw, IsFiniteSet(raw), \A q \in raw : q[3] \in Fractions
  PROVE  RanksAreFair(raw)
<1> SUFFICES ASSUME NEW name \in {r[2] : r \in raw}
    PROVE LET rows == {r \in raw : r[2] = name}
              Worse(r, t) == IF name \in Inverse24 THEN Less(t[3], r[3]) ELSE Less(r[3], t[3])
          IN /\ \A r, t \in rows : Worse(r, t) <=> Less(Ranked(raw, r), Ranked(raw, t))
             /\ TotalOf([r \in rows |-> Ranked(raw, r)]) = Whole(50 * Cardinality(rows))
  BY DEF RanksAreFair
<1> DEFINE D == {r \in raw : r[2] = name}
           Worse(r, t) == IF name \in Inverse24 THEN Less(t[3], r[3]) ELSE Less(r[3], t[3])
           c == Cardinality(D)
<1>1. IsFiniteSet(D) /\ \A q \in D : q[3] \in Fractions
  BY FS_Subset
<1>2. ASSUME NEW r \in D
      PROVE  /\ c \in Nat \ {0} /\ Points(D, r[3]) \in Int
             /\ RankPoints(D, name, r) \in Int
             /\ Equals(Ranked(raw, r), RankPoints(D, name, r), c)
  BY <1>1, RankedIs
<1>3. D # {} /\ c \in Nat \ {0}
  BY <1>2
<1>4. ASSUME NEW r \in D, NEW t \in D
      PROVE  Worse(r, t) <=> Less(Ranked(raw, r), Ranked(raw, t))
  <2> DEFINE p == RankPoints(D, name, r)  q == RankPoints(D, name, t)
             a == Points(D, r[3])  b == Points(D, t[3])
  <2>1. p \in Int /\ q \in Int /\ a \in Int /\ b \in Int
    BY <1>2
  <2>2. Less(Ranked(raw, r), Ranked(raw, t)) <=> p < q
    BY <1>2, <1>3, LessIs
  <2>3. Less(r[3], t[3]) => a < b
    BY <1>1, PointsOrder
  <2>4. Less(t[3], r[3]) => b < a
    BY <1>1, PointsOrder
  <2>5. r[3] = t[3] => a = b
    OBVIOUS
  <2>6. Less(r[3], t[3]) \/ Less(t[3], r[3]) \/ r[3] = t[3]
    BY <1>1, LessTotal
  <2>7. (Less(r[3], t[3]) <=> a < b) /\ (Less(t[3], r[3]) <=> b < a)
    <3> HIDE DEF a, b
    <3>1. QED  BY <2>1, <2>3, <2>4, <2>5, <2>6
  <2>8. CASE name \in Inverse24
    <3>1. p = 100 * c - a /\ q = 100 * c - b
      BY <2>8 DEF RankPoints
    <3>2. 100 * c \in Int
      BY <1>3
    <3>3. Worse(r, t) <=> Less(t[3], r[3])
      BY <2>8
    <3> HIDE DEF p, q, a, b, c
    <3>4. p < q <=> b < a
      BY <2>1, <3>1, <3>2
    <3>5. QED  BY <2>2, <2>7, <3>3, <3>4
  <2>9. CASE name \notin Inverse24
    <3>1. p = a /\ q = b
      BY <2>9 DEF RankPoints
    <3>2. QED  BY <2>2, <2>7, <2>9, <3>1
  <2>10. QED  BY <2>8, <2>9
<1>5. TotalOf([r \in D |-> Ranked(raw, r)]) = Whole(50 * c)
  <2> DEFINE w == [r \in D |-> Ranked(raw, r)]
             k == [r \in D |-> RankPoints(D, name, r)]
             z == [r \in D |-> Points(D, r[3])]
  <2>1. TotalOf([r \in D |-> Ranked(raw, r)]) = TotalOf(w)
    OBVIOUS
  <2>2. w \in [D -> Fractions] /\ \A x \in D : w[x] = Ranked(raw, x)
    BY <1>2 DEF Equals
  <2> HIDE DEF w
  <2>7. k \in [D -> Int] /\ z \in [D -> Int] /\ \A x \in D : Equals(w[x], k[x], c)
    BY <1>2, <2>2
  <2>8. Equals(TotalOf(w), SumFunction(k), c)
    <3> HIDE DEF k, c, D
    <3>1. QED  BY <1>1, <1>3, <2>2, <2>7, TotalSum
  <2>9. SumFunction(z) = 50 * (c * c)
    BY <1>1, PointsSum
  <2>10. SumFunction(k) = 50 * (c * c)
    <3>1. CASE name \notin Inverse24
      <4>1. k = z
        BY <3>1 DEF RankPoints
      <4>2. QED  BY <2>9, <4>1
    <3>2. CASE name \in Inverse24
      <4> DEFINE f == [r \in D |-> 100 * c]
      <4> HIDE DEF c, D
      <4>0. 100 * c \in Int
        BY <1>3
      <4>1. f \in [D -> Int] /\ Marks(f, D, D, 100 * c)
        BY <4>0 DEF Marks
      <4>2. \A x \in D : f[x] = k[x] + z[x]
        <5> SUFFICES ASSUME NEW x \in D PROVE f[x] = k[x] + z[x]
          OBVIOUS
        <5>1. Points(D, x[3]) \in Int /\ 100 * c \in Int
          BY <1>2, <4>0
        <5>2. k[x] = 100 * c - Points(D, x[3]) /\ z[x] = Points(D, x[3]) /\ f[x] = 100 * c
          BY <3>2 DEF RankPoints, c
        <5> HIDE DEF k, z, f
        <5>3. QED  BY <5>1, <5>2
      <4> HIDE DEF f, k, z
      <4>3. SumFunction(f) = SumFunction(k) + SumFunction(z)
        BY <1>1, <2>7, <4>1, <4>2, SumPlus
      <4>4. SumFunction(f) = (100 * c) * c
        <5>1. SumFunction(f) = (100 * c) * Cardinality(D)
          BY <1>1, <4>1, SumCount
        <5>2. QED  BY <5>1 DEF c
      <4>5. SumFunction(k) \in Int
        BY <1>1, <2>7, SumSplits
      <4>6. (100 * c) * c = 50 * (c * c) + 50 * (c * c) /\ 50 * (c * c) \in Int
        BY <1>3
      <4> DEFINE a == 50 * (c * c)  y == (100 * c) * c
      <4>7. y = a + a /\ a \in Int /\ y = SumFunction(k) + a
        BY <2>9, <4>3, <4>4, <4>6
      <4> HIDE DEF a, y
      <4>8. SumFunction(k) = a
        BY <4>5, <4>7
      <4>9. QED  BY <4>8 DEF a
    <3>3. QED  BY <3>1, <3>2
  <2>11. Equals(Whole(50 * c), 50 * (c * c), c)
    <3> HIDE DEF c
    <3>1. (50 * c) * c = 50 * (c * c) /\ 50 * c \in Int
      BY <1>3
    <3>2. QED  BY <1>3, <3>1, WholeEquals
  <2>12. TotalOf(w) = Whole(50 * c)
    <3> DEFINE n == 50 * (c * c)
    <3>1. n \in Int /\ Equals(TotalOf(w), n, c) /\ Equals(Whole(50 * c), n, c)
      BY <1>3, <2>8, <2>10, <2>11
    <3> HIDE DEF n, c, D
    <3>2. QED  BY <1>3, <3>1, SameValue
  <2>13. QED  BY <2>1, <2>12
<1>6. QED  BY <1>4, <1>5

\* Finitely many fractions have a denominator in common.
LEMMA CommonDenominator ==
  ASSUME NEW D, IsFiniteSet(D), NEW v \in [D -> Fractions]
  PROVE  \E c \in Nat \ {0} : \E k \in [D -> Int] : \A x \in D : Equals(v[x], k[x], c)
<1> DEFINE G == {s \in SUBSET D : \E c \in Nat \ {0} : \E k \in [s -> Int] :
                                     \A x \in s : Equals(v[x], k[x], c)}
<1>1. {} \in G
  <2>1. 1 \in Nat \ {0} /\ [x \in {} |-> 0] \in [{} -> Int]
    OBVIOUS
  <2>2. QED  BY <2>1
<1>2. ASSUME NEW s \in SUBSET D, s # {}, \A x \in s : s \ {x} \in G PROVE s \in G
  <2>1. PICK z \in s : TRUE
    BY <1>2
  <2> DEFINE r == s \ {z}  n == v[z].num  d == v[z].den
  <2>2. PICK c \in Nat \ {0} : \E k \in [r -> Int] : \A x \in r : Equals(v[x], k[x], c)
    BY <1>2
  <2>3. PICK k \in [r -> Int] : \A x \in r : Equals(v[x], k[x], c)
    BY <2>2
  <2>4. n \in Int /\ d \in Nat \ {0} /\ Equals(v[z], n, d)
    BY <2>1, Itself DEF Fractions
  <2> HIDE DEF n, d
  <2> DEFINE e == c * d
             l == [x \in s |-> IF x = z THEN n * c ELSE k[x] * d]
  <2>5. e \in Nat \ {0} /\ n * c \in Int /\ e = d * c
    BY <2>4
  <2>6. \A x \in r : k[x] * d \in Int
    BY <2>4
  <2>7. l \in [s -> Int]
    BY <2>5, <2>6
  <2>8. ASSUME NEW x \in s PROVE Equals(v[x], l[x], e)
    <3>1. CASE x = z
      <4>1. l[x] = n * c
        BY <3>1
      <4> HIDE DEF l, e
      <4>2. QED  BY <2>4, <2>5, <3>1, <4>1, Rescaled
    <3>2. CASE x # z
      <4>1. l[x] = k[x] * d /\ x \in r /\ l[x] \in Int /\ k[x] \in Int
        BY <2>7, <3>2
      <4>2. Equals(v[x], k[x], c)
        BY <2>3, <4>1
      <4>3. e \in Int /\ e = c * d /\ d \in Int /\ c \in Int
        BY <2>4, <2>5
      <4> HIDE DEF l, e, r
      <4>4. QED  BY <4>1, <4>2, <4>3, Rescaled
    <3>3. QED  BY <3>1, <3>2
  <2> HIDE DEF l, e
  <2>9. QED  BY <2>5, <2>7, <2>8
<1> HIDE DEF G
<1>3. SUBSET D \subseteq G
  BY <1>1, <1>2, Growing
<1>4. D \in G
  BY <1>3
<1>5. QED  BY <1>4 DEF G

\* MapThenSumSet of a weight is the sum of the function of the weights.
LEMMA WeightsAddUp ==
  ASSUME NEW p, NEW D, IsFiniteSet(D), NEW f \in [D -> Int], \A gs \in D : f[gs] = Weight(p, gs)
  PROVE  MapThenSumSet(LAMBDA gs : Weight(p, gs), D) = SumFunction(f)
<1>1. PICK h : Adds(f, D, h) /\ h[D] = SumFunction(f)
  BY SumHas
<1> DEFINE P(k) == k = [s \in SUBSET D |-> IF s = {} THEN 0
                      ELSE Weight(p, CHOOSE x \in s : TRUE) + k[s \ {CHOOSE x \in s : TRUE}]]
           it == CHOOSE k : P(k)
<1>2. MapThenSumSet(LAMBDA gs : Weight(p, gs), D) = it[D]
  BY DEF MapThenSumSet, MapThenFoldSet
<1>3. ASSUME NEW s \in SUBSET D, s # {}
      PROVE  h[s] = Weight(p, CHOOSE x \in s : TRUE) + h[s \ {CHOOSE x \in s : TRUE}]
  <2> DEFINE z == CHOOSE x \in s : TRUE
  <2>1. z \in s
    BY <1>3
  <2> HIDE DEF z
  <2>2. h[s] = f[z] + h[s \ {z}] /\ f[z] = Weight(p, z)
    BY <1>1, <2>1 DEF Adds
  <2>3. h[s] = Weight(p, z) + h[s \ {z}]
    BY <2>2
  <2>4. QED  BY <2>3 DEF z
<1>4. h = [s \in SUBSET D |-> h[s]] /\ h[{}] = 0
  BY <1>1 DEF Adds
<1>5. P(h)
  BY <1>3, <1>4, ZenonT(40)
<1>6. P(it)
  BY <1>5
<1> HIDE DEF it
<1> DEFINE G == {s \in SUBSET D : it[s] = h[s]}
<1>7. {} \in G
  BY <1>4, <1>6
<1>8. ASSUME NEW s \in SUBSET D, s # {}, \A x \in s : s \ {x} \in G PROVE s \in G
  <2> DEFINE z == CHOOSE x \in s : TRUE
  <2>1. it[s] = Weight(p, z) + it[s \ {z}] /\ h[s] = Weight(p, z) + h[s \ {z}]
    BY <1>3, <1>6, <1>8
  <2>2. z \in s
    BY <1>8
  <2> HIDE DEF z
  <2>3. QED  BY <1>8, <2>1, <2>2
<1> HIDE DEF G
<1>9. SUBSET D \subseteq G
  BY <1>7, <1>8, Growing
<1>10. D \in G
  BY <1>9
<1>11. QED  BY <1>1, <1>2, <1>10 DEF G

LEMMA WeightType ==
  ASSUME NEW p \in Profiles, NEW gs, gs[1] \in Groups
  PROVE  Weight(p, gs) \in 0 .. 100
BY Loaded DEF ValidConfig, Weight, MapThenSumSet, MapThenFoldSet

\* What the overall score is: the weighted sum of the groups over the sum of the weights.
LEMMA OverallIs ==
  ASSUME NEW p \in Profiles, NEW groups, IsFiniteSet(groups),
         \A gs \in groups : gs[1] \in Groups /\ gs[2] \in Fractions,
         NEW D, D = Contributing(groups, p), D # {},
         NEW c \in Nat \ {0}, NEW k \in [D -> Int], \A gs \in D : Equals(gs[2], k[gs], c)
  PROVE  \E t \in Nat \ {0}, n \in Int :
           /\ Equals(Overall(groups, p), n, c * t)
           /\ \E gs \in D : k[gs] * t <= n
           /\ \E gs \in D : n <= k[gs] * t
<1>1. /\ IsFiniteSet(D) /\ D \subseteq groups
      /\ \A gs \in D : Weight(p, gs) \in Int /\ Weight(p, gs) > 0 /\ gs[2] \in Fractions
  <2>1. D \subseteq groups /\ \A gs \in D : Weight(p, gs) > 0
    BY DEF Contributing
  <2>2. \A gs \in D : Weight(p, gs) \in Int
    BY <2>1, WeightType
  <2>3. QED  BY <2>1, <2>2, FS_Subset
<1> DEFINE w == [gs \in D |-> Weight(p, gs)]
           wk == [gs \in D |-> w[gs] * k[gs]]
           v == [gs \in D |-> Times(Whole(Weight(p, gs)), gs[2])]
           t == SumFunction(w)
           n == SumFunction(wk)
<1>2. w \in [D -> Int] /\ \A gs \in D : w[gs] = Weight(p, gs) /\ w[gs] > 0
  BY <1>1
<1>3. \A gs \in D : v[gs] = Times(Whole(Weight(p, gs)), gs[2])
  OBVIOUS
<1> HIDE DEF w
<1>4. wk \in [D -> Int] /\ \A gs \in D : wk[gs] = w[gs] * k[gs]
  BY <1>2
<1>5. t \in Int /\ t > 0 /\ n \in Int
  <2> HIDE DEF wk
  <2>1. t \in Int /\ n \in Int
    BY <1>1, <1>2, <1>4, SumSplits
  <2>2. t > 0
    BY <1>1, <1>2, SumPositive
  <2>3. QED  BY <2>1, <2>2
<1>6. ASSUME NEW gs \in D PROVE Equals(v[gs], wk[gs], c)
  <2> DEFINE a == w[gs]  b == k[gs]
  <2>1. a \in Int /\ b \in Int /\ wk[gs] = a * b
    BY <1>2, <1>4
  <2>2. Equals(gs[2], b, c) /\ v[gs] = Times(Whole(a), gs[2])
    BY <1>2, <1>3
  <2> HIDE DEF a, b, v, wk
  <2>3. Equals(Whole(a), a, 1)
    <3>1. a * 1 = a /\ 1 \in Int
      BY <2>1
    <3>2. Equals(Whole(a), a * 1, 1)
      BY <2>1, <3>1, WholeEquals
    <3>3. QED  BY <3>1, <3>2
  <2>4. 1 \in Nat \ {0}
    OBVIOUS
  <2>5. Equals(Times(Whole(a), gs[2]), a * b, 1 * c)
    BY <2>1, <2>2, <2>3, <2>4, TimesIs
  <2>6. 1 * c = c
    OBVIOUS
  <2>7. QED  BY <2>1, <2>2, <2>5, <2>6
<1>7. v \in [D -> Fractions]
  <2>1. \A gs \in D : v[gs] \in Fractions
    BY <1>6 DEF Equals
  <2>2. v = [gs \in D |-> v[gs]]
    OBVIOUS
  <2> HIDE DEF v
  <2>3. QED  BY <2>1, <2>2
<1> DEFINE total == MapThenSumSet(LAMBDA gs : Weight(p, gs), D)
<1>8. Overall(groups, p) = Over2(TotalOf(v), Whole(total))
  BY DEF Overall, MapThenSumSet, MapThenFoldSet
<1>9. total = t
  <2> HIDE DEF total, t
  <2>1. \A gs \in D : w[gs] = Weight(p, gs)
    BY <1>2
  <2>2. QED  BY <1>1, <1>2, <2>1, WeightsAddUp DEF total, t
<1> HIDE DEF total, t, n, wk
<1> HIDE DEF v
<1>14. Equals(TotalOf(v), n, c)
  BY <1>1, <1>4, <1>6, <1>7, TotalSum DEF n
<1>15. Equals(Overall(groups, p), n, c * t)
  <2>1. t * 1 = t /\ n * 1 = n /\ 1 \in Int /\ 1 \in Nat \ {0} /\ t # 0
    BY <1>5
  <2>2. Equals(Whole(t), t * 1, 1)
    BY <1>5, <2>1, WholeEquals
  <2>3. Equals(Whole(t), t, 1)
    BY <2>1, <2>2
  <2>4. Equals(Over2(TotalOf(v), Whole(t)), n * 1, c * t)
    BY <1>5, <1>14, <2>1, <2>3, Over2Is
  <2>5. QED  BY <1>8, <1>9, <2>1, <2>4
<1>16. \E gs \in D : k[gs] * t <= n
  <2>1. PICK m \in D : \A gs \in D : k[m] <= k[gs]
    BY <1>1, LeastKey
  <2> DEFINE b == k[m]
             low == [gs \in D |-> b * w[gs]]
  <2>2. b \in Int
    OBVIOUS
  <2> HIDE DEF b
  <2>3. low \in [D -> Int] /\ Multiple1(low, w, D, b)
    BY <1>2, <2>2 DEF Multiple1
  <2>4. \A gs \in D : low[gs] <= wk[gs]
    <3> SUFFICES ASSUME NEW gs \in D PROVE low[gs] <= wk[gs]
      OBVIOUS
    <3> DEFINE a == w[gs]  e == k[gs]
    <3>1. a \in Int /\ a > 0 /\ e \in Int /\ b <= e
      BY <1>2, <2>1 DEF b
    <3>2. low[gs] = b * a /\ wk[gs] = a * e
      BY <1>4
    <3> HIDE DEF low, a, e
    <3>3. a * (e - b) >= 0 /\ a * (e - b) = a * e - b * a
      BY <2>2, <3>1
    <3>4. b * a \in Int /\ a * e \in Int
      BY <2>2, <3>1
    <3>5. QED  BY <3>2, <3>3, <3>4
  <2> HIDE DEF low
  <2>5. SumFunction(low) <= n
    BY <1>1, <1>4, <2>3, <2>4, SumAtMost DEF n
  <2>6. SumFunction(low) = b * t
    BY <1>1, <2>3, SumMultiple DEF t
  <2>7. b * t <= n
    BY <2>5, <2>6
  <2>8. QED  BY <2>7 DEF b
<1>17. \E gs \in D : n <= k[gs] * t
  <2>1. PICK m \in D : \A gs \in D : k[gs] <= k[m]
    BY <1>1, LargestKey
  <2> DEFINE b == k[m]
             high == [gs \in D |-> b * w[gs]]
  <2>2. b \in Int
    OBVIOUS
  <2> HIDE DEF b
  <2>3. high \in [D -> Int] /\ Multiple1(high, w, D, b)
    BY <1>2, <2>2 DEF Multiple1
  <2>4. \A gs \in D : wk[gs] <= high[gs]
    <3> SUFFICES ASSUME NEW gs \in D PROVE wk[gs] <= high[gs]
      OBVIOUS
    <3> DEFINE a == w[gs]  e == k[gs]
    <3>1. a \in Int /\ a > 0 /\ e \in Int /\ e <= b
      BY <1>2, <2>1 DEF b
    <3>2. high[gs] = b * a /\ wk[gs] = a * e
      BY <1>4
    <3> HIDE DEF high, a, e
    <3>3. a * (b - e) >= 0 /\ a * (b - e) = b * a - a * e
      BY <2>2, <3>1
    <3>4. b * a \in Int /\ a * e \in Int
      BY <2>2, <3>1
    <3>5. QED  BY <3>2, <3>3, <3>4
  <2> HIDE DEF high
  <2>5. n <= SumFunction(high)
    BY <1>1, <1>4, <2>3, <2>4, SumAtMost DEF n
  <2>6. SumFunction(high) = b * t
    BY <1>1, <2>3, SumMultiple DEF t
  <2>7. n <= b * t
    BY <2>5, <2>6
  <2>8. QED  BY <2>7 DEF b
<1>18. t \in Nat \ {0}
  BY <1>5
<1>19. QED  BY <1>5, <1>15, <1>16, <1>17, <1>18

\* An overall score lies between the least and the largest of the group scores it weighs, and
\* is missing when too little weight is known (overall_score).
LEMMA ScoresBacked ==
  ASSUME NEW p \in Profiles, NEW groups, IsFiniteSet(groups),
         \A gs \in groups : gs[1] \in Groups /\ gs[2] \in Fractions
  PROVE  ScoresAreBacked(groups, p)
<1> DEFINE D == Contributing(groups, p)  ov == Overall(groups, p)
<1>1. D = {} => ov = Missing
  BY DEF Overall
<1>2. CASE D # {}
  <2> DEFINE v == [gs \in D |-> gs[2]]
  <2>1. IsFiniteSet(D) /\ v \in [D -> Fractions] /\ \A gs \in D : v[gs] = gs[2]
    BY FS_Subset DEF Contributing
  <2> HIDE DEF D, v
  <2>2. PICK c \in Nat \ {0} : \E k \in [D -> Int] : \A x \in D : Equals(v[x], k[x], c)
    BY <2>1, CommonDenominator
  <2>3. PICK k \in [D -> Int] : \A x \in D : Equals(v[x], k[x], c)
    BY <2>2
  <2>4. \A gs \in D : Equals(gs[2], k[gs], c)
    BY <2>1, <2>3
  <2>5. PICK t \in Nat \ {0}, n \in Int :
           /\ Equals(ov, n, c * t)
           /\ \E gs \in D : k[gs] * t <= n
           /\ \E gs \in D : n <= k[gs] * t
    BY <1>2, <2>4, OverallIs DEF D
  <2> HIDE DEF ov
  <2>6. ASSUME NEW gs \in D
        PROVE  /\ k[gs] * t \in Int
               /\ Less(ov, gs[2]) <=> n < k[gs] * t
               /\ Less(gs[2], ov) <=> k[gs] * t < n
    <3> DEFINE e == c * t  m == k[gs] * t
    <3>1. e \in Nat \ {0} /\ m \in Int /\ k[gs] \in Int /\ e = c * t /\ m = k[gs] * t
      OBVIOUS
    <3>2. Equals(ov, n, e)
      BY <2>5
    <3>3. Equals(gs[2], k[gs], c)
      BY <2>4
    <3> HIDE DEF e, m
    <3>4. Equals(gs[2], m, e)
      BY <3>1, <3>3, Rescaled
    <3>5. (Less(ov, gs[2]) <=> n < m) /\ (Less(gs[2], ov) <=> m < n)
      BY <3>1, <3>2, <3>4, LessIs
    <3>6. QED  BY <3>1, <3>5
  <2>7. PICK l \in D : k[l] * t <= n
    BY <2>5
  <2>8. PICK h \in D : n <= k[h] * t
    BY <2>5
  <2>9. ~Less(ov, l[2]) /\ ~Less(h[2], ov)
    <3> DEFINE a == k[l] * t  b == k[h] * t
    <3>1. /\ a \in Int /\ b \in Int /\ a <= n /\ n <= b
          /\ Less(ov, l[2]) <=> n < a
          /\ Less(h[2], ov) <=> b < n
      BY <2>6, <2>7, <2>8
    <3> HIDE DEF a, b
    <3>2. QED  BY <3>1
  <2>10. QED  BY <2>7, <2>8, <2>9 DEF ScoresAreBacked, D, ov
<1>3. QED  BY <1>1, <1>2 DEF ScoresAreBacked

-----------------------------------------------------------------------------
(* Features of a snapshot with a line left out *)

\* An absent line only takes a value away: b is a, or nothing.
Fades(b, a) == b = a \/ b = Missing

LEMMA WithoutIs ==
  ASSUME NEW snap \in SnapshotRecords, NEW i \in DOMAIN snap.financials, NEW code \in Codes
  PROVE  LET w == Without(snap, i, code)
         IN /\ w \in SnapshotRecords
            /\ w.closes = snap.closes /\ w.volumes = snap.volumes /\ w.values = snap.values
            /\ w.index_closes = snap.index_closes /\ w.dividend = snap.dividend
            /\ w.industry = snap.industry /\ w.red_flags = snap.red_flags
            /\ w.financials = [snap.financials EXCEPT ![i].values[code] = Missing]
<1> DEFINE fin == snap.financials
           p == [fin[i] EXCEPT !.values[code] = Missing]
           w == Without(snap, i, code)
<1>1. fin \in Seq(PeriodRecords) /\ i \in 1 .. Len(fin) /\ fin[i] \in PeriodRecords
  BY DEF SnapshotRecords
<1>2. p \in PeriodRecords
  BY <1>1 DEF PeriodRecords
<1>3. w.financials = [fin EXCEPT ![i] = p]
  BY DEF Without, SnapshotRecords
<1>4. [fin EXCEPT ![i] = p] \in Seq(PeriodRecords)
  BY <1>1, <1>2
<1>5. w = [snap EXCEPT !.financials = [fin EXCEPT ![i] = p]]
  BY DEF Without
<1>6. QED
  <2>1. w \in SnapshotRecords
    BY <1>4, <1>5 DEF SnapshotRecords
  <2>2. /\ w.closes = snap.closes /\ w.volumes = snap.volumes /\ w.values = snap.values
        /\ w.index_closes = snap.index_closes /\ w.dividend = snap.dividend
        /\ w.industry = snap.industry /\ w.red_flags = snap.red_flags
    BY <1>5 DEF SnapshotRecords
  <2>3. QED  BY <2>1, <2>2, <1>3

\* v is snap with one line gone.
Faded(snap, w) ==
  /\ DOMAIN w.financials = DOMAIN snap.financials /\ Len(w.financials) = Len(snap.financials)
  /\ (w.financials = <<>>) = (snap.financials = <<>>)
  /\ \A k \in DOMAIN snap.financials :
       LET a == snap.financials[k]  b == w.financials[k]
       IN /\ a # Missing /\ b # Missing
          /\ b.type = a.type /\ b.year = a.year /\ b.period = a.period
          /\ \A c \in Codes : Fades(b.values[c], a.values[c])

LEMMA WithoutFades ==
  ASSUME NEW snap \in SnapshotRecords, NEW i \in DOMAIN snap.financials, NEW code \in Codes
  PROVE  Faded(snap, Without(snap, i, code))
<1> DEFINE fin == snap.financials
           w == Without(snap, i, code)
<1>1. fin \in Seq(PeriodRecords) /\ w.financials \in Seq(PeriodRecords)
      /\ w.financials = [fin EXCEPT ![i].values[code] = Missing]
  <2>1. w \in SnapshotRecords /\ w.financials = [fin EXCEPT ![i].values[code] = Missing]
    BY WithoutIs
  <2> HIDE DEF w
  <2>2. QED  BY <2>1 DEF SnapshotRecords
<1> HIDE DEF w
<1>2. DOMAIN w.financials = DOMAIN fin /\ Len(w.financials) = Len(fin)
  BY <1>1
<1>3. (w.financials = <<>>) = (fin = <<>>)
  BY <1>1, <1>2
<1>4. ASSUME NEW k \in DOMAIN fin
      PROVE  LET a == fin[k]  b == w.financials[k]
             IN /\ a # Missing /\ b # Missing
                /\ b.type = a.type /\ b.year = a.year /\ b.period = a.period
                /\ \A c \in Codes : Fades(b.values[c], a.values[c])
  <2>1. fin[k] \in PeriodRecords /\ w.financials[k] \in PeriodRecords
    BY <1>1, <1>2
  <2>2. fin[k] # Missing /\ w.financials[k] # Missing
    BY <2>1, AdviceAssumption
  <2>3. CASE k # i
    <3>1. w.financials[k] = fin[k]
      BY <1>1, <2>3
    <3>2. QED  BY <3>1, <2>2 DEF Fades
  <2>4. CASE k = i
    <3>1. w.financials[k] = [fin[k] EXCEPT !.values[code] = Missing]
      BY <1>1, <2>4
    <3>2. QED  BY <3>1, <2>1, <2>2 DEF Fades, PeriodRecords
  <2>5. QED  BY <2>3, <2>4
<1>5. QED  BY <1>2, <1>3, <1>4 DEF Faded, w

LEMMA LatestFades ==
  ASSUME NEW snap, NEW w, Faded(snap, w), snap.financials \in Seq(PeriodRecords),
         w.financials \in Seq(PeriodRecords), NEW code \in Codes
  PROVE  Fades(FinancialValue(LatestOf(w), code), FinancialValue(LatestOf(snap), code))
<1>1. CASE snap.financials = <<>>
  BY <1>1 DEF Faded, Fades, LatestOf, FinancialValue
<1>2. CASE snap.financials # <<>>
  <2>1. Len(snap.financials) \in DOMAIN snap.financials
    BY <1>2
  <2>2. LatestOf(w) = w.financials[Len(snap.financials)]
        /\ LatestOf(snap) = snap.financials[Len(snap.financials)]
    BY <1>2 DEF Faded, LatestOf, Last
  <2>3. QED  BY <2>1, <2>2 DEF Faded, FinancialValue
<1>3. QED  BY <1>1, <1>2

LEMMA YearAgoFades ==
  ASSUME NEW snap, NEW w, Faded(snap, w), snap.financials \in Seq(PeriodRecords),
         w.financials \in Seq(PeriodRecords), NEW code \in Codes
  PROVE  Fades(FinancialValue(YearAgo(w), code), FinancialValue(YearAgo(snap), code))
<1> DEFINE fin == snap.financials
           Earlier(f) == {i \in 1 .. Len(f) - 1 : SamePeriod(f[i], Last(f))}
<1>1. Earlier(w.financials) = Earlier(fin)
  <2>1. ASSUME NEW i \in 1 .. Len(fin) - 1
        PROVE  SamePeriod(w.financials[i], Last(w.financials)) <=> SamePeriod(fin[i], Last(fin))
    <3>1. i \in DOMAIN fin /\ Len(fin) \in DOMAIN fin
      OBVIOUS
    <3>2. QED  BY <3>1 DEF Faded, SamePeriod, Last
  <2>2. Len(w.financials) = Len(fin)
    BY DEF Faded
  <2>3. QED  BY <2>1, <2>2
<1>2. CASE Earlier(fin) = {}
  BY <1>1, <1>2 DEF YearAgo, Fades, FinancialValue
<1>3. CASE Earlier(fin) # {}
  <2>1. Earlier(fin) \subseteq DOMAIN fin /\ IsFiniteSet(Earlier(fin)) /\ Earlier(fin) \subseteq Int
    <3>1. IsFiniteSet(1 .. Len(fin) - 1)
      BY FS_Interval
    <3>2. QED  BY <3>1, FS_Subset
  <2>2. PICK k \in DOMAIN fin : k = Max(Earlier(fin))
    <3>1. PICK m \in Earlier(fin) : \A j \in Earlier(fin) : j <= m
      <4> DEFINE key == [j \in Earlier(fin) |-> j]
      <4>1. key \in [Earlier(fin) -> Int] /\ \A j \in Earlier(fin) : key[j] = j
        BY <2>1
      <4> HIDE DEF key
      <4>2. PICK m \in Earlier(fin) : \A j \in Earlier(fin) : key[j] <= key[m]
        BY <1>3, <2>1, <4>1, LargestKey
      <4>3. QED  BY <4>1, <4>2
    <3>2. QED  BY <2>1, <3>1 DEF Max
  <2>3. YearAgo(w) = w.financials[k] /\ YearAgo(snap) = fin[k]
    BY <1>1, <1>3, <2>2 DEF YearAgo
  <2>4. QED  BY <2>3 DEF Faded, FinancialValue
<1>4. QED  BY <1>2, <1>3

LEMMA BeforeFades ==
  ASSUME NEW snap, NEW w, Faded(snap, w), snap.financials \in Seq(PeriodRecords),
         w.financials \in Seq(PeriodRecords), NEW type,
         NEW n \in Nat, n < Cardinality(OfType(snap, type)), NEW code \in Codes
  PROVE  Fades(FinancialValue(Before(w, OfType(w, type), n), code),
               FinancialValue(Before(snap, OfType(snap, type), n), code))
<1> DEFINE fin == snap.financials
           is == OfType(snap, type)
           key == [i \in is |-> -i]
<1>1. IsFiniteSet(is) /\ is \subseteq Int /\ is \subseteq DOMAIN fin /\ Cardinality(is) \in Nat
  <2>1. IsFiniteSet(1 .. Len(fin))
    BY FS_Interval
  <2>2. is \subseteq 1 .. Len(fin)
    BY DEF OfType
  <2>3. QED  BY <2>1, <2>2, FS_Subset, FS_CardinalityType
<1>2. OfType(w, type) = is
  BY DEF OfType, Faded
<1>3. n + 1 \in 1 .. Cardinality(is)
  BY <1>1
<1>4. key \in [is -> Int] /\ \A x, y \in is : key[x] = key[y] => x = y
  BY <1>1
<1>5. PICK k \in is : Cardinality({y \in is : key[y] < key[k]}) = (n + 1) - 1
  <2> HIDE DEF is, key
  <2>1. QED  BY <1>1, <1>3, <1>4, RankIsTaken
<1>6. {y \in is : key[y] < key[k]} = {j \in is : j > k}
  BY <1>1
<1>7. Cardinality({j \in is : j > k}) = n
  <2> DEFINE c == Cardinality({y \in is : key[y] < key[k]})
  <2>1. c = (n + 1) - 1
    BY <1>5
  <2>2. c = n
    <3> HIDE DEF c
    <3>1. QED  BY <2>1
  <2>3. QED  BY <2>2, <1>6
<1> DEFINE m == CHOOSE i \in is : Cardinality({j \in is : j > i}) = n
<1>8. m \in DOMAIN fin
  BY <1>1, <1>7
<1>9. Before(w, OfType(w, type), n) = w.financials[m] /\ Before(snap, is, n) = fin[m]
  BY <1>2 DEF Before
<1>10. QED  BY <1>8, <1>9 DEF Faded, FinancialValue

LEMMA CagrFades ==
  ASSUME NEW snap, NEW w, Faded(snap, w), snap.financials \in Seq(PeriodRecords),
         w.financials \in Seq(PeriodRecords)
  PROVE  Fades(RevenueCagr(w), RevenueCagr(snap))
<1> DEFINE years == OfType(snap, "YEAR")
           start == FinancialValue(Before(snap, years, 3), "revenue")
           end == FinancialValue(Before(snap, years, 0), "revenue")
           start2 == FinancialValue(Before(w, years, 3), "revenue")
           end2 == FinancialValue(Before(w, years, 0), "revenue")
<1>1. OfType(w, "YEAR") = years
  BY DEF OfType, Faded
<1>2. years \subseteq 1 .. Len(snap.financials) /\ Cardinality(years) \in Nat
  <2>1. years \subseteq 1 .. Len(snap.financials)
    BY DEF OfType
  <2>2. IsFiniteSet(1 .. Len(snap.financials))
    BY FS_Interval
  <2>3. QED  BY <2>1, <2>2, FS_Subset, FS_CardinalityType
<1>3. CASE Cardinality(years) < 4
  BY <1>1, <1>3 DEF RevenueCagr, Fades
<1>4. CASE ~(Cardinality(years) < 4)
  <2>1. "revenue" \in Codes /\ 3 < Cardinality(years) /\ 0 < Cardinality(years)
    BY <1>2, <1>4 DEF Codes
  <2>2. Fades(start2, start) /\ Fades(end2, end)
    BY <1>1, <2>1, BeforeFades
  <2>3. /\ RevenueCagr(w) = IF Missing \in {start2, end2} \/ ~Less(Zero, start2) THEN Missing
                            ELSE Over2(end2, start2)
        /\ RevenueCagr(snap) = IF Missing \in {start, end} \/ ~Less(Zero, start) THEN Missing
                               ELSE Over2(end, start)
    BY <1>1, <1>4 DEF RevenueCagr
  <2> HIDE DEF years, start, end, start2, end2
  <2>4. QED  BY <2>2, <2>3 DEF Fades
<1>5. QED  BY <1>3, <1>4

LEMMA TtmFades ==
  ASSUME NEW snap, NEW w, Faded(snap, w), snap.financials \in Seq(PeriodRecords),
         w.financials \in Seq(PeriodRecords), NEW code \in Codes
  PROVE  Fades(TtmSum(w, code), TtmSum(snap, code))
<1> DEFINE quarters == OfType(snap, "QUARTER")
           four == [i \in 1 .. Span.quarters |->
                      FinancialValue(Before(snap, quarters, Span.quarters - i), code)]
           four2 == [i \in 1 .. Span.quarters |->
                      FinancialValue(Before(w, quarters, Span.quarters - i), code)]
<1>1. OfType(w, "QUARTER") = quarters
  BY DEF OfType, Faded
<1>2. Cardinality(quarters) \in Nat
  <2>1. quarters \subseteq 1 .. Len(snap.financials)
    BY DEF OfType
  <2>2. IsFiniteSet(1 .. Len(snap.financials))
    BY FS_Interval
  <2>3. QED  BY <2>1, <2>2, FS_Subset, FS_CardinalityType
<1>3. CASE Cardinality(quarters) < Span.quarters
  BY <1>1, <1>3 DEF TtmSum, Fades
<1>4. CASE ~(Cardinality(quarters) < Span.quarters)
  <2>1. ASSUME NEW i \in 1 .. Span.quarters PROVE Fades(four2[i], four[i])
    <3>1. Span.quarters - i \in Nat /\ Span.quarters - i < Cardinality(quarters)
      BY <1>2, <1>4, AdviceAssumption
    <3>2. QED  BY <1>1, <3>1, BeforeFades
  <2>2. /\ TtmSum(w, code) = IF \E i \in DOMAIN four2 : four2[i] = Missing THEN Missing
                             ELSE Sum(four2)
        /\ TtmSum(snap, code) = IF \E i \in DOMAIN four : four[i] = Missing THEN Missing
                                ELSE Sum(four)
    BY <1>1, <1>4 DEF TtmSum
  <2>3. CASE \E i \in DOMAIN four2 : four2[i] = Missing
    BY <2>2, <2>3 DEF Fades
  <2>4. CASE \A i \in 1 .. Span.quarters : four2[i] # Missing
    <3>1. \A i \in 1 .. Span.quarters : four2[i] = four[i]
      BY <2>1, <2>4 DEF Fades
    <3>2. four2 = four
      BY <3>1
    <3>3. QED  BY <2>2, <3>2 DEF Fades
  <2>5. QED  BY <2>3, <2>4
<1>5. QED  BY <1>3, <1>4

LEMMA RatioFades ==
  ASSUME NEW a, NEW a2, Fades(a2, a), NEW b, NEW b2, Fades(b2, b)
  PROVE  Fades(RatioOf(a2, b2), RatioOf(a, b)) /\ Fades(PctChange(a2, b2), PctChange(a, b))
BY DEF Fades, RatioOf, PctChange

LEMMA MultipleFades ==
  ASSUME NEW snap, NEW w, w.closes = snap.closes, NEW x, NEW x2, Fades(x2, x)
  PROVE  Fades(Multiple(w, x2), Multiple(snap, x))
BY DEF Fades, Multiple, Positive

\* So does every feature, those that read no statement being the same.
LEMMA FeatureFades ==
  ASSUME NEW snap \in SnapshotRecords, NEW i \in DOMAIN snap.financials, NEW code \in Codes,
         NEW name \in FeatureNames
  PROVE  Fades(Feature(name, Without(snap, i, code)), Feature(name, snap))
<1> DEFINE w == Without(snap, i, code)
<1>1. /\ w.closes = snap.closes /\ w.volumes = snap.volumes /\ w.values = snap.values
      /\ w.index_closes = snap.index_closes /\ w.dividend = snap.dividend
      /\ w.red_flags = snap.red_flags
  BY WithoutIs
<1>2. w \in SnapshotRecords /\ Faded(snap, w)
  BY WithoutIs, WithoutFades
<1> HIDE DEF w
<1>3. snap.financials \in Seq(PeriodRecords) /\ w.financials \in Seq(PeriodRecords)
  BY <1>2 DEF SnapshotRecords
<1>4. \A c \in Codes : /\ Fades(FinancialValue(LatestOf(w), c), FinancialValue(LatestOf(snap), c))
                       /\ Fades(FinancialValue(YearAgo(w), c), FinancialValue(YearAgo(snap), c))
                       /\ Fades(TtmSum(w, c), TtmSum(snap, c))
  BY <1>2, <1>3, LatestFades, YearAgoFades, TtmFades
<1>5. /\ \A c \in Codes : Fades(YoY(w, c), YoY(snap, c))
      /\ \A a, b \in Codes : Fades(LatestRatio(w, a, b), LatestRatio(snap, a, b))
  BY <1>4, RatioFades DEF YoY, LatestRatio
<1>6. /\ {"revenue", "net_profit", "eps", "assets", "current_assets", "liabilities",
          "current_liabilities", "equity", "cfo"} = Codes
  BY DEF Codes
<1>7. /\ Fades(RatioOf(TtmSum(w, "net_profit"), FinancialValue(LatestOf(w), "equity")),
               RatioOf(TtmSum(snap, "net_profit"), FinancialValue(LatestOf(snap), "equity")))
      /\ Fades(RatioOf(TtmSum(w, "net_profit"), FinancialValue(LatestOf(w), "assets")),
               RatioOf(TtmSum(snap, "net_profit"), FinancialValue(LatestOf(snap), "assets")))
      /\ Fades(RatioOf(TtmSum(w, "cfo"), TtmSum(w, "net_profit")),
               RatioOf(TtmSum(snap, "cfo"), TtmSum(snap, "net_profit")))
      /\ Fades(SharesOutstanding(w), SharesOutstanding(snap))
  BY <1>4, <1>6, RatioFades DEF SharesOutstanding
<1>8. Fades(RatioOf(FinancialValue(LatestOf(w), "equity"), SharesOutstanding(w)),
            RatioOf(FinancialValue(LatestOf(snap), "equity"), SharesOutstanding(snap)))
  BY <1>4, <1>6, <1>7, RatioFades
<1>9. /\ Fades(Multiple(w, TtmSum(w, "eps")), Multiple(snap, TtmSum(snap, "eps")))
      /\ Fades(Multiple(w, RatioOf(FinancialValue(LatestOf(w), "equity"), SharesOutstanding(w))),
               Multiple(snap, RatioOf(FinancialValue(LatestOf(snap), "equity"), SharesOutstanding(snap))))
  BY <1>1, <1>4, <1>6, <1>8, MultipleFades
<1>10. Fades(RevenueCagr(w), RevenueCagr(snap))
  BY <1>2, <1>3, CagrFades
<1>11. /\ RsOverIndex(w, Span[name]) = RsOverIndex(snap, Span[name])
       /\ DividendYield(w) = DividendYield(snap) /\ CatalystEvent(w) = CatalystEvent(snap)
       /\ RedflagFree(w) = RedflagFree(snap)
  BY <1>1 DEF RsOverIndex, DividendYield, CatalystEvent, RedflagFree
<1>12. CASE name \in {"price_vs_sma20", "price_vs_sma50", "price_vs_sma200", "return_20d",
                      "return_63d", "rs_vs_index_63d", "macd_hist_pct", "atr20_pct",
                      "avg_value_20d", "volume_ratio_20d", "dividend_yield_ttm",
                      "catalyst_event_ttm", "redflag_free"}
  <2>1. Feature(name, w) = Feature(name, snap)
    BY <1>1, <1>11, <1>12 DEF Feature
  <2>2. QED  BY <2>1 DEF Fades, w
<1>13. CASE name \in {"revenue_yoy", "net_profit_yoy", "revenue_cagr_3y", "net_margin",
                      "debt_to_equity", "current_ratio"}
  <2>1. Fades(Feature(name, w), Feature(name, snap))
    BY <1>5, <1>6, <1>10, <1>13 DEF Feature
  <2>2. QED  BY <2>1 DEF w
<1>14. CASE name \in {"roe_ttm", "roa_ttm", "cfo_to_net_profit_ttm", "pe_ttm", "pb"}
  <2>1. Fades(Feature(name, w), Feature(name, snap))
    BY <1>7, <1>9, <1>14 DEF Feature
  <2>2. QED  BY <2>1 DEF w
<1>15. QED  BY <1>12, <1>13, <1>14 DEF FeatureNames, Features, Groups

\* A feature of a snapshot with a line left out is the feature itself or nothing: an absent
\* line is never counted as a zero (StrategyFeatures).
LEMMA NothingIsFilledIn == ASSUME NEW snap \in SnapshotRecords PROVE NothingFilledIn(snap)
<1>1. SUFFICES ASSUME NEW i \in DOMAIN snap.financials, NEW code \in Codes
               PROVE  ComputeRawFeatures(Without(snap, i, code)) \subseteq ComputeRawFeatures(snap)
  BY DEF NothingFilledIn
<1> DEFINE w == Without(snap, i, code)
<1>2. w.industry = snap.industry
  BY WithoutIs
<1>3. \A name \in FeatureNames : Fades(Feature(name, w), Feature(name, snap))
  BY FeatureFades
<1> HIDE DEF w
<1>4. ComputeRawFeatures(w) \subseteq ComputeRawFeatures(snap)
  BY <1>2, <1>3 DEF ComputeRawFeatures, Fades
<1>5. QED  BY <1>4 DEF w

\* Whatever universe, set of groups or snapshot is asked about, with whatever weights the
\* profiles are configured: ranks are fair, an overall score is backed by its groups and nothing
\* is filled in for a line that was not reported (percentile_ranks, overall_score, features).
THEOREM ScoresAreSound == AdviceSpec => []ScoringIsSound
<1>1. AdviceInit => ScoringIsSound
  <2>1. SUFFICES ASSUME AdviceInit PROVE AdviceIsSound
    BY DEF ScoringIsSound
  <2>2. CASE question \in [kind : {"universe"}, of : Universes]
    <3>1. question.kind = "universe" /\ question.of \in Universes
      BY <2>2
    <3>2. RanksAreFair(question.of)
      BY <3>1, AdviceAssumption, RanksFair
    <3>3. QED  BY <3>1, <3>2 DEF AdviceIsSound
  <2>3. CASE question \in [kind : {"groups"}, of : GroupSets]
    <3>1. question.kind = "groups" /\ question.of \in GroupSets
      BY <2>3
    <3>2. \A p \in Profiles : ScoresAreBacked(question.of, p)
      BY <3>1, AdviceAssumption, ScoresBacked
    <3>3. QED  BY <3>1, <3>2 DEF AdviceIsSound
  <2>4. CASE question \in [kind : {"snapshot"}, of : AdviceSnaps]
    <3>1. question.kind = "snapshot" /\ question.of \in SnapshotRecords
      BY <2>4, AdviceAssumption
    <3>2. NothingFilledIn(question.of)
      BY <3>1, NothingIsFilledIn
    <3>3. QED  BY <3>1, <3>2 DEF AdviceIsSound
  <2>5. QED  BY <2>1, <2>2, <2>3, <2>4 DEF AdviceInit
<1>2. ScoringIsSound /\ [UNCHANGED question]_question => ScoringIsSound'
  BY DEF ScoringIsSound, AdviceIsSound
<1>3. QED  BY <1>1, <1>2, PTL DEF AdviceSpec, Stays

-----------------------------------------------------------------------------
(* A market as known on a day *)

\* A function has at most as many values as arguments.
LEMMA ImageIsFinite ==
  ASSUME NEW D, IsFiniteSet(D), NEW f, DOMAIN f = D
  PROVE  /\ IsFiniteSet({f[x] : x \in D})
         /\ (\A x, y \in D : f[x] = f[y] => x = y) => Cardinality({f[x] : x \in D}) = Cardinality(D)
<1> DEFINE T == {f[x] : x \in D}
           h == [x \in D |-> f[x]]
<1>1. h \in [D -> T] /\ \A t \in T : \E x \in D : h[x] = t
  OBVIOUS
<1>2. h \in Surjection(D, T)
  BY <1>1 DEF Surjection
<1>3. (\A x, y \in D : f[x] = f[y] => x = y) => h \in Injection(D, T)
  BY <1>1 DEF Injection, IsInjective
<1> HIDE DEF h, T
<1>4. IsFiniteSet(T) /\ (Cardinality(T) = Cardinality(D) <=> h \in Injection(D, T))
  BY <1>2, FS_Surjection
<1>5. QED  BY <1>3, <1>4 DEF T

LEMMA MinIs ==
  ASSUME NEW D, IsFiniteSet(D), D # {}, D \subseteq Int
  PROVE  Min(D) \in D /\ \A x \in D : Min(D) <= x
<1> DEFINE key == [x \in D |-> x]
<1>1. key \in [D -> Int] /\ \A x \in D : key[x] = x
  OBVIOUS
<1> HIDE DEF key
<1>2. PICK z \in D : \A x \in D : key[z] <= key[x]
  BY <1>1, LeastKey
<1>3. \A x \in D : z <= x
  BY <1>1, <1>2
<1>4. QED  BY <1>3 DEF Min

LEMMA MaxIs ==
  ASSUME NEW D, IsFiniteSet(D), D # {}, D \subseteq Int
  PROVE  Max(D) \in D /\ \A x \in D : x <= Max(D)
<1> DEFINE key == [x \in D |-> x]
<1>1. key \in [D -> Int] /\ \A x \in D : key[x] = x
  OBVIOUS
<1> HIDE DEF key
<1>2. PICK z \in D : \A x \in D : key[x] <= key[z]
  BY <1>1, LargestKey
<1>3. \A x \in D : x <= z
  BY <1>1, <1>2
<1>4. QED  BY <1>3 DEF Max

\* The n-th of finitely many days is one of them, after n - 1 others.
LEMMA NthIs ==
  ASSUME NEW D, IsFiniteSet(D), D \subseteq Int, NEW n \in 1 .. Cardinality(D)
  PROVE  Nth(D, n) \in D /\ Place(D, Nth(D, n)) = n - 1
<1> DEFINE key == [x \in D |-> x]
<1>1. key \in [D -> Int] /\ \A x \in D : key[x] = x
  OBVIOUS
<1> HIDE DEF key
<1>2. key \in [D -> Int] /\ \A x, y \in D : key[x] = key[y] => x = y
  BY <1>1
<1>3. PICK z \in D : Cardinality({y \in D : key[y] < key[z]}) = n - 1
  <2>1. \A k \in 1 .. Cardinality(D) :
          \E x \in D : Cardinality({y \in D : key[y] < key[x]}) = k - 1
    BY <1>2, RankIsTaken
  <2>2. QED  BY <2>1
<1>4. {y \in D : key[y] < key[z]} = {e \in D : e < z}
  BY <1>1
<1>5. Place(D, z) = n - 1
  BY <1>3, <1>4 DEF Place
<1>6. QED  BY <1>5 DEF Nth

\* The calendar of a market whose bars end on a day is the calendar up to that day.
LEMMA CalendarFacts ==
  ASSUME NEW m, Market(m), BacktestOptions
  PROVE  /\ IsFiniteSet(Calendar(m)) /\ Calendar(m) \subseteq Int
         /\ \A d \in Calendar(m) : d >= Start
<1> DEFINE index == InWindow(DOMAIN m.index)
           own(s) == InWindow(DOMAIN m.stocks[s])
<1>1. IsFiniteSet(index) /\ index \subseteq Int /\ \A d \in index : d >= Start
  BY FS_Subset DEF Market, TradingDays, InWindow
<1>2. \A s \in DOMAIN m.stocks :
        IsFiniteSet(own(s)) /\ own(s) \subseteq Int /\ \A d \in own(s) : d >= Start
  BY FS_Subset DEF Market, TradingDays, InWindow
<1> DEFINE f == [s \in DOMAIN m.stocks |-> own(s)]
<1>3. IsFiniteSet({f[s] : s \in DOMAIN m.stocks})
  BY ImageIsFinite DEF Market
<1>4. IsFiniteSet(UNION {own(s) : s \in DOMAIN m.stocks})
  <2>1. {f[s] : s \in DOMAIN m.stocks} = {own(s) : s \in DOMAIN m.stocks}
    OBVIOUS
  <2>2. \A t \in {f[s] : s \in DOMAIN m.stocks} : IsFiniteSet(t)
    BY <1>2
  <2> HIDE DEF f
  <2>3. IsFiniteSet(UNION {f[s] : s \in DOMAIN m.stocks})
    BY <1>3, <2>2, FS_UNION
  <2>4. QED  BY <2>1, <2>3
<1>5. QED  BY <1>1, <1>2, <1>4 DEF Calendar

\* A market as known on a day is a market, and shows what the whole one shows up to that day.
LEMMA CutIs ==
  ASSUME NEW m, NEW d
  PROVE  /\ DOMAIN AsKnownOn(m, d).stocks = DOMAIN m.stocks
         /\ \A s \in DOMAIN m.stocks :
              /\ AsKnownOn(m, d).stocks[s] = Cut(m.stocks[s], d)
              /\ DOMAIN AsKnownOn(m, d).stocks[s] = UpTo(DOMAIN m.stocks[s], d)
         /\ AsKnownOn(m, d).index = Cut(m.index, d)
         /\ DOMAIN AsKnownOn(m, d).index = UpTo(DOMAIN m.index, d)
BY DEF AsKnownOn, Cut

LEMMA PastMarket ==
  ASSUME NEW m, Market(m), NEW d
  PROVE  Market(AsKnownOn(m, d))
<1> DEFINE past == AsKnownOn(m, d)
<1>1. /\ DOMAIN past.stocks = DOMAIN m.stocks
      /\ \A s \in DOMAIN m.stocks : past.stocks[s] = Cut(m.stocks[s], d)
      /\ past.index = Cut(m.index, d)
  BY CutIs
<1> HIDE DEF past
<1>2. ASSUME NEW f, TradingDays(DOMAIN f), f \in [DOMAIN f -> DayBars]
      PROVE  TradingDays(DOMAIN Cut(f, d)) /\ Cut(f, d) \in [DOMAIN Cut(f, d) -> DayBars]
  BY <1>2, FS_Subset DEF Cut, UpTo, TradingDays
<1>3. Market(past)
  BY <1>1, <1>2 DEF Market
<1>4. QED  BY <1>3 DEF past

LEMMA CalendarPast ==
  ASSUME NEW m, Market(m), BacktestOptions, NEW d \in Calendar(m)
  PROVE  Calendar(AsKnownOn(m, d)) = UpTo(Calendar(m), d)
<1> DEFINE past == AsKnownOn(m, d)
<1>1. /\ DOMAIN past.stocks = DOMAIN m.stocks
      /\ \A s \in DOMAIN m.stocks : DOMAIN past.stocks[s] = UpTo(DOMAIN m.stocks[s], d)
      /\ DOMAIN past.index = UpTo(DOMAIN m.index, d)
  BY CutIs
<1> HIDE DEF past
<1>2. InWindow(DOMAIN past.index) = UpTo(InWindow(DOMAIN m.index), d)
  BY <1>1 DEF InWindow, UpTo
<1>3. \A s \in DOMAIN m.stocks :
        InWindow(DOMAIN past.stocks[s]) = UpTo(InWindow(DOMAIN m.stocks[s]), d)
  BY <1>1 DEF InWindow, UpTo
<1>4. d \in Int
  BY CalendarFacts
<1>5. CASE InWindow(DOMAIN m.index) # {}
  <2>1. Calendar(m) = InWindow(DOMAIN m.index)
    BY <1>5 DEF Calendar
  <2>2. d \in UpTo(InWindow(DOMAIN m.index), d)
    BY <1>4, <2>1 DEF UpTo
  <2>3. Calendar(past) = UpTo(InWindow(DOMAIN m.index), d)
    BY <1>2, <2>2 DEF Calendar
  <2>4. QED  BY <2>1, <2>3 DEF past
<1>6. CASE InWindow(DOMAIN m.index) = {}
  <2>1. InWindow(DOMAIN past.index) = {}
    BY <1>2, <1>6 DEF UpTo
  <2>2. Calendar(past) = UNION {UpTo(InWindow(DOMAIN m.stocks[s]), d) : s \in DOMAIN m.stocks}
    BY <1>1, <1>3, <2>1 DEF Calendar
  <2>3. Calendar(m) = UNION {InWindow(DOMAIN m.stocks[s]) : s \in DOMAIN m.stocks}
    BY <1>6 DEF Calendar
  <2>4. UpTo(Calendar(m), d)
          = UNION {UpTo(InWindow(DOMAIN m.stocks[s]), d) : s \in DOMAIN m.stocks}
    BY <2>3 DEF UpTo
  <2>5. QED  BY <2>2, <2>4 DEF past
<1>7. QED  BY <1>5, <1>6

\* Filling a gap looks back only.
LEMMA FilledPast ==
  ASSUME NEW m, Market(m), BacktestOptions, NEW d \in Calendar(m),
         NEW e \in UpTo(Calendar(m), d), NEW s \in DOMAIN m.stocks
  PROVE  Filled(AsKnownOn(m, d), s, e) = Filled(m, s, e)
<1> DEFINE past == AsKnownOn(m, d)
<1>1. past.stocks[s] = Cut(m.stocks[s], d) /\ DOMAIN past.stocks[s] = UpTo(DOMAIN m.stocks[s], d)
  BY CutIs
<1>2. Calendar(past) = UpTo(Calendar(m), d)
  BY CalendarPast
<1>3. d \in Int /\ e \in Int /\ e <= d /\ e \in Calendar(m) /\ DOMAIN m.stocks[s] \subseteq Int
      /\ Calendar(m) \subseteq Int /\ IsFiniteSet(Calendar(m))
  BY CalendarFacts DEF UpTo, Market, TradingDays
<1> HIDE DEF past
<1>4. \A x \in DOMAIN m.stocks[s] : x <= e => /\ x \in DOMAIN past.stocks[s]
                                              /\ past.stocks[s][x] = m.stocks[s][x]
  BY <1>1, <1>3 DEF Cut, UpTo
<1>5. e \in DOMAIN past.stocks[s] <=> e \in DOMAIN m.stocks[s]
  BY <1>1, <1>3 DEF UpTo
<1>6. Seen(past, s, e) = Seen(m, s, e)
  BY <1>1, <1>2, <1>3 DEF Seen, UpTo
<1>7. CASE e \in DOMAIN m.stocks[s]
  BY <1>3, <1>4, <1>5, <1>7 DEF Filled, past
<1>8. CASE e \notin DOMAIN m.stocks[s] /\ Seen(m, s, e) = {}
  BY <1>5, <1>6, <1>8 DEF Filled, past
<1>9. CASE e \notin DOMAIN m.stocks[s] /\ Seen(m, s, e) # {}
  <2> DEFINE x == Max(Seen(m, s, e))
  <2>1. x \in Seen(m, s, e)
    <3>1. Seen(m, s, e) \subseteq Int /\ IsFiniteSet(Seen(m, s, e))
      BY <1>3, FS_Subset DEF Seen
    <3>2. QED  BY <1>9, <3>1, MaxIs
  <2>2. x \in DOMAIN m.stocks[s] /\ x <= e
    BY <2>1 DEF Seen, UpTo
  <2>3. past.stocks[s][x] = m.stocks[s][x]
    BY <1>4, <2>2
  <2>4. Filled(past, s, e) = Halted(past.stocks[s][x]) /\ Filled(m, s, e) = Halted(m.stocks[s][x])
    BY <1>5, <1>6, <1>9 DEF Filled
  <2>5. QED  BY <2>3, <2>4 DEF past
<1>10. QED  BY <1>7, <1>8, <1>9

\* A symbol of the universe is one that printed on the first day, and it has a bar on every day.
LEMMA UniverseIs ==
  ASSUME NEW m, Market(m), BacktestOptions, Calendar(m) # {}
  PROVE  LET first == Earliest(Calendar(m))
         IN /\ Universe(m) = {s \in DOMAIN m.stocks : first \in DOMAIN m.stocks[s]}
            /\ \A s \in Universe(m), e \in Calendar(m) : Filled(m, s, e) \in DayBars
<1> DEFINE first == Earliest(Calendar(m))
<1>1. IsFiniteSet(Calendar(m)) /\ Calendar(m) \subseteq Int
      /\ first \in Calendar(m) /\ \A e \in Calendar(m) : first <= e
  BY CalendarFacts, MinIs DEF Earliest
<1> HIDE DEF first
<1>2. ASSUME NEW s \in DOMAIN m.stocks, first \in DOMAIN m.stocks[s], NEW e \in Calendar(m)
      PROVE  Filled(m, s, e) \in DayBars
  <2>1. m.stocks[s] \in [DOMAIN m.stocks[s] -> DayBars] /\ DOMAIN m.stocks[s] \subseteq Int
    BY DEF Market, TradingDays
  <2>2. CASE e \in DOMAIN m.stocks[s]
    BY <2>1, <2>2 DEF Filled
  <2>3. CASE e \notin DOMAIN m.stocks[s]
    <3> DEFINE x == Max(Seen(m, s, e))
    <3>1. first \in Seen(m, s, e)
      BY <1>1, <1>2 DEF Seen, UpTo
    <3>2. Seen(m, s, e) \subseteq Int /\ IsFiniteSet(Seen(m, s, e))
      BY <1>1, FS_Subset DEF Seen
    <3>3. x \in Seen(m, s, e)
      BY <3>1, <3>2, MaxIs
    <3>4. x \in DOMAIN m.stocks[s]
      BY <3>3 DEF Seen, UpTo
    <3> HIDE DEF x
    <3>5. m.stocks[s][x] \in DayBars
      BY <2>1, <3>4
    <3>6. Halted(m.stocks[s][x]) \in DayBars
      BY <3>5 DEF Halted, DayBars
    <3>7. QED  BY <2>3, <3>1, <3>6 DEF Filled, x
  <2>4. QED  BY <2>2, <2>3
<1>3. ASSUME NEW s \in DOMAIN m.stocks, first \notin DOMAIN m.stocks[s]
      PROVE  Filled(m, s, first) = Missing
  <2>1. Seen(m, s, first) = {}
    <3> SUFFICES ASSUME NEW x \in Seen(m, s, first) PROVE FALSE
      OBVIOUS
    <3>1. x \in Calendar(m) /\ x \in DOMAIN m.stocks[s] /\ x <= first
      BY DEF Seen, UpTo
    <3>2. x \in Int /\ first \in Int /\ first <= x
      BY <1>1, <3>1
    <3>3. x = first
      BY <3>1, <3>2
    <3>4. QED  BY <1>3, <3>1, <3>3
  <2>2. QED  BY <1>3, <2>1 DEF Filled
<1>4. ASSUME NEW s \in DOMAIN m.stocks, first \in DOMAIN m.stocks[s] PROVE s \in Universe(m)
  <2>1. DOMAIN m.stocks[s] # {} /\ IsFiniteSet(DOMAIN m.stocks[s]) /\ DOMAIN m.stocks[s] \subseteq Int
    BY <1>4 DEF Market, TradingDays
  <2>2. Min(DOMAIN m.stocks[s]) <= first
    BY <1>4, <2>1, MinIs
  <2>3. \A e \in Calendar(m) : Filled(m, s, e) # Missing
    BY <1>2, <1>4 DEF BacktestOptions
  <2>4. QED  BY <2>1, <2>2, <2>3 DEF Universe, Earliest, first
<1>5. ASSUME NEW s \in Universe(m) PROVE s \in DOMAIN m.stocks /\ first \in DOMAIN m.stocks[s]
  <2>1. s \in DOMAIN m.stocks /\ Filled(m, s, first) # Missing
    BY <1>1 DEF Universe
  <2>2. QED  BY <1>3, <2>1
<1>6. Universe(m) = {s \in DOMAIN m.stocks : first \in DOMAIN m.stocks[s]}
  BY <1>4, <1>5
<1>7. \A s \in Universe(m), e \in Calendar(m) : Filled(m, s, e) \in DayBars
  BY <1>2, <1>5
<1>8. QED  BY <1>6, <1>7 DEF first

LEMMA UniversePast ==
  ASSUME NEW m, Market(m), BacktestOptions, NEW d \in Calendar(m)
  PROVE  /\ Universe(AsKnownOn(m, d)) = Universe(m)
         /\ \A s \in Universe(m) : Aligned(AsKnownOn(m, d))[s] = Cut(Aligned(m)[s], d)
<1> DEFINE past == AsKnownOn(m, d)
           first == Earliest(Calendar(m))
<1>1. Market(past) /\ Calendar(past) = UpTo(Calendar(m), d) /\ DOMAIN past.stocks = DOMAIN m.stocks
      /\ \A s \in DOMAIN m.stocks : DOMAIN past.stocks[s] = UpTo(DOMAIN m.stocks[s], d)
  BY PastMarket, CalendarPast, CutIs
<1>2. \A s \in DOMAIN m.stocks, e \in UpTo(Calendar(m), d) : Filled(past, s, e) = Filled(m, s, e)
  BY FilledPast
<1> HIDE DEF past
<1>3. IsFiniteSet(Calendar(m)) /\ Calendar(m) \subseteq Int /\ d \in Int
      /\ first \in Calendar(m) /\ \A e \in Calendar(m) : first <= e
  BY CalendarFacts, MinIs DEF Earliest
<1>4. first \in UpTo(Calendar(m), d) /\ IsFiniteSet(UpTo(Calendar(m), d))
  BY <1>3, FS_Subset DEF UpTo
<1>5. Earliest(Calendar(past)) = first
  <2> DEFINE x == Earliest(Calendar(past))
  <2>1. x \in UpTo(Calendar(m), d) /\ \A e \in UpTo(Calendar(m), d) : x <= e
    BY <1>1, <1>3, <1>4, MinIs DEF Earliest, UpTo
  <2>2. x \in Int /\ first \in Int /\ x <= first /\ first <= x
    BY <1>3, <1>4, <2>1 DEF UpTo
  <2> HIDE DEF x, first
  <2>3. x = first
    BY <2>2
  <2>4. QED  BY <2>3 DEF x
<1>6. Universe(past) = {s \in DOMAIN m.stocks : first \in UpTo(DOMAIN m.stocks[s], d)}
  BY <1>1, <1>4, <1>5, UniverseIs
<1>7. Universe(m) = {s \in DOMAIN m.stocks : first \in DOMAIN m.stocks[s]}
  BY <1>3, UniverseIs
<1>8. Universe(past) = Universe(m)
  BY <1>4, <1>6, <1>7 DEF UpTo
<1>9. ASSUME NEW s \in Universe(m) PROVE Aligned(past)[s] = Cut(Aligned(m)[s], d)
  <2>1. s \in DOMAIN m.stocks
    BY <1>7
  <2>2. Aligned(past)[s] = [e \in UpTo(Calendar(m), d) |-> Filled(past, s, e)]
    BY <1>1, <1>8 DEF Aligned
  <2>3. Aligned(m)[s] = [e \in Calendar(m) |-> Filled(m, s, e)]
    BY DEF Aligned
  <2>4. UpTo(Calendar(m), d) \subseteq Calendar(m)
    BY DEF UpTo
  <2>5. Cut(Aligned(m)[s], d) = [e \in UpTo(Calendar(m), d) |-> Filled(m, s, e)]
    BY <2>3, <2>4 DEF Cut
  <2>6. QED  BY <1>2, <2>1, <2>2, <2>5
<1>10. QED  BY <1>8, <1>9 DEF past

\* A score of a day reads no close of a later one.
LEMMA ScoresPast ==
  ASSUME NEW m, Market(m), BacktestOptions, NEW d \in Calendar(m), NEW e \in UpTo(Calendar(m), d)
  PROVE  ScoresAsOf(AsKnownOn(m, d), e) = ScoresAsOf(m, e)
<1> DEFINE past == AsKnownOn(m, d)
<1>1. Universe(past) = Universe(m)
      /\ \A s \in DOMAIN m.stocks : past.stocks[s] = Cut(m.stocks[s], d)
                                    /\ DOMAIN past.stocks[s] = UpTo(DOMAIN m.stocks[s], d)
  BY UniversePast, CutIs
<1> HIDE DEF past
<1>2. e \in Int /\ d \in Int /\ e <= d
  BY CalendarFacts DEF UpTo
<1>3. ASSUME NEW s \in Universe(m) PROVE ClosesAsOf(past, s, e) = ClosesAsOf(m, s, e)
  <2> DEFINE days == UpTo(DOMAIN m.stocks[s], e)
  <2>1. s \in DOMAIN m.stocks
    BY DEF Universe
  <2>2. DOMAIN m.stocks[s] \subseteq Int /\ IsFiniteSet(DOMAIN m.stocks[s])
    BY <2>1 DEF Market, TradingDays
  <2>3. UpTo(DOMAIN past.stocks[s], e) = days
    BY <1>1, <1>2, <2>1, <2>2 DEF UpTo
  <2>4. days \subseteq Int /\ IsFiniteSet(days)
    BY <2>2, FS_Subset DEF UpTo
  <2>5. ASSUME NEW i \in 1 .. Cardinality(days)
        PROVE  past.stocks[s][Nth(days, i)] = m.stocks[s][Nth(days, i)]
    <3>1. Nth(days, i) \in days
      BY <2>4, NthIs
    <3>2. Nth(days, i) \in UpTo(DOMAIN m.stocks[s], d)
      BY <1>2, <2>2, <3>1 DEF UpTo
    <3>3. QED  BY <1>1, <2>1, <3>2 DEF Cut
  <2>6. QED  BY <2>3, <2>5 DEF ClosesAsOf
<1>4. RawAsOf(past, e) = RawAsOf(m, e)
  BY <1>1, <1>3 DEF RawAsOf
<1>5. QED  BY <1>1, <1>4 DEF ScoresAsOf, past

LEMMA TargetsPast ==
  ASSUME NEW m, Market(m), BacktestOptions, NEW d \in Calendar(m)
  PROVE  Targets(AsKnownOn(m, d)) = Cut(Targets(m), d)
<1> DEFINE past == AsKnownOn(m, d)  C == Calendar(m)
<1>1. Calendar(past) = UpTo(C, d) /\ C \subseteq Int /\ d \in Int
  BY CalendarPast, CalendarFacts
<1>2. \A e \in UpTo(C, d) : ScoresAsOf(past, e) = ScoresAsOf(m, e)
  BY ScoresPast
<1> HIDE DEF past
<1>3. ASSUME NEW e \in UpTo(C, d) PROVE e \in RebalanceDates(past) <=> e \in RebalanceDates(m)
  <2>1. {x \in UpTo(C, d) : x < e} = {x \in C : x < e}
    BY <1>1 DEF UpTo
  <2>2. Place(UpTo(C, d), e) = Place(C, e)
    BY <2>1 DEF Place
  <2>3. e \in C
    BY DEF UpTo
  <2>4. QED  BY <1>1, <2>2, <2>3 DEF RebalanceDates
<1>4. Targets(past) = [e \in UpTo(C, d) |->
          IF e \in RebalanceDates(past) THEN TopWeights(ScoresAsOf(past, e), TopN) ELSE <<>>]
  BY <1>1 DEF Targets
<1>5. Cut(Targets(m), d) = [e \in UpTo(C, d) |->
          IF e \in RebalanceDates(m) THEN TopWeights(ScoresAsOf(m, e), TopN) ELSE <<>>]
  BY DEF Targets, Cut, UpTo
<1>6. QED  BY <1>2, <1>3, <1>4, <1>5 DEF past

-----------------------------------------------------------------------------
(* Weights *)

LEMMA TotalType ==
  ASSUME NEW D, IsFiniteSet(D), NEW w \in [D -> Fractions]
  PROVE  TotalOf(w) \in Fractions
<1>1. PICK c \in Nat \ {0} : \E k \in [D -> Int] : \A x \in D : Equals(w[x], k[x], c)
  BY CommonDenominator
<1>2. PICK k \in [D -> Int] : \A x \in D : Equals(w[x], k[x], c)
  BY <1>1
<1>3. Equals(TotalOf(w), SumFunction(k), c)
  BY <1>2, TotalSum
<1>4. QED  BY <1>3 DEF Equals

\* The results are fractions.
LEMMA QuotientType ==
  ASSUME NEW f \in Fractions, NEW h \in Fractions, h # Zero
  PROVE  Over2(f, h) \in Fractions
<1> DEFINE n == f.num  d == f.den  m == h.num  e == h.den
<1>1. /\ n \in Int /\ d \in Nat \ {0} /\ m \in Int /\ e \in Nat \ {0}
      /\ Equals(f, n, d) /\ Equals(h, m, e)
  BY Itself DEF Fractions
<1>2. m # 0
  <2>1. SUFFICES ASSUME m = 0 PROVE FALSE
    OBVIOUS
  <2>2. Equals(Whole(0), 0 * e, e)
    <3> HIDE DEF m, e
    <3>1. 0 \in Int /\ e \in Int
      BY <1>1
    <3>2. QED  BY <3>1, WholeEquals
  <2>3. 0 * e = m
    BY <1>1, <2>1
  <2>4. Equals(Zero, m, e)
    BY <2>2, <2>3 DEF Zero
  <2> HIDE DEF m, e
  <2>5. h = Zero
    BY <1>1, <2>4, SameValue
  <2>6. QED  BY <2>5
<1> HIDE DEF n, d, m, e
<1>3. Equals(Over2(f, h), n * e, d * m)
  BY <1>1, <1>2, Over2Is
<1>4. QED  BY <1>3 DEF Equals

LEMMA MinusType == ASSUME NEW f \in Fractions, NEW h \in Fractions PROVE Minus(f, h) \in Fractions
<1>1. PICK n \in Int, m \in Int, d \in Nat \ {0} : Equals(f, n, d) /\ Equals(h, m, d)
  BY InCommon
<1>2. Equals(Minus(f, h), n - m, d)
  BY <1>1, MinusIs
<1>3. QED  BY <1>2 DEF Equals

LEMMA DistanceIs ==
  ASSUME NEW f \in Fractions, NEW h \in Fractions
  PROVE  Distance(f, h) \in Fractions /\ (Distance(f, h) = Zero => f = h)
<1> DEFINE x == Minus(f, h)  d == Distance(f, h)
<1>1. PICK n \in Int, m \in Int, c \in Nat \ {0} : Equals(f, n, c) /\ Equals(h, m, c)
  BY InCommon
<1>2. Equals(x, n - m, c) /\ x \in Fractions
  BY <1>1, MinusIs, MinusType
<1>3. d = [x EXCEPT !.num = Magnitude(x.num)]
  BY DEF Distance
<1> HIDE DEF x
<1>4. x.num \in Int /\ x.den \in Nat \ {0} /\ Gcd[<<Magnitude(x.num), x.den>>] = 1
      /\ x \in [num : Int, den : Nat \ {0}]
  BY <1>2 DEF Fractions
<1>5. Magnitude(x.num) \in Int /\ Magnitude(Magnitude(x.num)) = Magnitude(x.num)
      /\ (Magnitude(x.num) = 0 => x.num = 0)
  BY <1>4 DEF Magnitude
<1>6. d.num = Magnitude(x.num) /\ d.den = x.den /\ d \in [num : Int, den : Nat \ {0}]
  BY <1>3, <1>4, <1>5
<1> HIDE DEF d
<1>7. d \in Fractions
  BY <1>4, <1>5, <1>6 DEF Fractions
<1>8. ASSUME d = Zero PROVE f = h
  <2>1. x.num = 0
    BY <1>5, <1>6, <1>8 DEF Zero, Whole
  <2>2. x.num * c = (n - m) * x.den
    BY <1>2 DEF Equals
  <2>3. (n - m) * x.den = 0
    BY <2>1, <2>2
  <2>4. n - m = 0
    <3> DEFINE a == n - m  b == x.den
    <3>1. a \in Int /\ b \in Nat /\ b # 0 /\ a * b = 0
      BY <1>4, <2>3
    <3> HIDE DEF a, b
    <3>2. a = 0
      BY <3>1
    <3>3. QED  BY <3>2 DEF a
  <2>5. n = m
    BY <2>4
  <2>6. QED  BY <1>1, <2>5, SameValue
<1>9. QED  BY <1>7, <1>8 DEF d

LEMMA PctType ==
  ASSUME NEW f \in Fractions, NEW h \in Fractions
  PROVE  PctChange(f, h) \in Fractions \cup {Missing}
<1>1. CASE Missing \in {f, h} \/ h = Zero
  BY <1>1 DEF PctChange
<1>2. CASE ~(Missing \in {f, h} \/ h = Zero)
  <2>1. Zero \in Fractions
    BY WholeIs DEF Zero
  <2>2. Distance(h, Zero) \in Fractions /\ Distance(h, Zero) # Zero /\ Minus(f, h) \in Fractions
    BY <1>2, <2>1, DistanceIs, MinusType
  <2>3. Over2(Minus(f, h), Distance(h, Zero)) \in Fractions
    BY <2>2, QuotientType
  <2>4. QED  BY <1>2, <2>3 DEF PctChange
<1>3. QED  BY <1>1, <1>2

LEMMA RawType ==
  ASSUME NEW m, Market(m), BacktestOptions, NEW d
  PROVE  IsFiniteSet(RawAsOf(m, d)) /\ \A r \in RawAsOf(m, d) : r[3] \in Fractions
<1> DEFINE U == Universe(m)
           f == [s \in U |-> <<s, "return_20d", ReturnOver(ClosesAsOf(m, s, d), Span.return_20d)>>]
<1>1. U \subseteq DOMAIN m.stocks /\ IsFiniteSet(U)
  BY FS_Subset DEF Universe, Market
<1>2. IsFiniteSet({f[s] : s \in U})
  BY <1>1, ImageIsFinite
<1>3. {f[s] : s \in U}
        = {<<s, "return_20d", ReturnOver(ClosesAsOf(m, s, d), Span.return_20d)>> : s \in U}
  OBVIOUS
<1>4. IsFiniteSet(RawAsOf(m, d))
  BY <1>2, <1>3, FS_Subset DEF RawAsOf
<1>5. ASSUME NEW s \in U PROVE ReturnOver(ClosesAsOf(m, s, d), Span.return_20d) \in Fractions \cup {Missing}
  <2> DEFINE days == UpTo(DOMAIN m.stocks[s], d)
             c == ClosesAsOf(m, s, d)
             n == Span.return_20d
  <2>1. days \subseteq Int /\ IsFiniteSet(days) /\ s \in DOMAIN m.stocks
        /\ Cardinality(days) \in Nat
    BY <1>1, FS_Subset, FS_CardinalityType DEF UpTo, Market, TradingDays
  <2>2. ASSUME NEW i \in 1 .. Cardinality(days) PROVE Whole(m.stocks[s][Nth(days, i)].close) \in Fractions
    <3>1. Nth(days, i) \in days
      BY <2>1, NthIs
    <3>2. m.stocks[s][Nth(days, i)] \in DayBars
      BY <2>1, <3>1 DEF Market, UpTo
    <3>3. m.stocks[s][Nth(days, i)].close \in Int
      BY <3>2 DEF DayBars
    <3>4. QED  BY <3>3, WholeIs
  <2>3. c = [i \in 1 .. Cardinality(days) |-> Whole(m.stocks[s][Nth(days, i)].close)]
    BY DEF ClosesAsOf
  <2>4. c \in Seq(Fractions)
    <3> HIDE DEF days
    <3>1. QED  BY <2>1, <2>2, <2>3
  <2> HIDE DEF c, days
  <2>5. CASE Len(c) <= n
    BY <2>5 DEF ReturnOver, c
  <2>6. CASE ~(Len(c) <= n)
    <3>1. n \in Nat
      BY DEF BacktestOptions
    <3>2. Last(c) \in Fractions /\ FromEnd(c, n) \in Fractions
      BY <2>4, <2>6, <3>1 DEF Last, FromEnd
    <3>3. ReturnOver(c, n) = PctChange(Last(c), FromEnd(c, n))
      BY <2>6 DEF ReturnOver
    <3>4. QED  BY <3>2, <3>3, PctType DEF c
  <2>7. QED  BY <2>5, <2>6
<1>6. \A r \in RawAsOf(m, d) : r[3] \in Fractions
  BY <1>5 DEF RawAsOf
<1>7. QED  BY <1>4, <1>6

LEMMA GroupsFinite == IsFiniteSet(Groups)
<1> DEFINE f == [i \in 1 .. 7 |-> <<"technical", "moneyflow", "growth", "quality", "valuation",
                                    "macro", "governance">>[i]]
<1>1. Groups = {"technical", "moneyflow", "growth", "quality", "valuation", "macro", "governance"}
  BY DEF Groups, Features
<1>2. {f[i] : i \in 1 .. 7}
        = {"technical", "moneyflow", "growth", "quality", "valuation", "macro", "governance"}
  <2>1. 1 .. 7 = {1, 2, 3, 4, 5, 6, 7}
    OBVIOUS
  <2>2. /\ f[1] = "technical" /\ f[2] = "moneyflow" /\ f[3] = "growth" /\ f[4] = "quality"
        /\ f[5] = "valuation" /\ f[6] = "macro" /\ f[7] = "governance"
    OBVIOUS
  <2> HIDE DEF f
  <2>3. QED  BY <2>1, <2>2
<1>3. IsFiniteSet(1 .. 7)
  <2> DEFINE n == 7
  <2>1. n \in Int /\ 1 \in Int
    OBVIOUS
  <2> HIDE DEF n
  <2>2. IsFiniteSet(1 .. n)
    BY <2>1, FS_Interval
  <2>3. QED  BY <2>2 DEF n
<1>4. IsFiniteSet({f[i] : i \in 1 .. 7})
  BY <1>3, ImageIsFinite
<1>5. QED  BY <1>1, <1>2, <1>4

LEMMA RankedType ==
  ASSUME NEW raw, IsFiniteSet(raw), \A q \in raw : q[3] \in Fractions, NEW r \in raw
  PROVE  Ranked(raw, r) \in Fractions
<1> DEFINE D == {q \in raw : q[2] = r[2]}
<1>1. IsFiniteSet(D) /\ (\A q \in D : q[3] \in Fractions) /\ r \in D
  BY FS_Subset
<1>2. Equals(Ranked(raw, r), RankPoints(D, r[2], r), Cardinality(D))
  BY <1>1, RankedIs
<1>3. QED  BY <1>2 DEF Equals

LEMMA GroupScoresType ==
  ASSUME NEW raw, IsFiniteSet(raw), \A q \in raw : q[3] \in Fractions, NEW s
  PROVE  /\ IsFiniteSet(GroupScores(raw, s))
         /\ \A gs \in GroupScores(raw, s) : gs[1] \in Groups /\ gs[2] \in Fractions
<1> DEFINE rows(g) == {r \in raw : r[1] = s /\ r[2] \in Features[g]}
           score(g) == Over2(TotalOf([r \in rows(g) |-> Ranked(raw, r)]), Whole(Cardinality(rows(g))))
           G == {g \in Groups : rows(g) # {}}
           f == [g \in G |-> <<g, score(g)>>]
<1>1. GroupScores(raw, s) = {<<g, score(g)>> : g \in G}
  BY DEF GroupScores
<1>2. {f[g] : g \in G} = {<<g, score(g)>> : g \in G}
  OBVIOUS
<1>3. IsFiniteSet(G)
  BY GroupsFinite, FS_Subset
<1>4. IsFiniteSet({f[g] : g \in G})
  <2> HIDE DEF G
  <2>1. QED  BY <1>3, ImageIsFinite
<1>5. ASSUME NEW g \in G PROVE score(g) \in Fractions
  <2> DEFINE R == rows(g)  w == [r \in R |-> Ranked(raw, r)]  n == Cardinality(R)
  <2>1. IsFiniteSet(R) /\ R \subseteq raw /\ R # {}
    BY FS_Subset
  <2>2. w \in [R -> Fractions]
    BY <2>1, RankedType
  <2>3. n \in Nat /\ n # 0
    BY <2>1, FS_EmptySet, FS_CardinalityType
  <2> HIDE DEF R, w, n
  <2>4. TotalOf(w) \in Fractions
    BY <2>1, <2>2, TotalType
  <2>5. Whole(n) \in Fractions /\ Whole(n) # Zero
    BY <2>3, WholeIs DEF Zero, Whole
  <2>6. Over2(TotalOf(w), Whole(n)) \in Fractions
    BY <2>4, <2>5, QuotientType
  <2>7. QED  BY <2>6 DEF R, w, n
<1> HIDE DEF score
<1>6. ASSUME NEW gs \in GroupScores(raw, s) PROVE gs[1] \in Groups /\ gs[2] \in Fractions
  <2>1. PICK g \in G : gs = <<g, score(g)>>
    BY <1>1
  <2>2. gs[1] = g /\ gs[2] = score(g) /\ g \in Groups
    BY <2>1
  <2>3. QED  BY <1>5, <2>2
<1>7. IsFiniteSet(GroupScores(raw, s))
  BY <1>1, <1>2, <1>4
<1>8. QED  BY <1>6, <1>7

LEMMA OverallType ==
  ASSUME NEW p \in Profiles, NEW groups, IsFiniteSet(groups),
         \A gs \in groups : gs[1] \in Groups /\ gs[2] \in Fractions
  PROVE  Overall(groups, p) \in Fractions \cup {Missing}
<1> DEFINE D == Contributing(groups, p)  v == [gs \in D |-> gs[2]]
<1>1. CASE D = {}
  BY <1>1 DEF Overall
<1>2. CASE D # {}
  <2>1. IsFiniteSet(D) /\ v \in [D -> Fractions] /\ \A gs \in D : v[gs] = gs[2]
    BY FS_Subset DEF Contributing
  <2> HIDE DEF D, v
  <2>2. PICK c \in Nat \ {0} : \E k \in [D -> Int] : \A x \in D : Equals(v[x], k[x], c)
    BY <2>1, CommonDenominator
  <2>3. PICK k \in [D -> Int] : \A x \in D : Equals(v[x], k[x], c)
    BY <2>2
  <2>4. \A gs \in D : Equals(gs[2], k[gs], c)
    BY <2>1, <2>3
  <2>5. \E t \in Nat \ {0}, n \in Int : Equals(Overall(groups, p), n, c * t)
    BY <1>2, <2>4, OverallIs DEF D
  <2>6. QED  BY <2>5 DEF Equals
<1>3. QED  BY <1>1, <1>2

\* What is ranked: one score per symbol.
OneScoreEach(scores) ==
  /\ IsFiniteSet(scores)
  /\ \A a \in scores : a[1] \in Int /\ a[2] \in Fractions
  /\ \A a, b \in scores : a[1] = b[1] => a = b

LEMMA ScoresType ==
  ASSUME NEW m, Market(m), BacktestOptions, NEW d
  PROVE  OneScoreEach(ScoresAsOf(m, d)) /\ \A a \in ScoresAsOf(m, d) : a[1] \in Universe(m)
<1> DEFINE U == Universe(m)
           raw == RawAsOf(m, d)
           f == [s \in U |-> <<s, Overall(GroupScores(raw, s), Profile)>>]
<1>1. IsFiniteSet(raw) /\ \A r \in raw : r[3] \in Fractions
  BY RawType
<1>2. IsFiniteSet(U) /\ U \subseteq Int
  BY FS_Subset DEF Universe, Market
<1> HIDE DEF raw
<1>3. \A s \in U : Overall(GroupScores(raw, s), Profile) \in Fractions \cup {Missing}
  BY <1>1, GroupScoresType, OverallType DEF BacktestOptions
<1>4. ScoresAsOf(m, d) = {sc \in {f[s] : s \in U} : sc[2] # Missing}
  BY DEF ScoresAsOf, raw
<1>5. IsFiniteSet({f[s] : s \in U})
  BY <1>2, ImageIsFinite
<1>6. IsFiniteSet(ScoresAsOf(m, d))
  BY <1>4, <1>5, FS_Subset
<1>7. ASSUME NEW a \in ScoresAsOf(m, d)
      PROVE  a[1] \in U /\ a[2] \in Fractions /\ a = f[a[1]]
  <2>1. PICK s \in U : a = f[s] /\ a[2] # Missing
    BY <1>4
  <2>2. a = <<s, Overall(GroupScores(raw, s), Profile)>>
    BY <2>1
  <2>3. QED  BY <1>3, <2>1, <2>2
<1>8. \A a, b \in ScoresAsOf(m, d) : a[1] = b[1] => a = b
  BY <1>7
<1>9. QED  BY <1>2, <1>6, <1>7, <1>8 DEF OneScoreEach

\* The order of the scores is total, and no score is ahead of itself.
LEMMA AheadOrder ==
  ASSUME NEW scores, OneScoreEach(scores), NEW a \in scores, NEW b \in scores, NEW c \in scores
  PROVE  /\ a # b => Ahead(a, b) \/ Ahead(b, a)
         /\ Ahead(a, b) /\ Ahead(b, c) => Ahead(a, c)
<1>1. /\ a[1] \in Int /\ b[1] \in Int /\ c[1] \in Int
      /\ a[2] \in Fractions /\ b[2] \in Fractions /\ c[2] \in Fractions
      /\ a[1] = b[1] => a = b
  BY DEF OneScoreEach
<1>2. a # b => Ahead(a, b) \/ Ahead(b, a)
  BY <1>1, LessTotal DEF Ahead
<1>3. ASSUME Ahead(a, b), Ahead(b, c) PROVE Ahead(a, c)
  <2>1. CASE a[2] = b[2] /\ b[2] = c[2]
    <3>1. ~Less(b[2], a[2]) /\ ~Less(c[2], b[2])
      BY <1>1, <2>1, LessTotal
    <3>2. a[1] < b[1] /\ b[1] < c[1]
      BY <1>3, <3>1 DEF Ahead
    <3>3. QED  BY <1>1, <2>1, <3>2 DEF Ahead
  <2>2. CASE ~(a[2] = b[2] /\ b[2] = c[2])
    <3>1. ~Less(a[2], b[2]) /\ ~Less(b[2], c[2])
      BY <1>1, <1>3, LessTotal DEF Ahead
    <3>2. ~Less(a[2], c[2])
      BY <1>1, <3>1, LessOrder
    <3>3. a[2] # c[2]
      <4>1. SUFFICES ASSUME a[2] = c[2] PROVE FALSE
        OBVIOUS
      <4>2. ~Less(b[2], a[2])
        BY <3>1, <4>1
      <4>3. a[2] = b[2]
        BY <1>1, <3>1, <4>2, LessTotal
      <4>4. QED  BY <2>2, <4>1, <4>3
    <3>4. Less(c[2], a[2])
      BY <1>1, <3>2, <3>3, LessTotal
    <3>5. QED  BY <3>4 DEF Ahead
  <2>3. QED  BY <2>1, <2>2
<1>4. QED  BY <1>2, <1>3

\* The best n of finitely many scores are n of them, or all when there are fewer.
LEMMA TopIs ==
  ASSUME NEW scores, OneScoreEach(scores), NEW n \in Nat
  PROVE  /\ IsFiniteSet(Top(scores, n)) /\ Top(scores, n) \subseteq scores
         /\ Cardinality(Top(scores, n)) <= n
<1> DEFINE T == Top(scores, n)
           H == {t \in SUBSET scores : t = {} \/ \E z \in t : \A a \in t : a = z \/ Ahead(a, z)}
<1>1. IsFiniteSet(scores) /\ T \subseteq scores /\ IsFiniteSet(T) /\ Cardinality(T) \in Nat
  BY FS_Subset, FS_CardinalityType DEF Top, OneScoreEach
<1>2. {} \in H
  OBVIOUS
<1>3. ASSUME NEW t \in SUBSET scores, t # {}, \A x \in t : t \ {x} \in H PROVE t \in H
  <2>1. PICK x \in t : TRUE
    BY <1>3
  <2>2. CASE t \ {x} = {}
    BY <2>1, <2>2
  <2>3. CASE t \ {x} # {}
    <3>1. PICK z \in t \ {x} : \A a \in t \ {x} : a = z \/ Ahead(a, z)
      BY <1>3, <2>3
    <3>2. Ahead(x, z) \/ Ahead(z, x)
      BY <3>1, AheadOrder
    <3>3. CASE Ahead(x, z)
      BY <3>1, <3>3
    <3>4. CASE Ahead(z, x)
      <4>1. \A a \in t \ {x} : Ahead(a, x)
        BY <3>1, <3>4, AheadOrder
      <4>2. QED  BY <2>1, <4>1
    <3>5. QED  BY <3>2, <3>3, <3>4
  <2>4. QED  BY <2>2, <2>3
<1> HIDE DEF H
<1>4. T \in H
  BY <1>1, <1>2, <1>3, Growing
<1>5. CASE T = {}
  BY <1>1, <1>5, FS_EmptySet
<1>6. CASE T # {}
  <2>1. PICK z \in T : \A a \in T : a = z \/ Ahead(a, z)
    BY <1>4, <1>6 DEF H
  <2> DEFINE B == {b \in scores : Ahead(b, z)}
  <2>2. T \ {z} \subseteq B /\ IsFiniteSet(B) /\ Cardinality(B) \in Nat /\ Cardinality(B) < n
    BY <1>1, <2>1, FS_Subset, FS_CardinalityType DEF Top
  <2> HIDE DEF B, T
  <2>3. Cardinality(T \ {z}) <= Cardinality(B) /\ Cardinality(T \ {z}) = Cardinality(T) - 1
    BY <1>1, <2>1, <2>2, FS_Subset, FS_RemoveElement
  <2>4. Cardinality(T) <= n
    BY <1>1, <2>2, <2>3
  <2>5. QED  BY <1>1, <2>4 DEF T
<1>7. QED  BY <1>1, <1>5, <1>6

\* Equal shares of the best add up to the whole.
LEMMA WeightsShareAll ==
  ASSUME NEW scores, OneScoreEach(scores), NEW n \in Nat, TopWeights(scores, n) # <<>>
  PROVE  LET w == TopWeights(scores, n)
         IN /\ DOMAIN w \subseteq {a[1] : a \in scores}
            /\ Cardinality(DOMAIN w) \in 1 .. n
            /\ TotalOf(w) = Whole(1)
<1> DEFINE T == Top(scores, n)
           k == Cardinality(T)
           D == {a[1] : a \in T}
           w == TopWeights(scores, n)
           f == [a \in T |-> a[1]]
           ones == [s \in D |-> 1]
<1>1. IsFiniteSet(T) /\ T \subseteq scores /\ k <= n /\ k \in Nat
  BY TopIs, FS_CardinalityType
<1>2. w = [s \in D |-> Frac(1, k)]
  BY DEF TopWeights
<1>3. T # {}
  <2>1. SUFFICES ASSUME T = {} PROVE FALSE
    OBVIOUS
  <2>2. D = {}
    BY <2>1
  <2>3. DOMAIN w = {}
    BY <1>2, <2>2
  <2>4. w = [s \in {} |-> Frac(1, k)]
    BY <1>2, <2>2
  <2>5. <<>> = [s \in {} |-> Frac(1, k)]
    OBVIOUS
  <2>6. QED  BY <2>4, <2>5
<1>4. k \in Nat \ {0}
  BY <1>1, <1>3, FS_EmptySet
<1>5. {f[a] : a \in T} = D /\ \A a, b \in T : f[a] = f[b] => a = b
  BY <1>1 DEF OneScoreEach
<1>6. IsFiniteSet(D) /\ Cardinality(D) = k
  <2> HIDE DEF T, D
  <2>1. DOMAIN f = T
    OBVIOUS
  <2> HIDE DEF f
  <2>2. QED  BY <1>1, <1>5, <2>1, ImageIsFinite
<1>7. \A s \in D : Equals(w[s], ones[s], k) /\ ones[s] = 1
  <2>1. Equals(Frac(1, k), 1, k)
    <3> HIDE DEF k
    <3>1. 1 \in Int /\ k \in Int /\ k # 0
      BY <1>4
    <3>2. QED  BY <3>1, FracIs
  <2>2. QED  BY <1>2, <2>1
<1>8. ones \in [D -> Int] /\ Marks(ones, D, D, 1)
  BY DEF Marks
<1>9. w \in [D -> Fractions]
  BY <1>2, <1>7 DEF Equals
<1>10. D \subseteq {a[1] : a \in scores}
  BY <1>1
<1> HIDE DEF T, D, w, ones, k
<1>11. SumFunction(ones) = 1 * Cardinality(D)
  BY <1>6, <1>8, SumCount
<1>12. Equals(TotalOf(w), SumFunction(ones), k)
  BY <1>4, <1>6, <1>7, <1>8, <1>9, TotalSum
<1>13. SumFunction(ones) = k /\ 1 * k = k
  BY <1>4, <1>6, <1>11
<1>14. Equals(TotalOf(w), k, k)
  BY <1>12, <1>13
<1>15. Equals(Whole(1), k, k)
  <2>1. 1 \in Int /\ k \in Int
    BY <1>4
  <2>2. Equals(Whole(1), 1 * k, k)
    BY <2>1, WholeEquals
  <2>3. QED  BY <1>13, <2>2
<1>16. TotalOf(w) = Whole(1)
  BY <1>4, <1>14, <1>15, SameValue
<1>17. DOMAIN w = D /\ Cardinality(D) \in 1 .. n
  BY <1>1, <1>4, <1>6, <1>9
<1>18. QED  BY <1>10, <1>16, <1>17 DEF w

\* For every market and every option: the bars shown to the engine and the weights given to it
\* on a day are those of the market as known on that day, so no price, traded day or stock of a
\* later day reaches a decision (load_backtest_data, score_schedule, build_strategy), and the
\* weights share the whole capital over at most top_n stocks of the universe (top_weights).
THEOREM BacktestSeesOnlyThePast ==
  ASSUME NEW m, Market(m), BacktestOptions
  PROVE  SeesOnlyThePast(m)
<1>1. ASSUME NEW d \in Calendar(m)
      PROVE  LET past == AsKnownOn(m, d)
             IN /\ Universe(past) = Universe(m)
                /\ \A s \in Universe(m) : Aligned(past)[s] = Cut(Aligned(m)[s], d)
                /\ Targets(past) = Cut(Targets(m), d)
  BY UniversePast, TargetsPast
<1>2. ASSUME NEW d \in Calendar(m), Targets(m)[d] # <<>>
      PROVE  /\ DOMAIN Targets(m)[d] \subseteq Universe(m)
             /\ Cardinality(DOMAIN Targets(m)[d]) \in 1 .. TopN
             /\ TotalOf(Targets(m)[d]) = Whole(1)
  <2>1. Targets(m)[d] = TopWeights(ScoresAsOf(m, d), TopN)
    BY <1>2 DEF Targets
  <2>2. OneScoreEach(ScoresAsOf(m, d)) /\ {a[1] : a \in ScoresAsOf(m, d)} \subseteq Universe(m)
        /\ TopN \in Nat
    BY ScoresType DEF BacktestOptions
  <2>3. QED  BY <1>2, <2>1, <2>2, WeightsShareAll
<1>3. QED  BY <1>1, <1>2 DEF SeesOnlyThePast

-----------------------------------------------------------------------------
(* The metrics of the benchmark *)

LEMMA Reduced ==
  ASSUME NEW f, NEW n \in Int, NEW d \in Int, NEW c \in Int, c # 0,
         NEW u \in Int, u = n * c, NEW v \in Int, v = d * c, Equals(f, u, v)
  PROVE  Equals(f, n, d)
<1> DEFINE fn == f.num  fd == f.den  a == fn * d  b == n * fd
<1>1. f \in Fractions /\ fn \in Int /\ fd \in Int /\ fn * v = u * fd
  BY EqualsType
<1>2. a \in Int /\ b \in Int
  BY <1>1
<1>3. fn * v = a * c /\ u * fd = b * c
  <2> HIDE DEF fn, fd
  <2>1. QED  BY <1>1
<1>4. a * c = b * c
  BY <1>1, <1>3
<1>5. (a - b) * c = 0
  <2> HIDE DEF a, b
  <2>1. (a - b) * c = a * c - b * c /\ a * c \in Int
    BY <1>2
  <2> DEFINE x == a * c  y == b * c  z == (a - b) * c
  <2>2. x \in Int /\ x = y /\ z = x - y
    BY <1>4, <2>1
  <2> HIDE DEF x, y, z
  <2>3. z = 0
    BY <2>2
  <2>4. QED  BY <2>3 DEF z
<1>6. a = b
  <2> HIDE DEF a, b
  <2> DEFINE x == a - b
  <2>1. x \in Int /\ x * c = 0
    BY <1>2, <1>5
  <2> HIDE DEF x
  <2>2. x = 0
    BY <2>1
  <2>3. QED  BY <1>2, <2>2 DEF x
<1>7. QED  BY <1>1, <1>6 DEF Equals

\* A ratio of two amounts of one currency, less one.
LEMMA ChangeIs ==
  ASSUME NEW a, NEW b, NEW n \in Int, NEW m \in Nat \ {0}, NEW c \in Nat \ {0},
         Equals(a, n, c), Equals(b, m, c)
  PROVE  Equals(Minus(Over2(a, b), Whole(1)), n - m, m)
<1> DEFINE u == n * c  v == c * m
<1>1. u \in Int /\ v \in Int /\ v = m * c /\ c # 0 /\ c \in Int /\ m \in Int /\ m # 0
  OBVIOUS
<1>2. Equals(Over2(a, b), u, v)
  BY <1>1, Over2Is
<1>3. u = n * c
  OBVIOUS
<1> HIDE DEF u, v
<1>4. Equals(Over2(a, b), n, m)
  BY <1>1, <1>2, <1>3, Reduced
<1>5. Equals(Whole(1), m, m)
  <2>1. 1 \in Int /\ 1 * m = m
    OBVIOUS
  <2>2. Equals(Whole(1), 1 * m, m)
    BY <1>1, <2>1, WholeEquals
  <2>3. QED  BY <2>1, <2>2
<1>6. QED  BY <1>1, <1>4, <1>5, MinusIs

LEMMA ZeroEquals == ASSUME NEW d \in Int PROVE Equals(Zero, 0, d)
<1>1. 0 \in Int /\ 0 * d = 0
  OBVIOUS
<1>2. Equals(Whole(0), 0 * d, d)
  BY <1>1, WholeEquals
<1>3. QED  BY <1>1, <1>2 DEF Zero

\* Finitely many fractions have a least and a largest.
LEMMA LeastFraction ==
  ASSUME NEW S, IsFiniteSet(S), S # {}, S \subseteq Fractions
  PROVE  /\ \E x \in S : \A y \in S : ~Less(y, x)
         /\ \E x \in S : \A y \in S : ~Less(x, y)
<1> DEFINE v == [x \in S |-> x]
<1>1. v \in [S -> Fractions] /\ \A x \in S : v[x] = x
  OBVIOUS
<1> HIDE DEF v
<1>2. PICK c \in Nat \ {0} : \E k \in [S -> Int] : \A x \in S : Equals(v[x], k[x], c)
  BY <1>1, CommonDenominator
<1>3. PICK k \in [S -> Int] : \A x \in S : Equals(v[x], k[x], c)
  BY <1>2
<1>4. \A x, y \in S : Less(x, y) <=> k[x] < k[y]
  <2> SUFFICES ASSUME NEW x \in S, NEW y \in S PROVE Less(x, y) <=> k[x] < k[y]
    OBVIOUS
  <2>1. Equals(x, k[x], c) /\ Equals(y, k[y], c) /\ k[x] \in Int /\ k[y] \in Int
    BY <1>1, <1>3
  <2>2. QED  BY <2>1, LessIs
<1>5. PICK lo \in S : \A y \in S : k[lo] <= k[y]
  BY LeastKey
<1>6. PICK hi \in S : \A y \in S : k[y] <= k[hi]
  BY LargestKey
<1>7. \A y \in S : k[y] \in Int
  OBVIOUS
<1>8. (\A y \in S : ~Less(y, lo)) /\ \A y \in S : ~Less(hi, y)
  BY <1>4, <1>5, <1>6, <1>7
<1>9. QED  BY <1>8

LEMMA TotalPositive ==
  ASSUME NEW D, IsFiniteSet(D), D # {}, NEW w \in [D -> Fractions], \A x \in D : Less(Zero, w[x])
  PROVE  Less(Zero, TotalOf(w))
<1>1. PICK c \in Nat \ {0} : \E k \in [D -> Int] : \A x \in D : Equals(w[x], k[x], c)
  BY CommonDenominator
<1>2. PICK k \in [D -> Int] : \A x \in D : Equals(w[x], k[x], c)
  BY <1>1
<1>3. Equals(TotalOf(w), SumFunction(k), c)
  BY <1>2, TotalSum
<1>4. Equals(Zero, 0, c)
  BY ZeroEquals
<1>5. \A x \in D : k[x] > 0
  <2> SUFFICES ASSUME NEW x \in D PROVE k[x] > 0
    OBVIOUS
  <2>1. Less(Zero, w[x]) <=> 0 < k[x]
    <3>1. k[x] \in Int /\ 0 \in Int /\ Equals(w[x], k[x], c)
      BY <1>2
    <3>2. QED  BY <1>4, <3>1, LessIs
  <2>2. QED  BY <2>1
<1>6. SumFunction(k) > 0 /\ SumFunction(k) \in Int
  BY <1>5, SumPositive, SumSplits
<1>7. QED  BY <1>3, <1>4, <1>6, LessIs

\* A curve of n positive amounts over one denominator.
Amounts(curve, n, k, c) ==
  /\ n \in Nat /\ n >= 2 /\ c \in Nat \ {0} /\ k \in [1 .. n -> Nat \ {0}]
  /\ curve \in [1 .. n -> Fractions] /\ Len(curve) = n
  /\ \A i \in 1 .. n : Equals(curve[i], k[i], c)

LEMMA PeakIs ==
  ASSUME NEW curve, NEW n, NEW k, NEW c, Amounts(curve, n, k, c), NEW i \in 1 .. n
  PROVE  \E p \in 1 .. i : Peak(curve, i) = curve[p] /\ \A j \in 1 .. i : k[j] <= k[p]
<1>1. n \in Nat /\ c \in Nat \ {0} /\ \A j \in 1 .. n : Equals(curve[j], k[j], c) /\ k[j] \in Int
  BY DEF Amounts
<1>2. i \in Int /\ 1 .. i \subseteq 1 .. n /\ IsFiniteSet(1 .. i) /\ i \in 1 .. i
  BY <1>1, FS_Interval
<1> DEFINE key == [j \in 1 .. i |-> k[j]]
           S == {curve[j] : j \in 1 .. i}
<1>3. key \in [1 .. i -> Int] /\ \A j \in 1 .. i : key[j] = k[j]
  BY <1>1, <1>2
<1>4. \A x, y \in 1 .. i : Less(curve[x], curve[y]) <=> k[x] < k[y]
  BY <1>1, <1>2, LessIs
<1> HIDE DEF key
<1>5. PICK q \in 1 .. i : \A j \in 1 .. i : key[j] <= key[q]
  BY <1>2, <1>3, LargestKey
<1>6. \A j \in 1 .. i : ~Less(curve[q], curve[j])
  <2> SUFFICES ASSUME NEW j \in 1 .. i PROVE ~Less(curve[q], curve[j])
    OBVIOUS
  <2>1. k[j] <= k[q] /\ k[j] \in Int /\ k[q] \in Int
    BY <1>1, <1>2, <1>3, <1>5
  <2>2. QED  BY <1>4, <2>1
<1>7. Peak(curve, i) \in S /\ \A j \in 1 .. i : ~Less(Peak(curve, i), curve[j])
  BY <1>6 DEF Peak
<1>8. PICK p \in 1 .. i : Peak(curve, i) = curve[p]
  BY <1>7
<1>9. \A j \in 1 .. i : k[j] <= k[p]
  <2> SUFFICES ASSUME NEW j \in 1 .. i PROVE k[j] <= k[p]
    OBVIOUS
  <2>1. ~Less(curve[p], curve[j])
    BY <1>7, <1>8
  <2>2. k[j] \in Int /\ k[p] \in Int
    BY <1>1, <1>2
  <2>3. QED  BY <1>4, <2>1, <2>2
<1>10. QED  BY <1>8, <1>9

Falls(curve) == {Minus(Over2(curve[i], Peak(curve, i)), Whole(1)) : i \in DOMAIN curve} \cup {Zero}

\* The worst fall is one of the falls, and no fall is worse.
LEMMA DrawdownIs ==
  ASSUME NEW curve, NEW n, NEW k, NEW c, Amounts(curve, n, k, c)
  PROVE  /\ Falls(curve) \subseteq Fractions
         /\ MaxDrawdown(curve) \in Falls(curve)
         /\ \A f \in Falls(curve) : ~Less(f, MaxDrawdown(curve))
<1> DEFINE fall(i) == Minus(Over2(curve[i], Peak(curve, i)), Whole(1))
           g == [i \in 1 .. n |-> fall(i)]
<1>1. n \in Nat /\ c \in Nat \ {0} /\ k \in [1 .. n -> Nat \ {0}] /\ DOMAIN curve = 1 .. n
      /\ \A j \in 1 .. n : Equals(curve[j], k[j], c)
  BY DEF Amounts
<1>2. ASSUME NEW i \in 1 .. n PROVE fall(i) \in Fractions
  <2>1. PICK p \in 1 .. i : Peak(curve, i) = curve[p]
    BY PeakIs
  <2>2. p \in 1 .. n /\ k[i] \in Int /\ k[p] \in Nat \ {0}
    BY <1>1
  <2>3. Equals(Minus(Over2(curve[i], curve[p]), Whole(1)), k[i] - k[p], k[p])
    BY <1>1, <2>2, ChangeIs
  <2>4. QED  BY <2>1, <2>3 DEF Equals
<1>3. {g[i] : i \in 1 .. n} = {fall(i) : i \in 1 .. n}
  OBVIOUS
<1>4. IsFiniteSet({g[i] : i \in 1 .. n})
  <2>1. IsFiniteSet(1 .. n)
    BY <1>1, FS_Interval
  <2>2. DOMAIN g = 1 .. n
    OBVIOUS
  <2> HIDE DEF g
  <2>3. QED  BY <2>1, <2>2, ImageIsFinite
<1>5. Falls(curve) = {g[i] : i \in 1 .. n} \cup {Zero}
  BY <1>1, <1>3 DEF Falls
<1>6. IsFiniteSet(Falls(curve))
  BY <1>4, <1>5, FS_AddElement
<1>7. Falls(curve) \subseteq Fractions
  BY <1>2, <1>3, <1>5, WholeIs DEF Zero
<1>8. Falls(curve) # {}
  BY DEF Falls
<1>9. \E x \in Falls(curve) : \A y \in Falls(curve) : ~Less(y, x)
  BY <1>6, <1>7, <1>8, LeastFraction
<1>10. MaxDrawdown(curve)
         = CHOOSE worst \in Falls(curve) : \A f \in Falls(curve) : ~Less(f, worst)
  BY DEF MaxDrawdown, Falls
<1>11. QED  BY <1>7, <1>9, <1>10

LEMMA WorstIsNoBetter ==
  ASSUME NEW curve, NEW n, NEW k, NEW c, Amounts(curve, n, k, c)
  PROVE  ~Less(TotalReturn(curve), MaxDrawdown(curve))
<1>1. n \in Nat /\ n >= 2 /\ c \in Nat \ {0} /\ k \in [1 .. n -> Nat \ {0}] /\ DOMAIN curve = 1 .. n
      /\ Len(curve) = n /\ \A j \in 1 .. n : Equals(curve[j], k[j], c)
  BY DEF Amounts
<1>2. 1 \in 1 .. n /\ n \in 1 .. n
  BY <1>1
<1>3. PICK p \in 1 .. n : Peak(curve, n) = curve[p] /\ \A j \in 1 .. n : k[j] <= k[p]
  BY <1>2, PeakIs
<1> DEFINE f == Minus(Over2(curve[n], curve[p]), Whole(1))
           t == Minus(Over2(curve[n], curve[1]), Whole(1))
           x == k[n]  y == k[p]  z == k[1]  a == (x - y) * z  b == (x - z) * y  d == y * z
<1>4. /\ x \in Nat \ {0} /\ y \in Nat \ {0} /\ z \in Nat \ {0} /\ z <= y
      /\ Equals(curve[n], x, c) /\ Equals(curve[p], y, c) /\ Equals(curve[1], z, c)
  BY <1>1, <1>2, <1>3
<1>5. TotalReturn(curve) = t
  BY <1>1 DEF TotalReturn, Last
<1>6. f \in Falls(curve)
  BY <1>1, <1>2, <1>3 DEF Falls
<1> HIDE DEF x, y, z
<1>7. Equals(f, x - y, y) /\ Equals(t, x - z, z)
  BY <1>1, <1>4, ChangeIs
<1> HIDE DEF f, t
<1>8. a \in Int /\ b \in Int /\ d \in Nat \ {0} /\ x - y \in Int /\ x - z \in Int
      /\ y \in Int /\ z \in Int /\ d = z * y
  BY <1>4
<1>9. a <= b
  <2>1. x * (y - z) >= 0 /\ b - a = x * (y - z)
    BY <1>4
  <2> HIDE DEF a, b
  <2> DEFINE w == x * (y - z)
  <2>2. w \in Int /\ w >= 0 /\ b - a = w
    BY <1>4, <2>1
  <2> HIDE DEF w
  <2>3. QED  BY <1>8, <2>2
<1>10. Equals(f, a, d) /\ Equals(t, b, d)
  <2>1. Equals(f, a, d)
    <3>1. a = (x - y) * z /\ d = y * z
      OBVIOUS
    <3> HIDE DEF a, b, d
    <3>2. QED  BY <1>7, <1>8, <3>1, Rescaled
  <2>2. Equals(t, b, d)
    <3>1. b = (x - z) * y
      OBVIOUS
    <3> HIDE DEF a, b, d
    <3>2. QED  BY <1>7, <1>8, <3>1, Rescaled
  <2>3. QED  BY <2>1, <2>2
<1> HIDE DEF a, b, d
<1>11. ~Less(t, f)
  BY <1>8, <1>9, <1>10, LessIs
<1>12. ~Less(f, MaxDrawdown(curve)) /\ f \in Fractions /\ MaxDrawdown(curve) \in Fractions
       /\ t \in Fractions
  BY <1>6, <1>10, DrawdownIs DEF Equals
<1>13. QED  BY <1>5, <1>11, <1>12, LessOrder

LEMMA LossesAre ==
  ASSUME NEW curve, NEW n, NEW k, NEW c, Amounts(curve, n, k, c)
  PROVE  /\ Losses(curve) = {i \in 1 .. n - 1 : k[i + 1] < k[i]}
         /\ \A i \in Losses(curve) :
              Returns(curve)[i] \in Fractions /\ Less(Returns(curve)[i], Zero)
<1>1. n \in Nat /\ n >= 2 /\ c \in Nat \ {0} /\ k \in [1 .. n -> Nat \ {0}] /\ DOMAIN curve = 1 .. n
      /\ Len(curve) = n /\ \A j \in 1 .. n : Equals(curve[j], k[j], c)
  BY DEF Amounts
<1>2. ASSUME NEW i \in 1 .. n - 1
      PROVE  /\ Returns(curve)[i] \in Fractions
             /\ Less(Returns(curve)[i], Zero) <=> k[i + 1] < k[i]
  <2> DEFINE x == k[i + 1]  y == k[i]  r == Minus(Over2(curve[i + 1], curve[i]), Whole(1))
  <2>1. i \in 1 .. n /\ i + 1 \in 1 .. n /\ (i + 1) - 1 = i
    BY <1>1
  <2>2. Returns(curve)[i] = r
    BY <1>1, <2>1 DEF Returns, Growth
  <2>3. x \in Nat \ {0} /\ y \in Nat \ {0} /\ Equals(curve[i + 1], x, c) /\ Equals(curve[i], y, c)
    BY <1>1, <2>1
  <2> HIDE DEF x, y
  <2>4. Equals(r, x - y, y)
    BY <1>1, <2>3, ChangeIs
  <2>5. Equals(Zero, 0, y)
    BY <2>3, ZeroEquals
  <2> HIDE DEF r
  <2>6. Less(r, Zero) <=> x - y < 0
    BY <2>3, <2>4, <2>5, LessIs
  <2>7. QED  BY <2>2, <2>3, <2>4, <2>6 DEF Equals, x, y
<1>3. DOMAIN Returns(curve) = 1 .. n - 1
  BY <1>1 DEF Returns
<1>4. QED  BY <1>2, <1>3 DEF Losses

LEMMA NoLossNoFall ==
  ASSUME NEW curve, NEW n, NEW k, NEW c, Amounts(curve, n, k, c)
  PROVE  (Losses(curve) = {}) <=> (MaxDrawdown(curve) = Zero)
<1>1. n \in Nat /\ n >= 2 /\ c \in Nat \ {0} /\ k \in [1 .. n -> Nat \ {0}] /\ DOMAIN curve = 1 .. n
      /\ \A j \in 1 .. n : Equals(curve[j], k[j], c)
  BY DEF Amounts
<1>2. ASSUME Losses(curve) = {} PROVE MaxDrawdown(curve) = Zero
  <2>1. \A i \in 1 .. n - 1 : k[i] <= k[i + 1]
    <3> SUFFICES ASSUME NEW i \in 1 .. n - 1 PROVE k[i] <= k[i + 1]
      OBVIOUS
    <3>1. ~(k[i + 1] < k[i])
      BY <1>2, LossesAre
    <3>2. k[i] \in Nat /\ k[i + 1] \in Nat
      BY <1>1
    <3>3. QED  BY <3>1, <3>2
  <2> DEFINE G == {i \in Nat : i \in 1 .. n => \A j \in 1 .. i : k[j] <= k[i]}
  <2>2. 0 \in G
    BY <1>1
  <2>3. ASSUME NEW i \in Nat, i \in G PROVE i + 1 \in G
    <3> SUFFICES ASSUME i + 1 \in 1 .. n, NEW j \in 1 .. i + 1 PROVE k[j] <= k[i + 1]
      OBVIOUS
    <3>1. CASE j = i + 1
      BY <1>1, <3>1
    <3>2. CASE j # i + 1
      <4>1. j \in 1 .. i /\ i \in 1 .. n /\ i \in 1 .. n - 1
        BY <1>1, <3>2
      <4>2. k[j] <= k[i] /\ k[i] <= k[i + 1]
        BY <2>1, <2>3, <4>1
      <4>3. k[j] \in Nat /\ k[i] \in Nat /\ k[i + 1] \in Nat
        BY <1>1, <4>1
      <4>4. QED  BY <4>2, <4>3
    <3>3. QED  BY <3>1, <3>2
  <2> HIDE DEF G
  <2>4. Nat \subseteq G
    BY <2>2, <2>3, CountingUp
  <2>5. \A i \in 1 .. n : \A j \in 1 .. i : k[j] <= k[i]
    BY <2>4 DEF G
  <2>6. ASSUME NEW i \in 1 .. n PROVE Minus(Over2(curve[i], Peak(curve, i)), Whole(1)) = Zero
    <3>1. PICK p \in 1 .. i : Peak(curve, i) = curve[p] /\ \A j \in 1 .. i : k[j] <= k[p]
      BY PeakIs
    <3> DEFINE x == k[i]  y == k[p]
    <3>2. x \in Nat \ {0} /\ y \in Nat \ {0} /\ y <= x /\ x <= y /\ p \in 1 .. n
          /\ Equals(curve[i], x, c) /\ Equals(curve[p], y, c)
      BY <1>1, <2>5, <3>1
    <3> HIDE DEF x, y
    <3>3. x - y = 0 /\ x \in Int
      BY <3>2
    <3>4. Equals(Minus(Over2(curve[i], curve[p]), Whole(1)), x - y, y)
      BY <1>1, <3>2, <3>3, ChangeIs
    <3>5. Equals(Minus(Over2(curve[i], curve[p]), Whole(1)), 0, y)
      BY <3>3, <3>4
    <3>6. y \in Int /\ y # 0 /\ 0 \in Int /\ Equals(Zero, 0, y)
      BY <3>2, ZeroEquals
    <3>7. Minus(Over2(curve[i], curve[p]), Whole(1)) = Zero
      BY <3>5, <3>6, SameValue
    <3>8. QED  BY <3>1, <3>7
  <2>7. Falls(curve) = {Zero}
    BY <1>1, <2>6 DEF Falls
  <2>8. QED  BY <2>7, DrawdownIs
<1>3. ASSUME Losses(curve) # {} PROVE MaxDrawdown(curve) # Zero
  <2>1. PICK i \in 1 .. n - 1 : k[i + 1] < k[i]
    BY <1>3, LossesAre
  <2>2. i \in 1 .. n /\ i + 1 \in 1 .. n /\ i \in 1 .. i + 1
    BY <1>1
  <2>3. PICK p \in 1 .. i + 1 : Peak(curve, i + 1) = curve[p] /\ \A j \in 1 .. i + 1 : k[j] <= k[p]
    BY <2>2, PeakIs
  <2> DEFINE x == k[i + 1]  y == k[p]  f == Minus(Over2(curve[i + 1], curve[p]), Whole(1))
  <2>4. x \in Nat \ {0} /\ y \in Nat \ {0} /\ x < y
        /\ Equals(curve[i + 1], x, c) /\ Equals(curve[p], y, c)
    <3>1. p \in 1 .. n /\ k[i] \in Nat /\ k[i] <= k[p]
      BY <1>1, <2>2, <2>3
    <3>2. x \in Nat \ {0} /\ y \in Nat \ {0}
      BY <1>1, <2>2, <3>1
    <3>3. x < y
      BY <2>1, <3>1, <3>2
    <3>4. QED  BY <1>1, <2>2, <3>1, <3>2, <3>3
  <2>5. f \in Falls(curve)
    BY <1>1, <2>2, <2>3 DEF Falls
  <2> HIDE DEF x, y
  <2>6. Equals(f, x - y, y) /\ Equals(Zero, 0, y)
    BY <1>1, <2>4, ChangeIs, ZeroEquals
  <2> HIDE DEF f
  <2>7. Less(f, Zero)
    BY <2>4, <2>6, LessIs
  <2>8. QED  BY <2>5, <2>7, DrawdownIs
<1>4. QED  BY <1>2, <1>3

LEMMA SquarePositive ==
  ASSUME NEW r \in Fractions, Less(r, Zero)
  PROVE  Times(r, r) \in Fractions /\ Less(Zero, Times(r, r))
<1> DEFINE n == r.num  d == r.den  m == n * n  e == d * d
<1>1. n \in Int /\ d \in Nat \ {0} /\ Equals(r, n, d)
  BY Itself DEF Fractions
<1> HIDE DEF n, d
<1>2. Equals(Zero, 0, d)
  BY <1>1, ZeroEquals
<1>3. n < 0
  BY <1>1, <1>2, LessIs
<1>4. m \in Int /\ m > 0 /\ e \in Nat \ {0}
  BY <1>1, <1>3
<1>5. Equals(Times(r, r), m, e)
  BY <1>1, TimesIs
<1> HIDE DEF m, e
<1>6. Equals(Zero, 0, e)
  BY <1>4, ZeroEquals
<1>7. QED  BY <1>4, <1>5, <1>6, LessIs DEF Equals

\* A curve that lost something has a downside deviation.
LEMMA LossesSpread ==
  ASSUME NEW curve, NEW n, NEW k, NEW c, Amounts(curve, n, k, c), Losses(curve) # {}
  PROVE  Sortino(curve).mean = Mean0(Returns(curve))
<1> DEFINE L == Losses(curve)
           w == [i \in L |-> Times(Returns(curve)[i], Returns(curve)[i])]
           s == TotalOf(w)
           q == Cardinality(L)
<1>1. IsFiniteSet(L)
  <2>1. n \in Nat
    BY DEF Amounts
  <2> DEFINE last == n - 1
  <2>a. last \in Int /\ 1 \in Int
    BY <2>1
  <2> HIDE DEF last
  <2>2. IsFiniteSet(1 .. last)
    BY <2>a, FS_Interval
  <2>3. Losses(curve) \subseteq 1 .. last
    BY LossesAre DEF last
  <2>4. QED  BY <2>2, <2>3, FS_Subset
<1>2. w \in [L -> Fractions] /\ \A i \in L : Less(Zero, w[i])
  BY LossesAre, SquarePositive
<1>3. q \in Nat /\ q # 0
  BY <1>1, FS_EmptySet, FS_CardinalityType
<1>4. Sortino(curve) = Ratio(Mean0(Returns(curve)), Over2(s, Whole(q)))
  BY DEF Sortino
<1> HIDE DEF w, q, L
<1>5. s \in Fractions /\ Less(Zero, s)
  BY <1>1, <1>2, TotalType, TotalPositive DEF L
<1> HIDE DEF s
<1>6. Over2(s, Whole(q)) # Zero
  <2> DEFINE a == s.num  b == s.den  x == Over2(s, Whole(q))  e == b * q
  <2>1. a \in Int /\ b \in Nat \ {0} /\ Equals(s, a, b)
    BY <1>5, Itself DEF Fractions
  <2> HIDE DEF a, b
  <2>2. Equals(Zero, 0, b)
    BY <2>1, ZeroEquals
  <2>3. a > 0
    BY <1>5, <2>1, <2>2, LessIs
  <2>4. Equals(Whole(q), q, 1)
    <3>1. q * 1 = q /\ 1 \in Int /\ q \in Int
      BY <1>3
    <3>2. Equals(Whole(q), q * 1, 1)
      BY <3>1, WholeEquals
    <3>3. QED  BY <3>1, <3>2
  <2>5. e \in Nat \ {0} /\ q \in Int /\ a * 1 = a
    BY <1>3, <2>1
  <2>6. Equals(x, a * 1, e)
    BY <1>3, <2>1, <2>4, <2>5, Over2Is
  <2> HIDE DEF x, e
  <2>7. Equals(x, a, e) /\ Equals(Zero, 0, e)
    BY <2>5, <2>6, ZeroEquals
  <2>8. Less(Zero, x)
    BY <2>1, <2>3, <2>5, <2>7, LessIs
  <2>9. x \in Fractions
    BY <2>7 DEF Equals
  <2>10. QED  BY <2>8, <2>9, LessTotal DEF x
<1>7. QED  BY <1>4, <1>6 DEF Ratio

\* The benchmark is a curve of amounts over the first one.
LEMMA BenchmarkIs ==
  ASSUME NEW m, Market(m), BacktestOptions, BenchmarkCurve(m) # <<>>
  PROVE  \E n, k, c : Amounts(BenchmarkCurve(m), n, k, c)
<1> DEFINE days == {d \in Calendar(m) : Benchmark(m)[d].close > 0}
           n == Cardinality(days)
           k == [i \in 1 .. n |-> Benchmark(m)[Nth(days, i)].close]
           c == k[1]
           curve == BenchmarkCurve(m)
<1>1. IsFiniteSet(days) /\ days \subseteq Int /\ n \in Nat
  BY CalendarFacts, FS_Subset, FS_CardinalityType
<1>2. ~(n < 2)
  BY DEF BenchmarkCurve
<1>3. curve = [i \in 1 .. n |-> Over2(Whole(Benchmark(m)[Nth(days, i)].close),
                                      Whole(Benchmark(m)[Nth(days, 1)].close))]
  BY <1>2 DEF BenchmarkCurve
<1>4. ASSUME NEW i \in 1 .. n PROVE k[i] \in Nat \ {0}
  <2> DEFINE d == Nth(days, i)
  <2>1. d \in days
    <3> HIDE DEF days
    <3>1. QED  BY <1>1, NthIs
  <2>2. d \in Calendar(m) /\ Benchmark(m)[d].close > 0
    BY <2>1
  <2>3. Benchmark(m)[d] = IF d \in DOMAIN m.index THEN m.index[d] ELSE Flat
    BY <2>2 DEF Benchmark
  <2>4. Benchmark(m)[d] \in DayBars
    BY <2>3 DEF Market, Flat, DayBars
  <2>5. Benchmark(m)[d].close \in Nat
    BY <2>4 DEF DayBars
  <2> HIDE DEF days, d
  <2>6. k[i] = Benchmark(m)[d].close
    BY DEF d
  <2>7. QED  BY <2>2, <2>5, <2>6
<1> HIDE DEF days
<1>5. k \in [1 .. n -> Nat \ {0}]
  BY <1>4
<1>6. \A i \in 1 .. n : curve[i] = Over2(Whole(k[i]), Whole(k[1]))
  BY <1>1, <1>2, <1>3
<1> HIDE DEF k, n, curve
<1>7. c \in Nat \ {0} /\ 1 \in 1 .. n
  BY <1>1, <1>2, <1>5
<1>8. ASSUME NEW i \in 1 .. n PROVE Equals(curve[i], k[i], c)
  <2> DEFINE x == k[i]
  <2>1. x \in Int /\ c \in Int /\ c # 0 /\ x * 1 = x /\ c * 1 = c /\ 1 * c = c /\ 1 \in Nat \ {0}
    BY <1>5, <1>7
  <2>2. curve[i] = Over2(Whole(x), Whole(c))
    BY <1>6
  <2> HIDE DEF x, c
  <2>a. 1 \in Int
    OBVIOUS
  <2>b. Equals(Whole(x), x * 1, 1)
    BY <2>1, <2>a, WholeEquals
  <2>c. Equals(Whole(c), c * 1, 1)
    BY <2>1, <2>a, WholeEquals
  <2>3. Equals(Whole(x), x * 1, 1) /\ Equals(Whole(c), c * 1, 1)
    BY <2>b, <2>c
  <2>4. Equals(Whole(x), x, 1) /\ Equals(Whole(c), c, 1)
    BY <2>1, <2>3
  <2>5. Equals(Over2(Whole(x), Whole(c)), x * 1, 1 * c)
    BY <2>1, <2>4, Over2Is
  <2>6. Equals(curve[i], x, c)
    BY <2>1, <2>2, <2>5
  <2>7. QED  BY <2>6 DEF x
<1>9. curve \in [1 .. n -> Fractions] /\ Len(curve) = n
  <2>1. \A i \in 1 .. n : curve[i] \in Fractions
    BY <1>8 DEF Equals
  <2>2. DOMAIN curve = 1 .. n
    BY <1>3 DEF curve
  <2>3. curve = [i \in 1 .. n |-> curve[i]]
    BY <1>3, <2>2 DEF curve
  <2>4. curve \in [1 .. n -> Fractions]
    BY <2>1, <2>3
  <2>5. curve \in Seq(Fractions)
    BY <1>1, <2>4 DEF n
  <2>6. QED  BY <1>1, <2>2, <2>4, <2>5 DEF n
<1>10. n \in Nat /\ n >= 2
  BY <1>1, <1>2 DEF n
<1>11. Amounts(curve, n, k, c)
  BY <1>5, <1>7, <1>8, <1>9, <1>10 DEF Amounts
<1>12. QED  BY <1>11 DEF curve

\* The drop from first to last is no worse than the worst drop, a curve without losses has none,
\* and Sharpe and Sortino report the same mean when both have a spread (compute_metrics).
LEMMA MetricsDoAgree ==
  ASSUME NEW m, Market(m), BacktestOptions
  PROVE  MetricsAgree(m)
<1> DEFINE curve == BenchmarkCurve(m)
<1> SUFFICES ASSUME curve # <<>>
    PROVE  /\ ~Less(TotalReturn(curve), MaxDrawdown(curve))
           /\ (Losses(curve) = {}) = (MaxDrawdown(curve) = Zero)
           /\ Sharpe(curve).mean = Zero \/ Losses(curve) = {}
                \/ Sortino(curve).mean = Sharpe(curve).mean
  BY DEF MetricsAgree
<1>1. PICK n, k, c : Amounts(curve, n, k, c)
  BY BenchmarkIs
<1> HIDE DEF curve
<1>2. ~Less(TotalReturn(curve), MaxDrawdown(curve))
  BY <1>1, WorstIsNoBetter
<1>3. (Losses(curve) = {}) = (MaxDrawdown(curve) = Zero)
  BY <1>1, NoLossNoFall
<1>4. Sharpe(curve).mean = Zero \/ Sharpe(curve).mean = Mean0(Returns(curve))
  BY DEF Sharpe, Ratio
<1>5. Losses(curve) # {} => Sortino(curve).mean = Mean0(Returns(curve))
  BY <1>1, LossesSpread
<1>6. QED  BY <1>2, <1>3, <1>4, <1>5

\* Both hold of every market: a backtest decides on what was known by the day, and its metrics
\* agree with each other and with the curve.
THEOREM BacktestsAreHonest == BacktestSpec => []BacktestIsHonest
<1> DEFINE OneOfThem == question \in [kind : {"backtest"}, of : Markets]
<1>1. BacktestInit => OneOfThem
  BY DEF BacktestInit
<1>2. OneOfThem /\ [UNCHANGED question]_question => OneOfThem'
  OBVIOUS
<1>3. OneOfThem => BacktestIsHonest
  <2> SUFFICES ASSUME OneOfThem PROVE BacktestIsHonest
    OBVIOUS
  <2>1. BacktestOptions /\ Market(question.of)
    BY MarketsAssumption
  <2>2. SeesOnlyThePast(question.of) /\ MetricsAgree(question.of)
    BY <2>1, BacktestSeesOnlyThePast, MetricsDoAgree
  <2>3. QED  BY <2>2 DEF BacktestIsHonest
<1>4. QED  BY <1>1, <1>2, <1>3, PTL DEF BacktestSpec, Stays

-----------------------------------------------------------------------------
(* Series and their beginnings *)

LEMMA BeginningIs ==
  ASSUME NEW V, NEW n \in Nat, NEW s \in [1 .. n -> V], NEW k \in 0 .. n
  PROVE  /\ SubSeq(s, 1, k) = [i \in 1 .. k |-> s[i]]
         /\ SubSeq(s, 1, k) \in [1 .. k -> V] /\ Len(SubSeq(s, 1, k)) = k
         /\ DOMAIN SubSeq(s, 1, k) = 1 .. k /\ Len(s) = n /\ DOMAIN s = 1 .. n
<1>1. s \in Seq(V) /\ Len(s) = n
  OBVIOUS
<1>2. /\ SubSeq(s, 1, k) \in Seq(V) /\ Len(SubSeq(s, 1, k)) = k
      /\ \A i \in 1 .. k : SubSeq(s, 1, k)[i] = s[i]
  BY <1>1
<1>3. SubSeq(s, 1, k) = [i \in 1 .. k |-> SubSeq(s, 1, k)[i]]
  BY <1>2
<1> DEFINE t == SubSeq(s, 1, k)
<1> HIDE DEF t
<1>4. t = [i \in 1 .. k |-> s[i]]
  BY <1>2, <1>3 DEF t
<1>5. DOMAIN t = 1 .. k /\ t \in [1 .. k -> V] /\ Len(t) = k
  <2>1. \A i \in 1 .. k : s[i] \in V
    OBVIOUS
  <2>2. Len(t) = k
    BY <1>2 DEF t
  <2>3. QED  BY <1>4, <2>1, <2>2
<1>6. QED  BY <1>1, <1>4, <1>5 DEF t

\* The window of a day is the last values up to it.
WindowIs(s, i, w, V) ==
  /\ Window(s, i, w) = [j \in 1 .. w |-> s[i - w + j]]
  /\ Window(s, i, w) \in [1 .. w -> V]

LEMMA WindowHas ==
  ASSUME NEW V, NEW n \in Nat, NEW s \in [1 .. n -> V], NEW w \in Nat \ {0}, NEW i \in w .. n
  PROVE  WindowIs(s, i, w, V)
<1>1. s \in Seq(V) /\ Len(s) = n
  OBVIOUS
<1> DEFINE a == i - w + 1
<1>2. a \in 1 .. i
  OBVIOUS
<1>3. /\ SubSeq(s, a, i) \in Seq(V) /\ Len(SubSeq(s, a, i)) = w
      /\ \A j \in 1 .. w : SubSeq(s, a, i)[j] = s[a + j - 1]
  BY <1>1, <1>2
<1>4. \A j \in 1 .. w : a + j - 1 = i - w + j /\ i - w + j \in 1 .. n
  OBVIOUS
<1> DEFINE e == [j \in 1 .. w |-> s[i - w + j]]
<1>5. SubSeq(s, a, i) = e
  BY <1>3, <1>4
<1>6. e \in [1 .. w -> V]
  <2>1. \A j \in 1 .. w : s[i - w + j] \in V
    BY <1>4
  <2>2. QED  BY <2>1
<1>7. QED  BY <1>5, <1>6 DEF Window, WindowIs

-----------------------------------------------------------------------------
(* Recursion over an interval *)

Runs(h, a, b, V, first, next) ==
  h = [i \in a .. b |-> IF i = a THEN first ELSE next[<<i, h[i - 1]>>]] /\ h \in [a .. b -> V]

LEMMA RunExists ==
  ASSUME NEW V, NEW a \in Int, NEW b \in Int, NEW first \in V, NEW next \in [(a .. b) \X V -> V]
  PROVE  \E h : Runs(h, a, b, V, first, next)
<1> DEFINE G == {m \in Nat : a + m <= b => \E h : Runs(h, a, a + m, V, first, next)}
<1>1. 0 \in G
  <2>1. Runs([i \in a .. a |-> first], a, a, V, first, next)
    BY DEF Runs
  <2>2. a + 0 = a
    OBVIOUS
  <2>3. QED  BY <2>1, <2>2
<1>2. ASSUME NEW m \in Nat, m \in G PROVE m + 1 \in G
  <2> SUFFICES ASSUME a + (m + 1) <= b PROVE \E h : Runs(h, a, a + (m + 1), V, first, next)
    OBVIOUS
  <2> DEFINE c == a + m
             d == a + (m + 1)
  <2>1. c \in Int /\ d = c + 1 /\ d <= b /\ c >= a /\ d \in a .. b
    OBVIOUS
  <2>2. PICK h : Runs(h, a, c, V, first, next)
    BY <1>2, <2>1
  <2> HIDE DEF c, d
  <2>3. h[c] \in V
    BY <2>1, <2>2 DEF Runs
  <2>4. next[<<d, h[c]>>] \in V
    BY <2>1, <2>3
  <2> DEFINE e == [i \in a .. d |-> IF i = d THEN next[<<d, h[c]>>] ELSE h[i]]
  <2>5. e \in [a .. d -> V]
    BY <2>1, <2>2, <2>4 DEF Runs
  <2>6. \A i \in a .. d : e[i] = IF i = a THEN first ELSE next[<<i, e[i - 1]>>]
    <3> SUFFICES ASSUME NEW i \in a .. d PROVE e[i] = IF i = a THEN first ELSE next[<<i, e[i - 1]>>]
      OBVIOUS
    <3>1. CASE i = d
      <4>1. i # a /\ i - 1 = c /\ c \in a .. d /\ c # d
        BY <2>1, <3>1
      <4>2. e[i - 1] = h[c]
        BY <4>1
      <4>3. QED  BY <3>1, <4>1, <4>2
    <3>2. CASE i # d
      <4>1. i \in a .. c
        BY <2>1, <3>2
      <4>2. h[i] = IF i = a THEN first ELSE next[<<i, h[i - 1]>>]
        BY <2>2, <4>1 DEF Runs
      <4>3. i # a => i - 1 \in a .. d /\ i - 1 # d
        BY <2>1, <4>1
      <4>4. QED  BY <3>2, <4>2, <4>3
    <3>3. QED  BY <3>1, <3>2
  <2>7. e = [i \in a .. d |-> IF i = a THEN first ELSE next[<<i, e[i - 1]>>]]
    <3>1. e = [i \in a .. d |-> e[i]]
      BY <2>5
    <3> HIDE DEF e
    <3>2. QED  BY <2>6, <3>1
  <2>8. Runs(e, a, d, V, first, next)
    BY <2>5, <2>7 DEF Runs
  <2>9. QED  BY <2>8 DEF d
<1>3. Nat \subseteq G
  <2> HIDE DEF G
  <2>1. QED  BY <1>1, <1>2, CountingUp
<1>4. CASE a <= b
  <2> DEFINE m == b - a
  <2>1. m \in Nat /\ a + m = b
    BY <1>4
  <2> HIDE DEF m
  <2>2. m \in G
    BY <1>3, <2>1
  <2>3. QED  BY <2>1, <2>2
<1>5. CASE b < a
  <2>1. a .. b = {}
    BY <1>5
  <2> DEFINE h == [i \in a .. b |-> first]
  <2>2. h = [i \in a .. b |-> IF i = a THEN first ELSE next[<<i, h[i - 1]>>]]
    BY <2>1
  <2>3. h \in [a .. b -> V]
    OBVIOUS
  <2> HIDE DEF h
  <2>4. Runs(h, a, b, V, first, next)
    BY <2>2, <2>3 DEF Runs
  <2>5. QED  BY <2>4
<1>6. QED  BY <1>4, <1>5

\* What holds of a, and of i + 1 when it holds of i, holds of every number from a to b.
LEMMA CountingFrom ==
  ASSUME NEW a \in Int, NEW b \in Int, NEW G, a <= b => a \in G,
         \A i \in a .. b - 1 : i \in G => i + 1 \in G
  PROVE  a .. b \subseteq G
<1> DEFINE H == {m \in Nat : a + m <= b => a + m \in G}
<1>1. 0 \in H
  <2>1. a + 0 = a
    OBVIOUS
  <2>2. QED  BY <2>1
<1>2. ASSUME NEW m \in Nat, m \in H PROVE m + 1 \in H
  <2> SUFFICES ASSUME a + (m + 1) <= b PROVE a + (m + 1) \in G
    OBVIOUS
  <2>1. a + m \in a .. b - 1 /\ a + m <= b /\ a + (m + 1) = (a + m) + 1
    OBVIOUS
  <2>2. QED  BY <1>2, <2>1
<1>3. Nat \subseteq H
  <2> HIDE DEF H
  <2>1. QED  BY <1>1, <1>2, CountingUp
<1>4. ASSUME NEW i \in a .. b PROVE i \in G
  <2>1. i - a \in Nat /\ a + (i - a) = i /\ i <= b
    OBVIOUS
  <2>2. i - a \in H
    BY <1>3, <2>1
  <2>3. QED  BY <2>1, <2>2
<1>5. QED  BY <1>4

-----------------------------------------------------------------------------
(* Sums and means of series *)

\* The partial sums of a series.
PartSums(h, s, n) ==
  /\ h = [i \in 0 .. n |-> IF i = 0 THEN Zero ELSE Plus(h[i - 1], s[i])]
  /\ h \in [0 .. n -> Fractions]

LEMMA SumIs ==
  ASSUME NEW n \in Nat, NEW s \in [1 .. n -> Fractions]
  PROVE  \E h : PartSums(h, s, n) /\ Sum(s) = h[n]
<1>1. Len(s) = n
  OBVIOUS
<1> DEFINE next == [p \in (0 .. n) \X Fractions |-> IF p[1] = 0 THEN Zero ELSE Plus(p[2], s[p[1]])]
           E(h) == h = [i \in 0 .. n |-> IF i = 0 THEN Zero ELSE Plus(h[i - 1], s[i])]
<1>2. Zero \in Fractions
  BY WholeIs DEF Zero
<1>3. next \in [(0 .. n) \X Fractions -> Fractions]
  <2> SUFFICES ASSUME NEW i \in 0 .. n, NEW v \in Fractions
               PROVE (IF i = 0 THEN Zero ELSE Plus(v, s[i])) \in Fractions
    OBVIOUS
  <2>1. i # 0 => s[i] \in Fractions
    OBVIOUS
  <2>2. QED  BY <1>2, <2>1, PlusType
<1>4. \A i \in 0 .. n, v \in Fractions : i # 0 => next[<<i, v>>] = Plus(v, s[i])
  OBVIOUS
<1> HIDE DEF next
<1>5. PICK g : Runs(g, 0, n, Fractions, Zero, next)
  <2>1. 0 \in Int /\ n \in Int
    OBVIOUS
  <2>2. QED  BY <1>2, <1>3, <2>1, RunExists
<1>6. E(g)
  <2>1. g = [i \in 0 .. n |-> IF i = 0 THEN Zero ELSE next[<<i, g[i - 1]>>]]
    BY <1>5 DEF Runs
  <2>2. \A i \in 0 .. n : i # 0 => g[i - 1] \in Fractions
    BY <1>5 DEF Runs
  <2>3. \A i \in 0 .. n : i # 0 => next[<<i, g[i - 1]>>] = Plus(g[i - 1], s[i])
    BY <1>4, <2>2
  <2>4. [i \in 0 .. n |-> IF i = 0 THEN Zero ELSE next[<<i, g[i - 1]>>]]
          = [i \in 0 .. n |-> IF i = 0 THEN Zero ELSE Plus(g[i - 1], s[i])]
    BY <2>3
  <2>5. QED  BY <2>1, <2>4
<1> DEFINE h == CHOOSE h : E(h)
<1>7. E(h)
  BY <1>6
<1>8. Sum(s) = h[n]
  BY <1>1 DEF Sum
<1> HIDE DEF h
<1>9. 0 .. n \subseteq {i \in 0 .. n : h[i] \in Fractions}
  <2> DEFINE G == {i \in 0 .. n : h[i] \in Fractions}
  <2>1. 0 \in G
    BY <1>2, <1>7
  <2>2. ASSUME NEW i \in 0 .. n - 1, i \in G PROVE i + 1 \in G
    <3>1. i + 1 \in 0 .. n /\ i + 1 # 0 /\ (i + 1) - 1 = i
      OBVIOUS
    <3>2. h[i + 1] = Plus(h[i], s[i + 1])
      BY <1>7, <3>1
    <3>3. h[i] \in Fractions /\ s[i + 1] \in Fractions
      BY <2>2, <3>1
    <3>4. QED  BY <3>1, <3>2, <3>3, PlusType
  <2>3. QED
    <3>1. 0 \in Int /\ n \in Int
      OBVIOUS
    <3> HIDE DEF G
    <3>2. 0 .. n \subseteq G
      BY <2>1, <2>2, <3>1, CountingFrom
    <3>3. QED  BY <3>2 DEF G
<1>10. h \in [0 .. n -> Fractions]
  BY <1>7, <1>9
<1>11. QED  BY <1>7, <1>8, <1>10 DEF PartSums

\* Fractions that are not negative.
Amount(f) == f \in Fractions /\ ~Less(f, Zero)

LEMMA AmountIs ==
  ASSUME NEW f, NEW n \in Int, NEW d \in Nat \ {0}, Equals(f, n, d)
  PROVE  Amount(f) <=> n >= 0
<1>1. Equals(Zero, 0, d) /\ 0 \in Int
  BY ZeroEquals
<1>2. Less(f, Zero) <=> n < 0
  BY <1>1, LessIs
<1>3. QED  BY <1>2, EqualsType DEF Amount

LEMMA AmountPlus == ASSUME NEW f, NEW g, Amount(f), Amount(g) PROVE Amount(Plus(f, g))
<1>1. f \in Fractions /\ g \in Fractions
  BY DEF Amount
<1>2. PICK n \in Int, m \in Int, d \in Nat \ {0} : Equals(f, n, d) /\ Equals(g, m, d)
  BY <1>1, InCommon
<1>3. n >= 0 /\ m >= 0
  BY <1>2, AmountIs
<1>4. Equals(Plus(f, g), n + m, d)
  BY <1>2, PlusIs
<1>5. n + m \in Int /\ n + m >= 0
  BY <1>3
<1>6. QED  BY <1>4, <1>5, AmountIs

LEMMA AmountTimes == ASSUME NEW f, NEW g, Amount(f), Amount(g) PROVE Amount(Times(f, g))
<1>1. f \in Fractions /\ g \in Fractions
  BY DEF Amount
<1>2. PICK n \in Int, m \in Int, d \in Nat \ {0} : Equals(f, n, d) /\ Equals(g, m, d)
  BY <1>1, InCommon
<1>3. n >= 0 /\ m >= 0
  BY <1>2, AmountIs
<1>4. Equals(Times(f, g), n * m, d * d)
  BY <1>2, TimesIs
<1>5. n * m \in Int /\ n * m >= 0 /\ d * d \in Nat \ {0}
  BY <1>3
<1>6. QED  BY <1>4, <1>5, AmountIs

LEMMA AmountOver ==
  ASSUME NEW f, NEW g, Amount(f), Amount(g), g # Zero
  PROVE  Amount(Over2(f, g))
<1>1. f \in Fractions /\ g \in Fractions
  BY DEF Amount
<1>2. PICK n \in Int, m \in Int, d \in Nat \ {0} : Equals(f, n, d) /\ Equals(g, m, d)
  BY <1>1, InCommon
<1>3. n >= 0 /\ m >= 0
  BY <1>2, AmountIs
<1>4. m # 0
  <2>1. SUFFICES ASSUME m = 0 PROVE FALSE
    OBVIOUS
  <2>2. Equals(Zero, 0, d) /\ 0 \in Int /\ d \in Int /\ d # 0
    BY ZeroEquals
  <2>3. Equals(g, 0, d)
    BY <1>2, <2>1
  <2>4. QED  BY <2>2, <2>3, SameValue
<1>5. Equals(Over2(f, g), n * d, d * m)
  BY <1>2, <1>4, Over2Is
<1>6. n * d \in Int /\ n * d >= 0 /\ d * m \in Nat \ {0}
  BY <1>3, <1>4
<1>7. QED  BY <1>5, <1>6, AmountIs

LEMMA WholeAmount == ASSUME NEW n \in Nat PROVE Amount(Whole(n))
<1>1. Equals(Whole(n), n * 1, 1) /\ n * 1 = n /\ n \in Int /\ 1 \in Nat \ {0}
  BY WholeEquals
<1>2. Equals(Whole(n), n, 1)
  BY <1>1
<1>3. QED  BY <1>1, <1>2, AmountIs

LEMMA SeriesSumType ==
  ASSUME NEW n \in Nat, NEW s \in [1 .. n -> Fractions]
  PROVE  Sum(s) \in Fractions /\ ((\A i \in 1 .. n : Amount(s[i])) => Amount(Sum(s)))
<1>1. PICK h : PartSums(h, s, n) /\ Sum(s) = h[n]
  BY SumIs
<1>2. h[n] \in Fractions
  BY <1>1 DEF PartSums
<1>3. ASSUME \A i \in 1 .. n : Amount(s[i]) PROVE Amount(h[n])
  <2> DEFINE G == {i \in 0 .. n : Amount(h[i])}
  <2>1. 0 \in G
    <3>1. h[0] = Zero
      BY <1>1 DEF PartSums
    <3>2. Amount(Zero)
      BY WholeAmount DEF Zero
    <3>3. QED  BY <3>1, <3>2
  <2>2. ASSUME NEW i \in 0 .. n - 1, i \in G PROVE i + 1 \in G
    <3>1. i + 1 \in 0 .. n /\ i + 1 # 0 /\ (i + 1) - 1 = i /\ i + 1 \in 1 .. n
      OBVIOUS
    <3>2. h[i + 1] = Plus(h[i], s[i + 1])
      BY <1>1, <3>1 DEF PartSums
    <3>3. Amount(h[i]) /\ Amount(s[i + 1])
      BY <1>3, <2>2, <3>1
    <3>4. QED  BY <3>1, <3>2, <3>3, AmountPlus
  <2>3. 0 \in Int /\ n \in Int
    OBVIOUS
  <2>4. 0 .. n \subseteq G
    <3> HIDE DEF G
    <3>1. QED  BY <2>1, <2>2, <2>3, CountingFrom
  <2>5. QED  BY <2>4
<1>4. QED  BY <1>1, <1>2, <1>3

LEMMA WholeNotZero == ASSUME NEW n \in Nat \ {0} PROVE Whole(n) # Zero
  BY DEF Zero, Whole

LEMMA MeanType ==
  ASSUME NEW n \in Nat \ {0}, NEW s \in [1 .. n -> Fractions]
  PROVE  Mean(s) \in Fractions /\ ((\A i \in 1 .. n : Amount(s[i])) => Amount(Mean(s)))
<1>1. Len(s) = n
  OBVIOUS
<1>2. Whole(n) \in Fractions /\ Whole(n) # Zero /\ Amount(Whole(n))
  BY WholeIs, WholeNotZero, WholeAmount
<1>3. Sum(s) \in Fractions /\ ((\A i \in 1 .. n : Amount(s[i])) => Amount(Sum(s)))
  BY SeriesSumType
<1>4. Mean(s) = Over2(Sum(s), Whole(n))
  BY <1>1 DEF Mean
<1>5. Over2(Sum(s), Whole(n)) \in Fractions
  BY <1>2, <1>3, QuotientType
<1>6. Amount(Sum(s)) => Amount(Over2(Sum(s), Whole(n)))
  BY <1>2, AmountOver
<1>7. QED  BY <1>3, <1>4, <1>5, <1>6

LEMMA TimesType == ASSUME NEW f \in Fractions, NEW h \in Fractions PROVE Times(f, h) \in Fractions
<1>1. PICK n \in Int, m \in Int, d \in Nat \ {0} : Equals(f, n, d) /\ Equals(h, m, d)
  BY InCommon
<1>2. Equals(Times(f, h), n * m, d * d)
  BY <1>1, TimesIs
<1>3. QED  BY <1>2 DEF Equals

\* One step of a smoothing.
Blended(alpha, value, before) == Plus(Times(alpha, value), Times(Minus(Whole(1), alpha), before))

\* What a smoothed series is: nothing while it warms up, then the mean, then the recurrence.
Smooths(t, s, n, w, alpha) ==
  /\ t = [i \in 1 .. n |-> t[i]]
  /\ \A i \in 1 .. n : t[i] = IF i < w THEN Missing
                              ELSE IF i = w THEN Mean(SubSeq(s, 1, w))
                              ELSE Blended(alpha, s[i], t[i - 1])
  /\ \A i \in 1 .. n : i >= w => t[i] \in Fractions

LEMMA SmoothedIs ==
  ASSUME NEW n \in Nat, NEW s \in [1 .. n -> Fractions], NEW w \in Nat \ {0}, NEW alpha \in Fractions
  PROVE  Smooths(Smoothed(s, w, alpha), s, n, w, alpha)
<1>1. Len(s) = n /\ DOMAIN s = 1 .. n
  OBVIOUS
<1> DEFINE first == Mean(SubSeq(s, 1, w))
           E(h) == h = [i \in w .. n |-> IF i = w THEN first
                                         ELSE Plus(Times(alpha, s[i]),
                                                   Times(Minus(Whole(1), alpha), h[i - 1]))]
           h == CHOOSE h : E(h)
<1>2. Smoothed(s, w, alpha) = [i \in 1 .. n |-> IF i < w THEN Missing ELSE h[i]]
  BY <1>1 DEF Smoothed
<1>3. w <= n => first \in Fractions
  <2> SUFFICES ASSUME w <= n PROVE first \in Fractions
    OBVIOUS
  <2>1. w \in 0 .. n
    OBVIOUS
  <2>2. SubSeq(s, 1, w) \in [1 .. w -> Fractions]
    BY <2>1, BeginningIs
  <2>3. QED  BY <2>2, MeanType
<1> DEFINE next == [p \in (w .. n) \X Fractions |-> Blended(alpha, s[p[1]], p[2])]
<1>4. Minus(Whole(1), alpha) \in Fractions
  BY WholeIs, MinusType
<1>5. \A x, y \in Fractions : Blended(alpha, x, y) \in Fractions
  BY <1>4, TimesType, PlusType DEF Blended
<1>6. \A i \in w .. n : s[i] \in Fractions
  OBVIOUS
<1>7. next \in [(w .. n) \X Fractions -> Fractions]
  BY <1>5, <1>6
<1>8. \A i \in w .. n, v \in Fractions : next[<<i, v>>] = Blended(alpha, s[i], v)
  OBVIOUS
<1> HIDE DEF next, first
<1>9. \E g : E(g)
  <2>1. CASE w <= n
    <3>1. PICK g : Runs(g, w, n, Fractions, first, next)
      <4>1. w \in Int /\ n \in Int
        OBVIOUS
      <4>2. QED  BY <1>3, <1>7, <2>1, <4>1, RunExists
    <3>2. g = [i \in w .. n |-> IF i = w THEN first ELSE next[<<i, g[i - 1]>>]]
      BY <3>1 DEF Runs
    <3>3. \A i \in w .. n : i # w => g[i - 1] \in Fractions
      BY <3>1 DEF Runs
    <3>4. \A i \in w .. n : i # w =>
            next[<<i, g[i - 1]>>] = Plus(Times(alpha, s[i]), Times(Minus(Whole(1), alpha), g[i - 1]))
      BY <1>8, <3>3 DEF Blended
    <3>5. [i \in w .. n |-> IF i = w THEN first ELSE next[<<i, g[i - 1]>>]]
            = [i \in w .. n |-> IF i = w THEN first
                                ELSE Plus(Times(alpha, s[i]), Times(Minus(Whole(1), alpha), g[i - 1]))]
      BY <3>4
    <3>6. E(g)
      BY <3>2, <3>5
    <3>7. QED  BY <3>6
  <2>2. CASE w > n
    <3>1. w .. n = {}
      BY <2>2
    <3> DEFINE g == [i \in w .. n |-> first]
    <3>2. E(g)
      BY <3>1
    <3>3. QED  BY <3>2
  <2>3. QED  BY <2>1, <2>2
<1>10. E(h)
  BY <1>9
<1> HIDE DEF h
<1>11. \A i \in w .. n : h[i] = IF i = w THEN first ELSE Blended(alpha, s[i], h[i - 1])
  BY <1>10 DEF Blended
<1>12. \A i \in w .. n : h[i] \in Fractions
  <2> DEFINE G == {i \in w .. n : h[i] \in Fractions}
  <2>1. w <= n => w \in G
    BY <1>3, <1>11
  <2>2. ASSUME NEW i \in w .. n - 1, i \in G PROVE i + 1 \in G
    <3>1. i + 1 \in w .. n /\ i + 1 # w /\ (i + 1) - 1 = i
      OBVIOUS
    <3>2. h[i + 1] = Blended(alpha, s[i + 1], h[i])
      BY <1>11, <3>1
    <3>3. h[i] \in Fractions /\ s[i + 1] \in Fractions
      BY <1>6, <2>2, <3>1
    <3>4. QED  BY <1>5, <3>1, <3>2, <3>3
  <2>3. w \in Int /\ n \in Int
    OBVIOUS
  <2>4. w .. n \subseteq G
    <3> HIDE DEF G
    <3>1. QED  BY <2>1, <2>2, <2>3, CountingFrom
  <2>5. QED  BY <2>4
<1> DEFINE t == Smoothed(s, w, alpha)
<1>13. \A i \in 1 .. n : t[i] = IF i < w THEN Missing ELSE h[i]
  BY <1>2
<1>14. t = [i \in 1 .. n |-> t[i]]
  BY <1>2
<1> HIDE DEF t
<1>15. \A i \in 1 .. n : i >= w => t[i] \in Fractions
  BY <1>12, <1>13
<1>16. ASSUME NEW i \in 1 .. n
       PROVE t[i] = IF i < w THEN Missing ELSE IF i = w THEN first ELSE Blended(alpha, s[i], t[i - 1])
  <2>1. i > w => t[i - 1] = h[i - 1]
    BY <1>13
  <2>2. i >= w => i \in w .. n
    OBVIOUS
  <2>3. QED  BY <1>11, <1>13, <2>1, <2>2
<1>17. Smooths(t, s, n, w, alpha)
  BY <1>14, <1>15, <1>16 DEF Smooths, first
<1>18. QED  BY <1>17 DEF t

LEMMA SmoothsAt ==
  ASSUME NEW t, NEW s, NEW n \in Nat, NEW w \in Nat \ {0}, NEW alpha, Smooths(t, s, n, w, alpha),
         NEW i \in 1 .. n
  PROVE  /\ i < w => t[i] = Missing
         /\ i = w => t[i] = Mean(SubSeq(s, 1, w))
         /\ i > w => t[i] = Blended(alpha, s[i], t[i - 1])
         /\ i >= w => t[i] \in Fractions
<1>1. t[i] = IF i < w THEN Missing ELSE IF i = w THEN Mean(SubSeq(s, 1, w))
                      ELSE Blended(alpha, s[i], t[i - 1])
  BY DEF Smooths
<1>2. i >= w => t[i] \in Fractions
  BY DEF Smooths
<1>3. QED  BY <1>1, <1>2

\* A smoothing of the first k values is the first k values of the smoothing.
LEMMA SmoothedPast ==
  ASSUME NEW n \in Nat, NEW s \in [1 .. n -> Fractions], NEW w \in Nat \ {0}, NEW alpha \in Fractions,
         NEW k \in 0 .. n
  PROVE  \A i \in 1 .. k : Smoothed(SubSeq(s, 1, k), w, alpha)[i] = Smoothed(s, w, alpha)[i]
<1> DEFINE p == SubSeq(s, 1, k)
           t == Smoothed(s, w, alpha)
           u == Smoothed(p, w, alpha)
<1>1. p \in [1 .. k -> Fractions] /\ \A i \in 1 .. k : p[i] = s[i]
  BY BeginningIs
<1>2. Smooths(t, s, n, w, alpha)
  BY SmoothedIs
<1>3. Smooths(u, p, k, w, alpha)
  <2>1. k \in Nat /\ p \in [1 .. k -> Fractions]
    BY <1>1
  <2> HIDE DEF p
  <2>2. QED  BY <2>1, SmoothedIs
<1>4. w \in 1 .. k => SubSeq(p, 1, w) = SubSeq(s, 1, w)
  <2> SUFFICES ASSUME w \in 1 .. k PROVE SubSeq(p, 1, w) = SubSeq(s, 1, w)
    OBVIOUS
  <2>1. w \in 0 .. k /\ w \in 0 .. n
    OBVIOUS
  <2>2. SubSeq(p, 1, w) = [i \in 1 .. w |-> p[i]]
    <3> HIDE DEF p
    <3>1. QED  BY <1>1, <2>1, BeginningIs
  <2>3. SubSeq(s, 1, w) = [i \in 1 .. w |-> s[i]]
    BY <2>1, BeginningIs
  <2> HIDE DEF p
  <2>4. \A i \in 1 .. w : p[i] = s[i]
    BY <1>1
  <2>5. QED  BY <2>2, <2>3, <2>4
<1> DEFINE G == {i \in 1 .. k : u[i] = t[i]}
<1> HIDE DEF p, t, u
<1>5. ASSUME NEW i \in 1 .. k, i <= w PROVE u[i] = t[i]
  <2>1. i \in 1 .. n
    OBVIOUS
  <2>2. (i < w => u[i] = Missing) /\ (i = w => u[i] = Mean(SubSeq(p, 1, w)))
    BY <1>3, SmoothsAt
  <2>3. (i < w => t[i] = Missing) /\ (i = w => t[i] = Mean(SubSeq(s, 1, w)))
    BY <1>2, <2>1, SmoothsAt
  <2>4. i = w => w \in 1 .. k
    OBVIOUS
  <2>5. i = w => SubSeq(p, 1, w) = SubSeq(s, 1, w)
    BY <1>4, <2>4
  <2>6. CASE i = w
    BY <2>2, <2>3, <2>5, <2>6
  <2>7. CASE i < w
    BY <2>2, <2>3, <2>7
  <2>8. i < w \/ i = w
    BY <1>5
  <2>9. QED  BY <2>6, <2>7, <2>8
<1>6. \A i \in 1 .. k : i > w /\ u[i - 1] = t[i - 1] => u[i] = t[i]
  <2> SUFFICES ASSUME NEW i \in 1 .. k, i > w, u[i - 1] = t[i - 1] PROVE u[i] = t[i]
    OBVIOUS
  <2>1. i \in 1 .. n /\ p[i] = s[i]
    BY <1>1
  <2>2. u[i] = Blended(alpha, p[i], u[i - 1])
    BY <1>3, SmoothsAt
  <2>3. t[i] = Blended(alpha, s[i], t[i - 1])
    BY <1>2, <2>1, SmoothsAt
  <2>4. QED  BY <2>1, <2>2, <2>3
<1>7. 1 <= k => 1 \in G
  BY <1>5
<1>8. ASSUME NEW i \in 1 .. k - 1, i \in G PROVE i + 1 \in G
  <2>1. i + 1 \in 1 .. k /\ (i + 1) - 1 = i
    OBVIOUS
  <2>2. CASE i + 1 <= w
    BY <1>5, <2>1, <2>2
  <2>3. CASE i + 1 > w
    BY <1>6, <1>8, <2>1, <2>3
  <2>4. QED  BY <2>2, <2>3, <2>1
<1>9. 1 .. k \subseteq G
  <2>1. 1 \in Int /\ k \in Int
    OBVIOUS
  <2> HIDE DEF G
  <2>2. QED  BY <1>7, <1>8, <2>1, CountingFrom
<1>10. QED  BY <1>9 DEF p, t, u

\* A smoothing of amounts by a share is amounts.
LEMMA SmoothedAmounts ==
  ASSUME NEW n \in Nat, NEW s \in [1 .. n -> Fractions], \A i \in 1 .. n : Amount(s[i]),
         NEW w \in Nat \ {0}, NEW alpha, Amount(alpha), Amount(Minus(Whole(1), alpha))
  PROVE  \A i \in 1 .. n : i >= w => Amount(Smoothed(s, w, alpha)[i])
<1> DEFINE t == Smoothed(s, w, alpha)
<1>1. Smooths(t, s, n, w, alpha)
  <2>1. alpha \in Fractions
    BY DEF Amount
  <2>2. QED  BY <2>1, SmoothedIs
<1>2. w \in 1 .. n => Amount(Mean(SubSeq(s, 1, w)))
  <2> SUFFICES ASSUME w \in 1 .. n PROVE Amount(Mean(SubSeq(s, 1, w)))
    OBVIOUS
  <2> DEFINE p == SubSeq(s, 1, w)
  <2>1. p \in [1 .. w -> Fractions] /\ p = [i \in 1 .. w |-> s[i]]
    <3>1. w \in 0 .. n
      OBVIOUS
    <3>2. QED  BY <3>1, BeginningIs
  <2> HIDE DEF p
  <2>2. \A i \in 1 .. w : Amount(p[i])
    BY <2>1
  <2>3. Amount(Mean(p))
    BY <2>1, <2>2, MeanType
  <2>4. QED  BY <2>3 DEF p
<1> HIDE DEF t
<1> DEFINE G == {i \in w .. n : Amount(t[i])}
<1>3. w <= n => w \in G
  <2>1. w <= n => w \in 1 .. n /\ w \in w .. n
    OBVIOUS
  <2>2. w <= n => t[w] = Mean(SubSeq(s, 1, w))
    BY <1>1, <2>1, SmoothsAt
  <2>3. QED  BY <1>2, <2>1, <2>2
<1>4. ASSUME NEW i \in w .. n - 1, i \in G PROVE i + 1 \in G
  <2>1. i + 1 \in 1 .. n /\ i + 1 > w /\ (i + 1) - 1 = i /\ i + 1 \in w .. n
    OBVIOUS
  <2>2. t[i + 1] = Blended(alpha, s[i + 1], t[i])
    BY <1>1, <2>1, SmoothsAt
  <2>3. Amount(t[i]) /\ Amount(s[i + 1])
    BY <1>4, <2>1
  <2>4. Amount(Blended(alpha, s[i + 1], t[i]))
    BY <2>3, AmountTimes, AmountPlus DEF Blended
  <2>5. QED  BY <2>1, <2>2, <2>4
<1>5. w .. n \subseteq G
  <2>1. w \in Int /\ n \in Int
    OBVIOUS
  <2> HIDE DEF G
  <2>2. QED  BY <1>3, <1>4, <2>1, CountingFrom
<1>6. QED  BY <1>5 DEF t

-----------------------------------------------------------------------------
(* Indicators of a series and of its beginning *)

\* p is the first k of the n elements of s.
Begins(p, s, k, n) ==
  /\ n \in Nat /\ k \in 0 .. n
  /\ p = [i \in 1 .. k |-> s[i]]
  /\ s = [i \in 1 .. n |-> s[i]]

LEMMA BeginsIs ==
  ASSUME NEW p, NEW s, NEW k, NEW n, Begins(p, s, k, n)
  PROVE  /\ p = SubSeq(s, 1, k) /\ Len(p) = k /\ Len(s) = n /\ DOMAIN p = 1 .. k /\ DOMAIN s = 1 .. n
         /\ n \in Nat /\ k \in 0 .. n /\ \A i \in 1 .. k : p[i] = s[i] /\ i \in 1 .. n
<1>1. n \in Nat /\ k \in 0 .. n /\ p = [i \in 1 .. k |-> s[i]] /\ s = [i \in 1 .. n |-> s[i]]
  BY DEF Begins
<1> DEFINE V == {s[i] : i \in 1 .. n}
<1>2. s \in [1 .. n -> V]
  BY <1>1
<1> HIDE DEF V
<1>3. /\ SubSeq(s, 1, k) = [i \in 1 .. k |-> s[i]] /\ Len(SubSeq(s, 1, k)) = k
      /\ DOMAIN SubSeq(s, 1, k) = 1 .. k /\ Len(s) = n /\ DOMAIN s = 1 .. n
  BY <1>1, <1>2, BeginningIs
<1>4. p = SubSeq(s, 1, k)
  BY <1>1, <1>3
<1>5. \A i \in 1 .. k : p[i] = s[i] /\ i \in 1 .. n
  <2>1. n \in Nat /\ k \in 0 .. n
    BY <1>1
  <2>2. \A i \in 1 .. k : i \in 1 .. n
    BY <2>1
  <2>3. p = [i \in 1 .. k |-> s[i]]
    BY <1>1
  <2>4. \A i \in 1 .. k : p[i] = s[i]
    BY <2>3
  <2>5. QED  BY <2>2, <2>4
<1>6. QED  BY <1>1, <1>3, <1>4, <1>5

LEMMA Beginning ==
  ASSUME NEW n \in Nat, NEW s, s = [i \in 1 .. n |-> s[i]], NEW k \in 0 .. n
  PROVE  Begins(SubSeq(s, 1, k), s, k, n)
<1> DEFINE V == {s[i] : i \in 1 .. n}
<1>1. s \in [1 .. n -> V]
  OBVIOUS
<1> HIDE DEF V
<1>2. SubSeq(s, 1, k) = [i \in 1 .. k |-> s[i]]
  BY <1>1, BeginningIs
<1>3. QED  BY <1>2 DEF Begins

LEMMA BeginsType ==
  ASSUME NEW V, NEW p, NEW s, NEW k, NEW n, Begins(p, s, k, n), s \in [1 .. n -> V]
  PROVE  p \in [1 .. k -> V]
<1>1. n \in Nat /\ k \in 0 .. n /\ p = [i \in 1 .. k |-> s[i]]
  BY DEF Begins
<1>2. \A i \in 1 .. k : s[i] \in V
  BY <1>1
<1>3. QED  BY <1>1, <1>2

LEMMA FieldBegins ==
  ASSUME NEW p, NEW s, NEW k, NEW n, Begins(p, s, k, n), NEW f
  PROVE  Begins(Field(p, f), Field(s, f), k, n)
<1>1. /\ DOMAIN p = 1 .. k /\ DOMAIN s = 1 .. n /\ n \in Nat /\ k \in 0 .. n
      /\ \A i \in 1 .. k : p[i] = s[i] /\ i \in 1 .. n
  BY BeginsIs
<1>2. Field(p, f) = [i \in 1 .. k |-> p[i][f]] /\ Field(s, f) = [i \in 1 .. n |-> s[i][f]]
  BY <1>1 DEF Field
<1>3. QED  BY <1>1, <1>2 DEF Begins

LEMMA WindowBegins ==
  ASSUME NEW p, NEW s, NEW k, NEW n, Begins(p, s, k, n), NEW w \in Nat \ {0}, NEW i \in 1 .. k, i >= w
  PROVE  Window(p, i, w) = Window(s, i, w)
<1> DEFINE V == {s[j] : j \in 1 .. n}
<1>1. s \in [1 .. n -> V]
  BY DEF Begins
<1> HIDE DEF V
<1>2. p \in [1 .. k -> V]
  BY <1>1, BeginsType
<1>3. n \in Nat /\ k \in 0 .. n /\ \A j \in 1 .. k : p[j] = s[j]
  BY BeginsIs
<1>4. k \in Nat /\ i \in w .. k /\ i \in w .. n
  BY <1>3
<1>5. WindowIs(p, i, w, V) /\ WindowIs(s, i, w, V)
  BY <1>1, <1>2, <1>3, <1>4, WindowHas
<1>6. \A j \in 1 .. w : i - w + j \in 1 .. k
  BY <1>4
<1>7. \A j \in 1 .. w : p[i - w + j] = s[i - w + j]
  BY <1>3, <1>6
<1>8. [j \in 1 .. w |-> p[i - w + j]] = [j \in 1 .. w |-> s[i - w + j]]
  BY <1>7
<1>9. QED  BY <1>5, <1>8 DEF WindowIs

LEMMA SmaBegins ==
  ASSUME NEW p, NEW s, NEW k, NEW n, Begins(p, s, k, n), NEW w \in Nat \ {0}
  PROVE  Begins(sma(p, w), sma(s, w), k, n)
<1>1. DOMAIN p = 1 .. k /\ DOMAIN s = 1 .. n /\ n \in Nat /\ k \in 0 .. n
  BY BeginsIs
<1>2. \A i \in 1 .. k : i >= w => Window(p, i, w) = Window(s, i, w)
  BY WindowBegins
<1>3. sma(p, w) = [i \in 1 .. k |-> IF i < w THEN Missing ELSE Mean(Window(p, i, w))]
  BY <1>1 DEF sma
<1>4. sma(s, w) = [i \in 1 .. n |-> IF i < w THEN Missing ELSE Mean(Window(s, i, w))]
  BY <1>1 DEF sma
<1>5. \A i \in 1 .. k : i \in 1 .. n /\ i \in Nat /\ (i >= w \/ i < w)
  BY <1>1
<1>6. \A i \in 1 .. k : sma(p, w)[i] = sma(s, w)[i]
  BY <1>2, <1>3, <1>4, <1>5
<1>7. QED  BY <1>1, <1>3, <1>4, <1>5, <1>6 DEF Begins

LEMMA SmoothedBegins ==
  ASSUME NEW p, NEW s, NEW k, NEW n, Begins(p, s, k, n), s \in [1 .. n -> Fractions],
         NEW w \in Nat \ {0}, NEW alpha \in Fractions
  PROVE  Begins(Smoothed(p, w, alpha), Smoothed(s, w, alpha), k, n)
<1>1. n \in Nat /\ k \in 0 .. n /\ p = SubSeq(s, 1, k)
  BY BeginsIs
<1>2. p \in [1 .. k -> Fractions]
  BY BeginsType
<1>3. \A i \in 1 .. k : Smoothed(SubSeq(s, 1, k), w, alpha)[i] = Smoothed(s, w, alpha)[i]
  BY <1>1, SmoothedPast
<1>4. Smooths(Smoothed(s, w, alpha), s, n, w, alpha)
  BY <1>1, SmoothedIs
<1>5. Smooths(Smoothed(p, w, alpha), p, k, w, alpha)
  <2>1. k \in Nat
    BY <1>1
  <2>2. QED  BY <1>2, <2>1, SmoothedIs
<1> DEFINE t == Smoothed(s, w, alpha)
           u == Smoothed(p, w, alpha)
<1> HIDE DEF t, u
<1>6. u = [i \in 1 .. k |-> u[i]] /\ t = [i \in 1 .. n |-> t[i]]
  BY <1>4, <1>5 DEF Smooths, t, u
<1>7. \A i \in 1 .. k : u[i] = t[i]
  BY <1>1, <1>3 DEF t, u
<1>8. Begins(u, t, k, n)
  BY <1>1, <1>6, <1>7 DEF Begins
<1>9. QED  BY <1>8 DEF t, u

LEMMA ShareIs ==
  ASSUME NEW a \in Nat \ {0}, NEW b \in Nat \ {0}, a <= b
  PROVE  /\ Frac(a, b) \in Fractions /\ Amount(Frac(a, b))
         /\ Amount(Minus(Whole(1), Frac(a, b)))
<1>1. Equals(Frac(a, b), a, b)
  BY FracIs
<1>2. Equals(Whole(1), b, b)
  <2>1. Equals(Whole(1), 1 * b, b)
    BY WholeEquals
  <2>2. 1 * b = b
    OBVIOUS
  <2>3. QED  BY <2>1, <2>2
<1>3. Equals(Minus(Whole(1), Frac(a, b)), b - a, b)
  BY <1>1, <1>2, MinusIs
<1>4. a \in Int /\ b - a \in Int /\ b - a >= 0 /\ a >= 0
  OBVIOUS
<1>5. QED  BY <1>1, <1>3, <1>4, AmountIs DEF Equals

LEMMA EmaBegins ==
  ASSUME NEW p, NEW s, NEW k, NEW n, Begins(p, s, k, n), s \in [1 .. n -> Fractions], NEW w \in Nat \ {0}
  PROVE  /\ Begins(ema(p, w), ema(s, w), k, n)
         /\ Begins(Wilder(p, w), Wilder(s, w), k, n)
<1>1. Frac(2, w + 1) \in Fractions
  <2>1. 2 \in Nat \ {0} /\ w + 1 \in Nat \ {0} /\ 2 <= w + 1
    OBVIOUS
  <2> DEFINE a == 2
             b == w + 1
  <2> HIDE DEF a, b
  <2>2. a \in Nat \ {0} /\ b \in Nat \ {0} /\ a <= b
    BY <2>1 DEF a, b
  <2>3. Frac(a, b) \in Fractions
    BY <2>2, ShareIs
  <2>4. QED  BY <2>3 DEF a, b
<1>2. Frac(1, w) \in Fractions
  <2>1. 1 \in Nat \ {0} /\ 1 <= w
    OBVIOUS
  <2>2. QED  BY <2>1, ShareIs
<1>3. QED  BY <1>1, <1>2, SmoothedBegins DEF ema, Wilder

\* From the period on, an average of fractions is one.
LEMMA EmaType ==
  ASSUME NEW n \in Nat, NEW s \in [1 .. n -> Fractions], NEW w \in Nat \ {0}
  PROVE  /\ ema(s, w) = [i \in 1 .. n |-> ema(s, w)[i]]
         /\ \A i \in 1 .. n : /\ i < w => ema(s, w)[i] = Missing
                              /\ i >= w => ema(s, w)[i] \in Fractions
<1>1. Frac(2, w + 1) \in Fractions
  <2> DEFINE a == 2
             b == w + 1
  <2>1. a \in Nat \ {0} /\ b \in Nat \ {0} /\ a <= b
    OBVIOUS
  <2> HIDE DEF a, b
  <2>2. Frac(a, b) \in Fractions
    BY <2>1, ShareIs
  <2>3. QED  BY <2>2 DEF a, b
<1> DEFINE alpha == Frac(2, w + 1)
           t == Smoothed(s, w, alpha)
<1> HIDE DEF alpha
<1>2. Smooths(t, s, n, w, alpha)
  BY <1>1, SmoothedIs DEF alpha
<1>3. t = ema(s, w)
  BY DEF ema, alpha
<1> HIDE DEF t
<1>4. t = [i \in 1 .. n |-> t[i]]
  BY <1>2 DEF Smooths
<1>5. \A i \in 1 .. n : (i < w => t[i] = Missing) /\ (i >= w => t[i] \in Fractions)
  BY <1>2, SmoothsAt
<1>6. QED  BY <1>3, <1>4, <1>5

LEMMA ReturnBegins ==
  ASSUME NEW p, NEW s, NEW k, NEW n, Begins(p, s, k, n), NEW w \in Nat \ {0}
  PROVE  Begins(return_n(p, w), return_n(s, w), k, n)
<1>1. /\ DOMAIN p = 1 .. k /\ DOMAIN s = 1 .. n /\ n \in Nat /\ k \in 0 .. n
      /\ \A i \in 1 .. k : p[i] = s[i] /\ i \in 1 .. n
  BY BeginsIs
<1> DEFINE At(r, i) == RatioOf(Minus(r[i], r[i - w]), r[i - w])
<1>2. return_n(p, w) = [i \in 1 .. k |-> IF i <= w THEN Missing ELSE At(p, i)]
  BY <1>1 DEF return_n
<1>3. return_n(s, w) = [i \in 1 .. n |-> IF i <= w THEN Missing ELSE At(s, i)]
  BY <1>1 DEF return_n
<1>4. ASSUME NEW i \in 1 .. k, ~(i <= w) PROVE At(p, i) = At(s, i)
  <2>1. i - w \in 1 .. k
    BY <1>1, <1>4
  <2>2. p[i] = s[i] /\ p[i - w] = s[i - w]
    BY <1>1, <2>1
  <2>3. QED  BY <2>2
<1> HIDE DEF At
<1>5. \A i \in 1 .. k : return_n(p, w)[i] = return_n(s, w)[i]
  BY <1>1, <1>2, <1>3, <1>4
<1>6. QED  BY <1>1, <1>2, <1>3, <1>5 DEF Begins

\* Ratios of two series, day by day.
LEMMA RatiosBegin ==
  ASSUME NEW p, NEW s, NEW k, NEW n, Begins(p, s, k, n), NEW q, NEW t, Begins(q, t, k, n),
         NEW e, e = [i \in 1 .. k |-> RatioOf(p[i], q[i])],
         NEW d, d = [i \in 1 .. n |-> RatioOf(s[i], t[i])]
  PROVE  Begins(e, d, k, n)
<1>1. n \in Nat /\ k \in 0 .. n /\ \A i \in 1 .. k : p[i] = s[i] /\ i \in 1 .. n
  BY BeginsIs
<1>2. \A i \in 1 .. k : q[i] = t[i]
  BY BeginsIs
<1>3. \A i \in 1 .. k : e[i] = d[i]
  BY <1>1, <1>2
<1>4. QED  BY <1>1, <1>3 DEF Begins

LEMMA RelativeBegin ==
  ASSUME NEW p, NEW s, NEW k, NEW n, Begins(p, s, k, n), NEW q, NEW t, Begins(q, t, k, n),
         NEW w \in Nat \ {0}
  PROVE  /\ Begins(relative_strength(p, q), relative_strength(s, t), k, n)
         /\ Begins(relative_momentum(p, q, w), relative_momentum(s, t, w), k, n)
         /\ Begins(volume_expansion(p, w), volume_expansion(s, w), k, n)
<1>1. DOMAIN p = 1 .. k /\ DOMAIN s = 1 .. n
  BY BeginsIs
<1>2. Begins(relative_strength(p, q), relative_strength(s, t), k, n)
  <2> DEFINE e == [i \in 1 .. k |-> RatioOf(p[i], q[i])]
             d == [i \in 1 .. n |-> RatioOf(s[i], t[i])]
  <2>1. relative_strength(p, q) = e /\ relative_strength(s, t) = d
    BY <1>1 DEF relative_strength
  <2>2. Begins(e, d, k, n)
    BY RatiosBegin
  <2>3. QED  BY <2>1, <2>2
<1>3. Begins(relative_momentum(p, q, w), relative_momentum(s, t, w), k, n)
  <2> DEFINE p1 == return_n(p, w)
             q1 == return_n(q, w)
             s1 == return_n(s, w)
             t1 == return_n(t, w)
             e == [i \in 1 .. k |-> RatioOf(p1[i], q1[i])]
             d == [i \in 1 .. n |-> RatioOf(s1[i], t1[i])]
  <2>1. relative_momentum(p, q, w) = e /\ relative_momentum(s, t, w) = d
    BY <1>1 DEF relative_momentum
  <2>2. Begins(p1, s1, k, n) /\ Begins(q1, t1, k, n)
    BY ReturnBegins
  <2> HIDE DEF p1, q1, s1, t1
  <2>3. Begins(e, d, k, n)
    BY <2>2, RatiosBegin
  <2>4. QED  BY <2>1, <2>3
<1>4. Begins(volume_expansion(p, w), volume_expansion(s, w), k, n)
  <2> DEFINE q1 == sma(p, w)
             t1 == sma(s, w)
             e == [i \in 1 .. k |-> RatioOf(p[i], q1[i])]
             d == [i \in 1 .. n |-> RatioOf(s[i], t1[i])]
  <2>1. volume_expansion(p, w) = e /\ volume_expansion(s, w) = d
    BY <1>1 DEF volume_expansion
  <2>2. Begins(q1, t1, k, n)
    BY SmaBegins
  <2> HIDE DEF q1, t1
  <2>3. Begins(e, d, k, n)
    BY <2>2, RatiosBegin
  <2>4. QED  BY <2>1, <2>3
<1>5. QED  BY <1>2, <1>3, <1>4

LEMMA WidthBegins ==
  ASSUME NEW p, NEW s, NEW k, NEW n, Begins(p, s, k, n), NEW w \in Nat \ {0}
  PROVE  Begins(bollinger_width(p, w), bollinger_width(s, w), k, n)
<1>1. DOMAIN p = 1 .. k /\ DOMAIN s = 1 .. n /\ n \in Nat /\ k \in 0 .. n
  BY BeginsIs
<1> DEFINE Of(v) == Over2(Deviations(v), Whole(w))
<1>2. \A i \in 1 .. k : i >= w => Window(p, i, w) = Window(s, i, w)
  BY WindowBegins
<1>3. bollinger_width(p, w) = [i \in 1 .. k |-> IF i < w THEN Missing ELSE Of(Window(p, i, w))]
  BY <1>1 DEF bollinger_width
<1>4. bollinger_width(s, w) = [i \in 1 .. n |-> IF i < w THEN Missing ELSE Of(Window(s, i, w))]
  BY <1>1 DEF bollinger_width
<1> HIDE DEF Of
<1>5. \A i \in 1 .. k : i \in 1 .. n /\ i \in Nat /\ (i >= w \/ i < w)
  BY <1>1
<1>6. \A i \in 1 .. k : bollinger_width(p, w)[i] = bollinger_width(s, w)[i]
  BY <1>2, <1>3, <1>4, <1>5
<1>7. QED  BY <1>1, <1>3, <1>4, <1>5, <1>6 DEF Begins

-----------------------------------------------------------------------------
(* Gains and losses *)

Deltas(close) == [i \in 1 .. Len(close) - 1 |-> Minus(close[i + 1], close[i])]
Gains(close)  == [i \in 1 .. Len(close) - 1 |-> Up(Deltas(close)[i])]
Falling(close) == [i \in 1 .. Len(close) - 1 |-> Down(Deltas(close)[i])]

LEMMA RsiIs ==
  ASSUME NEW n \in Nat, NEW s, DOMAIN s = 1 .. n, NEW w
  PROVE  rsi(s, w) = [i \in 1 .. n |-> IF i <= w THEN Missing
                                       ELSE Strength(Wilder(Gains(s), w)[i - 1], Wilder(Falling(s), w)[i - 1])]
<1>1. DOMAIN Deltas(s) = 1 .. Len(s) - 1
  BY DEF Deltas
<1>2. QED  BY <1>1 DEF rsi, Deltas, Gains, Falling

LEMMA UpAmount == ASSUME NEW f \in Fractions PROVE Amount(Up(f)) /\ Amount(Down(f))
<1>1. Amount(Zero) /\ Zero \in Fractions
  BY WholeAmount, WholeIs DEF Zero
<1>2. ASSUME NEW g \in Fractions PROVE Amount(Up(g))
  BY <1>1, <1>2 DEF Up, Amount
<1>3. Minus(Zero, f) \in Fractions
  BY <1>1, MinusType
<1>4. QED  BY <1>2, <1>3 DEF Down

\* The changes of the first closes are the first changes, and their sizes are amounts.
LEMMA ChangesBegin ==
  ASSUME NEW p, NEW s, NEW k, NEW n, Begins(p, s, k, n), s \in [1 .. n -> Fractions], k >= 1
  PROVE  /\ Begins(Gains(p), Gains(s), k - 1, n - 1) /\ Begins(Falling(p), Falling(s), k - 1, n - 1)
         /\ Gains(s) \in [1 .. n - 1 -> Fractions] /\ Falling(s) \in [1 .. n - 1 -> Fractions]
         /\ \A i \in 1 .. n - 1 : Amount(Gains(s)[i]) /\ Amount(Falling(s)[i])
<1>1. /\ Len(p) = k /\ Len(s) = n /\ n \in Nat /\ k \in 0 .. n
      /\ \A i \in 1 .. k : p[i] = s[i] /\ i \in 1 .. n
  BY BeginsIs
<1>2. Gains(s) = [i \in 1 .. n - 1 |-> Up(Minus(s[i + 1], s[i]))]
  BY <1>1 DEF Gains, Deltas
<1>3. Falling(s) = [i \in 1 .. n - 1 |-> Down(Minus(s[i + 1], s[i]))]
  BY <1>1 DEF Falling, Deltas
<1>4. Gains(p) = [i \in 1 .. k - 1 |-> Up(Minus(p[i + 1], p[i]))]
  BY <1>1 DEF Gains, Deltas
<1>5. Falling(p) = [i \in 1 .. k - 1 |-> Down(Minus(p[i + 1], p[i]))]
  BY <1>1 DEF Falling, Deltas
<1>6. n - 1 \in Nat /\ k - 1 \in 0 .. n - 1
  BY <1>1
<1>7. \A i \in 1 .. k - 1 : i \in 1 .. k /\ i + 1 \in 1 .. k /\ i \in 1 .. n - 1
  BY <1>1
<1>8. \A i \in 1 .. k - 1 : p[i] = s[i] /\ p[i + 1] = s[i + 1]
  BY <1>1, <1>7
<1>9. \A i \in 1 .. n - 1 : i \in 1 .. n /\ i + 1 \in 1 .. n
  BY <1>1
<1>10. \A i \in 1 .. n - 1 : Minus(s[i + 1], s[i]) \in Fractions
  BY <1>9, MinusType
<1>11. \A i \in 1 .. n - 1 : Amount(Gains(s)[i]) /\ Amount(Falling(s)[i])
  BY <1>2, <1>3, <1>10, UpAmount
<1>12. Gains(s) \in [1 .. n - 1 -> Fractions]
  BY <1>2, <1>11 DEF Amount
<1>13. Falling(s) \in [1 .. n - 1 -> Fractions]
  BY <1>3, <1>11 DEF Amount
<1>14. Begins(Gains(p), Gains(s), k - 1, n - 1)
  <2>1. \A i \in 1 .. k - 1 : Gains(p)[i] = Gains(s)[i]
    BY <1>2, <1>4, <1>7, <1>8
  <2>2. QED  BY <1>2, <1>4, <1>6, <2>1 DEF Begins
<1>15. Begins(Falling(p), Falling(s), k - 1, n - 1)
  <2>1. \A i \in 1 .. k - 1 : Falling(p)[i] = Falling(s)[i]
    BY <1>3, <1>5, <1>7, <1>8
  <2>2. QED  BY <1>3, <1>5, <1>6, <2>1 DEF Begins
<1>16. QED  BY <1>11, <1>12, <1>13, <1>14, <1>15

LEMMA RsiBegins ==
  ASSUME NEW p, NEW s, NEW k, NEW n, Begins(p, s, k, n), s \in [1 .. n -> Fractions], k >= 1,
         NEW w \in Nat \ {0}
  PROVE  Begins(rsi(p, w), rsi(s, w), k, n)
<1>1. DOMAIN p = 1 .. k /\ DOMAIN s = 1 .. n /\ n \in Nat /\ k \in 0 .. n /\ k \in Nat
  BY BeginsIs
<1> DEFINE g == Wilder(Gains(s), w)
           l == Wilder(Falling(s), w)
           gp == Wilder(Gains(p), w)
           lp == Wilder(Falling(p), w)
<1>2. /\ Begins(Gains(p), Gains(s), k - 1, n - 1) /\ Begins(Falling(p), Falling(s), k - 1, n - 1)
      /\ Gains(s) \in [1 .. n - 1 -> Fractions] /\ Falling(s) \in [1 .. n - 1 -> Fractions]
  BY ChangesBegin
<1>3. Begins(gp, g, k - 1, n - 1) /\ Begins(lp, l, k - 1, n - 1)
  BY <1>2, EmaBegins
<1>4. rsi(s, w) = [i \in 1 .. n |-> IF i <= w THEN Missing ELSE Strength(g[i - 1], l[i - 1])]
  BY <1>1, RsiIs
<1>5. rsi(p, w) = [i \in 1 .. k |-> IF i <= w THEN Missing ELSE Strength(gp[i - 1], lp[i - 1])]
  BY <1>1, RsiIs
<1> HIDE DEF g, l, gp, lp
<1>6. \A i \in 1 .. k - 1 : gp[i] = g[i] /\ lp[i] = l[i]
  BY <1>3, BeginsIs
<1>7. \A i \in 1 .. k : i \in 1 .. n /\ (~(i <= w) => i - 1 \in 1 .. k - 1)
  BY <1>1
<1>8. \A i \in 1 .. k : rsi(p, w)[i] = rsi(s, w)[i]
  BY <1>4, <1>5, <1>6, <1>7
<1>9. QED  BY <1>1, <1>4, <1>5, <1>7, <1>8 DEF Begins

\* What is taken at the places from a to b.
TakesInterval(values, a, b) ==
  Picked(values, a .. b) = [j \in 1 .. b - a + 1 |-> values[a + j - 1]]

LEMMA TakenInterval ==
  ASSUME NEW values, NEW a \in Nat, NEW b \in Nat, b >= a - 1
  PROVE  TakesInterval(values, a, b)
<1> DEFINE D == a .. b
           m == b - a + 1
<1>1. IsFiniteSet(D) /\ Cardinality(D) = m /\ m \in Nat
  <2>1. a \in Int /\ b \in Int
    OBVIOUS
  <2>2. IsFiniteSet(D) /\ Cardinality(D) = IF a > b THEN 0 ELSE b - a + 1
    BY <2>1, FS_Interval
  <2>3. QED  BY <2>2
<1>2. D \subseteq Int
  OBVIOUS
<1>3. ASSUME NEW j \in 1 .. m PROVE Nth(D, j) = a + j - 1
  <2> DEFINE x == Nth(D, j)
  <2>1. x \in D /\ Place(D, x) = j - 1
    <3>1. j \in 1 .. Cardinality(D)
      BY <1>1
    <3> HIDE DEF D, m
    <3>2. QED  BY <1>1, <1>2, <3>1, NthIs
  <2> HIDE DEF x
  <2>2. {y \in D : y < x} = a .. x - 1
    BY <2>1
  <2>3. Cardinality(a .. x - 1) = x - a
    <3> DEFINE c == x - 1
    <3>1. c \in Int /\ a \in Int /\ c >= a - 1
      BY <2>1
    <3>2. x - a = c - a + 1
      BY <2>1
    <3> HIDE DEF c
    <3>3. Cardinality(a .. c) = IF a > c THEN 0 ELSE c - a + 1
      BY <3>1, FS_Interval
    <3>4. Cardinality(a .. c) = c - a + 1
      BY <3>1, <3>3
    <3>5. QED  BY <3>2, <3>4 DEF c
  <2>4. Place(D, x) = x - a
    <3>1. Place(D, x) = Cardinality({y \in D : y < x})
      BY DEF Place
    <3> HIDE DEF D
    <3>2. QED  BY <2>2, <2>3, <3>1
  <2>5. x = a + j - 1
    <3>1. x \in Int
      BY <2>1
    <3>2. x - a = j - 1
      BY <2>1, <2>4
    <3>3. QED  BY <3>1, <3>2
  <2>6. QED  BY <2>5 DEF x
<1> HIDE DEF D, m
<1>4. Picked(values, D) = [j \in 1 .. m |-> values[Nth(D, j)]]
  BY <1>1 DEF Picked
<1>5. Picked(values, D) = [j \in 1 .. m |-> values[a + j - 1]]
  BY <1>3, <1>4
<1>6. QED  BY <1>5 DEF D, m, TakesInterval

\* The line of a series: nothing until the slow average, fractions after.
LEMMA LineIs ==
  ASSUME NEW n \in Nat, NEW s \in [1 .. n -> Fractions], NEW f \in Nat \ {0}, NEW w \in Nat \ {0}, f < w,
         Missing \notin Fractions
  PROVE  /\ macd_line(s, f, w) = [i \in 1 .. n |-> macd_line(s, f, w)[i]]
         /\ \A i \in 1 .. n : /\ i < w => macd_line(s, f, w)[i] = Missing
                              /\ i >= w => macd_line(s, f, w)[i] \in Fractions
         /\ n >= w => /\ Defined(macd_line(s, f, w))
                           = [j \in 1 .. n - w + 1 |-> macd_line(s, f, w)[w + j - 1]]
                      /\ Defined(macd_line(s, f, w)) \in [1 .. n - w + 1 -> Fractions]
<1>1. DOMAIN s = 1 .. n
  OBVIOUS
<1> DEFINE x == ema(s, f)
           y == ema(s, w)
           d == macd_line(s, f, w)
<1>2. \A i \in 1 .. n : i >= f => x[i] \in Fractions
  BY EmaType
<1>3. \A i \in 1 .. n : i >= w => y[i] \in Fractions
  BY EmaType
<1>4. d = [i \in 1 .. n |-> IF i < w THEN Missing ELSE Minus(x[i], y[i])]
  BY <1>1 DEF macd_line
<1> HIDE DEF x, y, d
<1>5. \A i \in 1 .. n : i >= w => Minus(x[i], y[i]) \in Fractions
  BY <1>2, <1>3, MinusType
<1>6. d = [i \in 1 .. n |-> d[i]]
  BY <1>4
<1>7. \A i \in 1 .. n : (i < w => d[i] = Missing) /\ (i >= w => d[i] \in Fractions)
  BY <1>4, <1>5
<1>8. ASSUME n >= w
      PROVE  /\ Defined(d) = [j \in 1 .. n - w + 1 |-> d[w + j - 1]]
             /\ Defined(d) \in [1 .. n - w + 1 -> Fractions]
  <2>1. DOMAIN d = 1 .. n
    BY <1>4
  <2>2. {i \in DOMAIN d : d[i] # Missing} = w .. n
    BY <1>7, <2>1
  <2>3. w \in Nat /\ n >= w - 1
    BY <1>8
  <2>4. Defined(d) = [j \in 1 .. n - w + 1 |-> d[w + j - 1]]
    <3>1. Defined(d) = Picked(d, w .. n)
      BY <2>2 DEF Defined
    <3>2. TakesInterval(d, w, n)
      BY <2>3, TakenInterval
    <3>3. QED  BY <3>1, <3>2 DEF TakesInterval
  <2>5. \A j \in 1 .. n - w + 1 : w + j - 1 \in 1 .. n /\ w + j - 1 >= w
    BY <1>8
  <2>6. \A j \in 1 .. n - w + 1 : d[w + j - 1] \in Fractions
    BY <1>7, <2>5
  <2>7. QED  BY <2>4, <2>6
<1>9. QED  BY <1>6, <1>7, <1>8 DEF d

LEMMA LineBegins ==
  ASSUME NEW p, NEW s, NEW k, NEW n, Begins(p, s, k, n), s \in [1 .. n -> Fractions],
         NEW f \in Nat \ {0}, NEW w \in Nat \ {0}
  PROVE  Begins(macd_line(p, f, w), macd_line(s, f, w), k, n)
<1>1. /\ DOMAIN p = 1 .. k /\ DOMAIN s = 1 .. n /\ n \in Nat /\ k \in 0 .. n
      /\ \A i \in 1 .. k : i \in 1 .. n
  BY BeginsIs
<1> DEFINE x == ema(s, f)
           y == ema(s, w)
           xp == ema(p, f)
           yp == ema(p, w)
<1>2. Begins(xp, x, k, n) /\ Begins(yp, y, k, n)
  BY EmaBegins
<1>3. macd_line(s, f, w) = [i \in 1 .. n |-> IF i < w THEN Missing ELSE Minus(x[i], y[i])]
  BY <1>1 DEF macd_line
<1>4. macd_line(p, f, w) = [i \in 1 .. k |-> IF i < w THEN Missing ELSE Minus(xp[i], yp[i])]
  BY <1>1 DEF macd_line
<1> HIDE DEF x, y, xp, yp
<1>5. \A i \in 1 .. k : xp[i] = x[i] /\ yp[i] = y[i]
  BY <1>2, BeginsIs
<1>6. \A i \in 1 .. k : macd_line(p, f, w)[i] = macd_line(s, f, w)[i]
  BY <1>1, <1>3, <1>4, <1>5
<1>7. QED  BY <1>1, <1>3, <1>4, <1>6 DEF Begins

LEMMA SignalBegins ==
  ASSUME NEW p, NEW s, NEW k, NEW n, Begins(p, s, k, n), s \in [1 .. n -> Fractions],
         NEW f \in Nat \ {0}, NEW w \in Nat \ {0}, f < w, NEW g \in Nat \ {0}, Missing \notin Fractions
  PROVE  Begins(macd_signal(p, f, w, g), macd_signal(s, f, w, g), k, n)
<1>1. /\ DOMAIN p = 1 .. k /\ DOMAIN s = 1 .. n /\ n \in Nat /\ k \in 0 .. n /\ k \in Nat
      /\ \A i \in 1 .. k : i \in 1 .. n
  BY BeginsIs
<1>2. p \in [1 .. k -> Fractions]
  BY BeginsType
<1> DEFINE l == macd_line(s, f, w)
           lp == macd_line(p, f, w)
           d == Defined(l)
           dp == Defined(lp)
           e == ema(d, g)
           ep == ema(dp, g)
<1>3. macd_signal(s, f, w, g) = [i \in 1 .. n |-> IF i < w THEN Missing ELSE e[i - w + 1]]
  BY <1>1 DEF macd_signal
<1>4. macd_signal(p, f, w, g) = [i \in 1 .. k |-> IF i < w THEN Missing ELSE ep[i - w + 1]]
  BY <1>1 DEF macd_signal
<1>5. \A i \in 1 .. k : lp[i] = l[i]
  BY LineBegins, BeginsIs
<1>6. k >= w => Begins(ep, e, k - w + 1, n - w + 1)
  <2> SUFFICES ASSUME k >= w PROVE Begins(ep, e, k - w + 1, n - w + 1)
    OBVIOUS
  <2>1. n >= w
    BY <1>1
  <2>2. d = [j \in 1 .. n - w + 1 |-> l[w + j - 1]] /\ d \in [1 .. n - w + 1 -> Fractions]
    BY <1>1, <2>1, LineIs
  <2>3. dp = [j \in 1 .. k - w + 1 |-> lp[w + j - 1]]
    BY <1>1, <1>2, LineIs
  <2> HIDE DEF l, lp, d, dp
  <2>4. n - w + 1 \in Nat /\ k - w + 1 \in 0 .. n - w + 1
    BY <1>1, <2>1
  <2>5. \A j \in 1 .. k - w + 1 : w + j - 1 \in 1 .. k /\ j \in 1 .. n - w + 1
    BY <1>1, <2>1
  <2>6. \A j \in 1 .. k - w + 1 : dp[j] = d[j]
    BY <1>5, <2>2, <2>3, <2>5
  <2>7. Begins(dp, d, k - w + 1, n - w + 1)
    BY <2>2, <2>3, <2>4, <2>6 DEF Begins
  <2>8. QED  BY <2>2, <2>7, EmaBegins
<1> HIDE DEF e, ep
<1>7. ASSUME NEW i \in 1 .. k, ~(i < w) PROVE ep[i - w + 1] = e[i - w + 1]
  <2>1. k >= w /\ i - w + 1 \in 1 .. k - w + 1
    BY <1>1, <1>7
  <2>2. Begins(ep, e, k - w + 1, n - w + 1)
    BY <1>6, <2>1
  <2>3. \A j \in 1 .. k - w + 1 : ep[j] = e[j]
    BY <2>2, BeginsIs
  <2>4. QED  BY <2>1, <2>3
<1>8. \A i \in 1 .. k : macd_signal(p, f, w, g)[i] = macd_signal(s, f, w, g)[i]
  BY <1>1, <1>3, <1>4, <1>7
<1>9. QED  BY <1>1, <1>3, <1>4, <1>8 DEF Begins

LEMMA HistogramBegins ==
  ASSUME NEW p, NEW s, NEW k, NEW n, Begins(p, s, k, n), s \in [1 .. n -> Fractions],
         NEW f \in Nat \ {0}, NEW w \in Nat \ {0}, f < w, NEW g \in Nat \ {0}, Missing \notin Fractions
  PROVE  Begins(macd_histogram(p, f, w, g), macd_histogram(s, f, w, g), k, n)
<1>1. /\ DOMAIN p = 1 .. k /\ DOMAIN s = 1 .. n /\ n \in Nat /\ k \in 0 .. n
      /\ \A i \in 1 .. k : i \in 1 .. n
  BY BeginsIs
<1> DEFINE l == macd_line(s, f, w)
           lp == macd_line(p, f, w)
           e == macd_signal(s, f, w, g)
           ep == macd_signal(p, f, w, g)
<1>2. Begins(lp, l, k, n) /\ Begins(ep, e, k, n)
  BY LineBegins, SignalBegins
<1>3. macd_histogram(s, f, w, g) = [i \in 1 .. n |-> IF e[i] = Missing THEN Missing ELSE Minus(l[i], e[i])]
  BY <1>1 DEF macd_histogram
<1>4. macd_histogram(p, f, w, g) = [i \in 1 .. k |-> IF ep[i] = Missing THEN Missing ELSE Minus(lp[i], ep[i])]
  BY <1>1 DEF macd_histogram
<1> HIDE DEF l, lp, e, ep
<1>5. \A i \in 1 .. k : lp[i] = l[i] /\ ep[i] = e[i]
  BY <1>2, BeginsIs
<1>6. \A i \in 1 .. k : macd_histogram(p, f, w, g)[i] = macd_histogram(s, f, w, g)[i]
  BY <1>1, <1>3, <1>4, <1>5
<1>7. QED  BY <1>1, <1>3, <1>4, <1>6 DEF Begins

-----------------------------------------------------------------------------
(* Indicators of the bars *)

\* n bars that validation lets into the tables.
Tabled(s, n) == n \in Nat /\ s = [i \in 1 .. n |-> s[i]] /\ \A i \in 1 .. n : StoredBar(s[i])

LEMMA BarIs ==
  ASSUME NEW b, StoredBar(b)
  PROVE  /\ b.open \in Fractions /\ b.high \in Fractions /\ b.low \in Fractions /\ b.close \in Fractions
         /\ b.volume \in Fractions /\ b.bench \in Fractions
         /\ Less(Zero, b.open) /\ Less(Zero, b.low) /\ Less(Zero, b.close)
         /\ ~Less(b.high, b.low) /\ ~Less(b.volume, Zero)
  BY DEF StoredBar

LEMMA TabledBegins ==
  ASSUME NEW p, NEW s, NEW k, NEW n, Begins(p, s, k, n), Tabled(s, n)
  PROVE  Tabled(p, k)
<1>1. n \in Nat /\ k \in 0 .. n /\ \A i \in 1 .. k : p[i] = s[i] /\ i \in 1 .. n
  BY BeginsIs
<1>2. p = [i \in 1 .. k |-> s[i]]
  BY DEF Begins
<1>3. \A i \in 1 .. n : StoredBar(s[i])
  BY DEF Tabled
<1>4. \A i \in 1 .. k : StoredBar(p[i])
  BY <1>1, <1>3
<1>5. p = [i \in 1 .. k |-> p[i]]
  BY <1>2
<1>6. k \in Nat
  BY <1>1
<1>7. QED  BY <1>4, <1>5, <1>6 DEF Tabled

LEMMA MinusAmount ==
  ASSUME NEW f \in Fractions, NEW g \in Fractions
  PROVE  Amount(Minus(f, g)) <=> ~Less(f, g)
<1>1. PICK n \in Int, m \in Int, d \in Nat \ {0} : Equals(f, n, d) /\ Equals(g, m, d)
  BY InCommon
<1>2. Equals(Minus(f, g), n - m, d)
  BY <1>1, MinusIs
<1>3. Less(f, g) <=> n < m
  BY <1>1, LessIs
<1>4. n - m \in Int /\ (n - m >= 0 <=> ~(n < m))
  OBVIOUS
<1>5. QED  BY <1>2, <1>3, <1>4, AmountIs

LEMMA RangeAmount ==
  ASSUME NEW s, NEW n, Tabled(s, n), NEW i \in 1 .. n
  PROVE  TrueRange(s, i) \in Fractions /\ Amount(TrueRange(s, i))
<1>1. n \in Nat /\ \A j \in 1 .. n : StoredBar(s[j])
  BY DEF Tabled
<1>2. s[i].high \in Fractions /\ s[i].low \in Fractions /\ ~Less(s[i].high, s[i].low)
  BY <1>1, BarIs
<1> DEFINE m == Minus(s[i].high, s[i].low)
<1>3. Amount(m) /\ m \in Fractions
  BY <1>2, MinusAmount, MinusType
<1>4. CASE i = 1
  BY <1>3, <1>4 DEF TrueRange
<1>5. CASE i # 1
  <2>1. i - 1 \in 1 .. n
    BY <1>1, <1>5
  <2>2. s[i - 1].close \in Fractions
    BY <1>1, <2>1, BarIs
  <2> DEFINE x == Distance(s[i].high, s[i - 1].close)
             y == Distance(s[i].low, s[i - 1].close)
             S == {m, x, y}
  <2>3. x \in Fractions /\ y \in Fractions
    BY <1>2, <2>2, DistanceIs
  <2>4. TrueRange(s, i) = Widest(S)
    BY <1>5 DEF TrueRange
  <2> HIDE DEF m, x, y
  <2>5. S \subseteq Fractions /\ S # {} /\ m \in S
    BY <1>3, <2>3
  <2>6. IsFiniteSet(S)
    <3>1. IsFiniteSet({m}) /\ IsFiniteSet({x}) /\ IsFiniteSet({y})
      BY FS_Singleton
    <3>2. IsFiniteSet({m} \cup {x})
      BY <3>1, FS_Union
    <3>3. IsFiniteSet(({m} \cup {x}) \cup {y})
      BY <3>1, <3>2, FS_Union
    <3>4. S = ({m} \cup {x}) \cup {y}
      OBVIOUS
    <3>5. QED  BY <3>3, <3>4
  <2> HIDE DEF S
  <2>7. \E w \in S : \A b \in S : ~Less(w, b)
    BY <2>5, <2>6, LeastFraction
  <2>8. Widest(S) \in S /\ \A b \in S : ~Less(Widest(S), b)
    BY <2>7 DEF Widest
  <2>9. Widest(S) \in Fractions /\ ~Less(Widest(S), m)
    BY <2>5, <2>8
  <2>10. Zero \in Fractions /\ ~Less(m, Zero)
    BY <1>3, WholeIs DEF Amount, Zero
  <2>11. ~Less(Widest(S), Zero)
    BY <1>3, <2>9, <2>10, LessOrder
  <2>12. QED  BY <2>4, <2>9, <2>11 DEF Amount
<1>6. QED  BY <1>4, <1>5

Ranges(s, n) == [i \in 1 .. n |-> TrueRange(s, i)]

LEMMA RangesAre ==
  ASSUME NEW s, NEW n, Tabled(s, n)
  PROVE  /\ Ranges(s, n) \in [1 .. n -> Fractions]
         /\ \A i \in 1 .. n : Amount(Ranges(s, n)[i])
         /\ n >= 2 => \A w : atr(s, w) = Wilder(Ranges(s, n), w)
         /\ n < 2 => \A w : atr(s, w) = [i \in 1 .. n |-> Missing]
<1>1. \A i \in 1 .. n : TrueRange(s, i) \in Fractions /\ Amount(TrueRange(s, i))
  BY RangeAmount
<1>2. Ranges(s, n) \in [1 .. n -> Fractions] /\ \A i \in 1 .. n : Amount(Ranges(s, n)[i])
  BY <1>1 DEF Ranges
<1>3. Begins(s, s, n, n)
  BY DEF Tabled, Begins
<1>4. Len(s) = n /\ DOMAIN s = 1 .. n /\ n \in Nat
  BY <1>3, BeginsIs
<1>5. n >= 2 => \A w : atr(s, w) = Wilder(Ranges(s, n), w)
  BY <1>4 DEF atr, Ranges
<1>6. n < 2 => \A w : atr(s, w) = [i \in 1 .. n |-> Missing]
  BY <1>4 DEF atr
<1>7. QED  BY <1>2, <1>5, <1>6

LEMMA RangesBegin ==
  ASSUME NEW p, NEW s, NEW k, NEW n, Begins(p, s, k, n)
  PROVE  Begins(Ranges(p, k), Ranges(s, n), k, n)
<1>1. n \in Nat /\ k \in 0 .. n /\ \A i \in 1 .. k : p[i] = s[i] /\ i \in 1 .. n
  BY BeginsIs
<1>2. ASSUME NEW i \in 1 .. k PROVE TrueRange(p, i) = TrueRange(s, i)
  <2>1. p[i] = s[i] /\ i \in 1 .. n
    BY <1>1
  <2>2. i # 1 => i - 1 \in 1 .. k
    BY <1>1
  <2>3. i # 1 => p[i - 1] = s[i - 1]
    BY <1>1, <2>2
  <2>4. CASE i = 1
    BY <2>1, <2>4 DEF TrueRange
  <2>5. CASE i # 1
    BY <2>1, <2>3, <2>5 DEF TrueRange
  <2>6. QED  BY <2>4, <2>5
<1>3. \A i \in 1 .. k : Ranges(p, k)[i] = Ranges(s, n)[i]
  BY <1>1, <1>2 DEF Ranges
<1>4. /\ Ranges(p, k) = [i \in 1 .. k |-> Ranges(p, k)[i]]
      /\ Ranges(s, n) = [i \in 1 .. n |-> Ranges(s, n)[i]]
  BY DEF Ranges
<1>5. QED  BY <1>1, <1>3, <1>4 DEF Begins

\* From the period on an average range is an amount, and before it there is none.
LEMMA WilderIs ==
  ASSUME NEW n \in Nat, NEW s \in [1 .. n -> Fractions], \A i \in 1 .. n : Amount(s[i]), NEW w \in Nat \ {0}
  PROVE  \A i \in 1 .. n : /\ i < w => Wilder(s, w)[i] = Missing
                           /\ i >= w => Amount(Wilder(s, w)[i])
<1> DEFINE alpha == Frac(1, w)
           t == Smoothed(s, w, alpha)
<1>1. alpha \in Fractions /\ Amount(alpha) /\ Amount(Minus(Whole(1), alpha))
  <2>1. 1 \in Nat \ {0} /\ 1 <= w
    OBVIOUS
  <2>2. QED  BY <2>1, ShareIs
<1> HIDE DEF alpha
<1>2. Smooths(t, s, n, w, alpha)
  BY <1>1, SmoothedIs
<1>3. \A i \in 1 .. n : i >= w => Amount(t[i])
  BY <1>1, SmoothedAmounts
<1>4. t = Wilder(s, w)
  BY DEF Wilder, alpha
<1> HIDE DEF t
<1>5. \A i \in 1 .. n : i < w => t[i] = Missing
  BY <1>2, SmoothsAt
<1>6. QED  BY <1>3, <1>4, <1>5

LEMMA AtrBegins ==
  ASSUME NEW p, NEW s, NEW k, NEW n, Begins(p, s, k, n), Tabled(s, n), k >= 1, NEW w \in Nat, 1 < w
  PROVE  Begins(atr(p, w), atr(s, w), k, n)
<1>1. n \in Nat /\ k \in 0 .. n /\ \A i \in 1 .. k : p[i] = s[i] /\ i \in 1 .. n
  BY BeginsIs
<1>2. Tabled(p, k)
  BY TabledBegins
<1> DEFINE a == atr(s, w)
           b == atr(p, w)
<1>3. Ranges(s, n) \in [1 .. n -> Fractions] /\ \A i \in 1 .. n : Amount(Ranges(s, n)[i])
  BY RangesAre
<1>4. (n >= 2 => a = Wilder(Ranges(s, n), w)) /\ (n < 2 => a = [i \in 1 .. n |-> Missing])
  BY RangesAre
<1>5. (k >= 2 => b = Wilder(Ranges(p, k), w)) /\ (k < 2 => b = [i \in 1 .. k |-> Missing])
  BY <1>2, RangesAre
<1>6. w \in Nat \ {0}
  OBVIOUS
<1>7. Begins(Wilder(Ranges(p, k), w), Wilder(Ranges(s, n), w), k, n)
  BY <1>3, <1>6, RangesBegin, EmaBegins
<1> HIDE DEF a, b
<1>8. CASE k >= 2
  <2>1. n >= 2
    BY <1>1, <1>8
  <2>2. QED  BY <1>4, <1>5, <1>7, <1>8, <2>1 DEF a, b
<1>9. CASE k < 2
  <2>1. k = 1 /\ b = [i \in 1 .. 1 |-> Missing]
    BY <1>1, <1>5, <1>9
  <2>2. a = [i \in 1 .. n |-> a[i]] /\ a[1] = Missing
    <3>1. CASE n < 2
      BY <1>1, <1>4, <2>1, <3>1
    <3>2. CASE n >= 2
      <4>1. a = Wilder(Ranges(s, n), w)
        BY <1>4, <3>2
      <4>2. a = [i \in 1 .. n |-> a[i]]
        BY <1>7, <4>1 DEF Begins
      <4>3. 1 \in 1 .. n /\ 1 < w
        BY <1>1, <3>2
      <4>4. a[1] = Missing
        BY <1>1, <1>3, <1>6, <4>1, <4>3, WilderIs
      <4>5. QED  BY <4>2, <4>4
    <3>3. QED  BY <1>1, <3>1, <3>2
  <2>3. \A i \in 1 .. k : b[i] = a[i]
    BY <2>1, <2>2
  <2>4. b = [i \in 1 .. k |-> a[i]]
    BY <2>1, <2>3
  <2>5. Begins(b, a, k, n)
    BY <1>1, <2>2, <2>4 DEF Begins
  <2>6. QED  BY <2>5 DEF a, b
<1>10. QED  BY <1>1, <1>8, <1>9

\* One day of the balance of volumes.
ObvStep(s, i, v) ==
  CASE Less(s[i - 1].close, s[i].close) -> Plus(v, s[i].volume)
    [] Less(s[i].close, s[i - 1].close) -> Minus(v, s[i].volume)
    [] OTHER -> v

\* The balance is what its recurrence says.
Balances(h, s, n) ==
  /\ h = [i \in 1 .. n |-> h[i]]
  /\ \A i \in 1 .. n : h[i] = IF i = 1 THEN s[1].volume ELSE ObvStep(s, i, h[i - 1])

LEMMA ObvIs == ASSUME NEW s, NEW n, Tabled(s, n) PROVE Balances(obv(s), s, n)
<1>1. n \in Nat /\ (\A j \in 1 .. n : StoredBar(s[j])) /\ DOMAIN s = 1 .. n
  <2>1. Begins(s, s, n, n)
    BY DEF Tabled, Begins
  <2>2. DOMAIN s = 1 .. n
    BY <2>1, BeginsIs
  <2>3. QED  BY <2>2 DEF Tabled
<1> DEFINE E(h) == h = [i \in DOMAIN s |->
                          IF i = 1 THEN s[1].volume
                          ELSE CASE Less(s[i - 1].close, s[i].close) -> Plus(h[i - 1], s[i].volume)
                                 [] Less(s[i].close, s[i - 1].close) -> Minus(h[i - 1], s[i].volume)
                                 [] OTHER -> h[i - 1]]
           h == CHOOSE h : E(h)
<1>2. obv(s) = [i \in DOMAIN s |-> h[i]]
  BY DEF obv
<1> DEFINE next == [q \in (1 .. n) \X Fractions |-> IF q[1] = 1 THEN q[2] ELSE ObvStep(s, q[1], q[2])]
<1>3. \A i \in 1 .. n, v \in Fractions : i # 1 => ObvStep(s, i, v) \in Fractions
  <2> SUFFICES ASSUME NEW i \in 1 .. n, NEW v \in Fractions, i # 1 PROVE ObvStep(s, i, v) \in Fractions
    OBVIOUS
  <2>1. s[i].volume \in Fractions
    BY <1>1, BarIs
  <2>2. Plus(v, s[i].volume) \in Fractions /\ Minus(v, s[i].volume) \in Fractions
    BY <2>1, PlusType, MinusType
  <2>3. QED  BY <2>2 DEF ObvStep
<1>4. next \in [(1 .. n) \X Fractions -> Fractions]
  BY <1>3
<1>5. \A i \in 1 .. n, v \in Fractions : i # 1 => next[<<i, v>>] = ObvStep(s, i, v)
  OBVIOUS
<1> HIDE DEF next
<1>6. \E g : E(g)
  <2>1. CASE n = 0
    <3> DEFINE g == [i \in DOMAIN s |-> Zero]
    <3>1. DOMAIN s = {}
      BY <1>1, <2>1
    <3>2. E(g)
      BY <3>1
    <3>3. QED  BY <3>2
  <2>2. CASE n >= 1
    <3>1. s[1].volume \in Fractions
      <4>1. 1 \in 1 .. n
        BY <1>1, <2>2
      <4>2. QED  BY <1>1, <4>1, BarIs
    <3>2. PICK g : Runs(g, 1, n, Fractions, s[1].volume, next)
      <4>1. 1 \in Int /\ n \in Int
        BY <1>1
      <4> DEFINE first == s[1].volume
      <4>2. first \in Fractions
        BY <3>1
      <4> HIDE DEF first
      <4>3. \E g : Runs(g, 1, n, Fractions, first, next)
        BY <1>4, <4>1, <4>2, RunExists
      <4>4. QED  BY <4>3 DEF first
    <3>3. g = [i \in 1 .. n |-> IF i = 1 THEN s[1].volume ELSE next[<<i, g[i - 1]>>]]
      BY <3>2 DEF Runs
    <3>4. \A i \in 1 .. n : i # 1 => g[i - 1] \in Fractions
      <4>1. \A i \in 1 .. n : i # 1 => i - 1 \in 1 .. n
        BY <1>1
      <4>2. QED  BY <3>2, <4>1 DEF Runs
    <3>5. \A i \in 1 .. n : i # 1 => next[<<i, g[i - 1]>>] = ObvStep(s, i, g[i - 1])
      BY <1>5, <3>4
    <3>6. [i \in 1 .. n |-> IF i = 1 THEN s[1].volume ELSE next[<<i, g[i - 1]>>]]
            = [i \in 1 .. n |-> IF i = 1 THEN s[1].volume ELSE ObvStep(s, i, g[i - 1])]
      BY <3>5
    <3>7. g = [i \in DOMAIN s |-> IF i = 1 THEN s[1].volume ELSE ObvStep(s, i, g[i - 1])]
      BY <1>1, <3>3, <3>6
    <3>8. E(g)
      BY <3>7 DEF ObvStep
    <3>9. QED  BY <3>8
  <2>3. QED  BY <1>1, <2>1, <2>2
<1>7. E(h)
  BY <1>6, Zenon
<1> HIDE DEF h
<1>8. h = [i \in DOMAIN s |-> IF i = 1 THEN s[1].volume ELSE ObvStep(s, i, h[i - 1])]
  BY <1>7 DEF ObvStep
<1>9. obv(s) = h
  BY <1>2, <1>8
<1>10. \A i \in 1 .. n : h[i] = IF i = 1 THEN s[1].volume ELSE ObvStep(s, i, h[i - 1])
  BY <1>1, <1>8
<1>11. h = [i \in 1 .. n |-> h[i]]
  BY <1>1, <1>8
<1>12. QED  BY <1>9, <1>10, <1>11 DEF Balances

LEMMA ObvBegins ==
  ASSUME NEW p, NEW s, NEW k, NEW n, Begins(p, s, k, n), Tabled(s, n)
  PROVE  Begins(obv(p), obv(s), k, n)
<1>1. n \in Nat /\ k \in 0 .. n /\ \A i \in 1 .. k : p[i] = s[i] /\ i \in 1 .. n
  BY BeginsIs
<1>2. Tabled(p, k)
  BY TabledBegins
<1> DEFINE h == obv(s)
           e == obv(p)
<1>3. Balances(h, s, n) /\ Balances(e, p, k)
  BY <1>2, ObvIs
<1> HIDE DEF h, e
<1>4. \A i \in 1 .. n : h[i] = IF i = 1 THEN s[1].volume ELSE ObvStep(s, i, h[i - 1])
  BY <1>3 DEF Balances
<1>5. \A i \in 1 .. k : e[i] = IF i = 1 THEN p[1].volume ELSE ObvStep(p, i, e[i - 1])
  BY <1>3 DEF Balances
<1> DEFINE G == {i \in 1 .. k : e[i] = h[i]}
<1>6. 1 <= k => 1 \in G
  <2> SUFFICES ASSUME 1 <= k PROVE 1 \in G
    OBVIOUS
  <2>1. 1 \in 1 .. k
    BY <1>1
  <2>2. p[1] = s[1] /\ 1 \in 1 .. n
    BY <1>1, <2>1
  <2>3. QED  BY <1>4, <1>5, <2>1, <2>2
<1>7. ASSUME NEW i \in 1 .. k - 1, i \in G PROVE i + 1 \in G
  <2>1. i + 1 \in 1 .. k /\ (i + 1) - 1 = i /\ i + 1 # 1 /\ i \in 1 .. k
    BY <1>1
  <2>2. p[i] = s[i] /\ p[i + 1] = s[i + 1] /\ i + 1 \in 1 .. n
    BY <1>1, <2>1
  <2>3. e[i + 1] = ObvStep(p, i + 1, e[i]) /\ h[i + 1] = ObvStep(s, i + 1, h[i])
    BY <1>4, <1>5, <2>1, <2>2
  <2>4. ObvStep(p, i + 1, e[i]) = ObvStep(s, i + 1, e[i])
    BY <2>1, <2>2 DEF ObvStep
  <2>5. e[i] = h[i]
    BY <1>7
  <2>6. QED  BY <2>1, <2>3, <2>4, <2>5
<1>8. 1 .. k \subseteq G
  <2>1. 1 \in Int /\ k \in Int
    BY <1>1
  <2> HIDE DEF G
  <2>2. QED  BY <1>6, <1>7, <2>1, CountingFrom
<1>9. \A i \in 1 .. k : e[i] = h[i]
  BY <1>8
<1>10. e = [i \in 1 .. k |-> e[i]] /\ h = [i \in 1 .. n |-> h[i]]
  BY <1>3 DEF Balances
<1>11. Begins(e, h, k, n)
  BY <1>1, <1>9, <1>10 DEF Begins
<1>12. QED  BY <1>11 DEF e, h

LEMMA VolatilityBegins ==
  ASSUME NEW p, NEW s, NEW k, NEW n, Begins(p, s, k, n), NEW w \in Nat \ {0}
  PROVE  Begins(volatility(p, w), volatility(s, w), k, n)
<1>1. /\ DOMAIN p = 1 .. k /\ DOMAIN s = 1 .. n /\ n \in Nat /\ k \in 0 .. n
      /\ \A i \in 1 .. k : p[i] = s[i] /\ i \in 1 .. n
  BY BeginsIs
<1> DEFINE Of(r) == LET valid == Defined(r)
                    IN IF Len(valid) < 2 THEN Missing ELSE Over2(Deviations(valid), Whole(Len(valid) - 1))
           Days(r, i) == [j \in 1 .. w |-> DailyRatio(r, i - w + j)]
<1>2. volatility(p, w) = [i \in 1 .. k |-> IF i <= w THEN Missing ELSE Of(Days(p, i))]
  BY <1>1 DEF volatility
<1>3. volatility(s, w) = [i \in 1 .. n |-> IF i <= w THEN Missing ELSE Of(Days(s, i))]
  BY <1>1 DEF volatility
<1>4. ASSUME NEW i \in 1 .. k, ~(i <= w) PROVE Days(p, i) = Days(s, i)
  <2>1. \A j \in 1 .. w : i - w + j \in 1 .. k /\ i - w + j - 1 \in 1 .. k
    BY <1>1, <1>4
  <2>2. \A j \in 1 .. w : DailyRatio(p, i - w + j) = DailyRatio(s, i - w + j)
    BY <1>1, <2>1 DEF DailyRatio
  <2>3. QED  BY <2>2
<1> HIDE DEF Of, Days
<1>5. \A i \in 1 .. k : volatility(p, w)[i] = volatility(s, w)[i]
  BY <1>1, <1>2, <1>3, <1>4
<1>6. QED  BY <1>1, <1>2, <1>3, <1>5 DEF Begins

LEMMA BetaBegins ==
  ASSUME NEW p, NEW s, NEW k, NEW n, Begins(p, s, k, n), NEW q, NEW t, Begins(q, t, k, n), NEW w \in Nat \ {0}
  PROVE  Begins(beta(p, q, w), beta(s, t, w), k, n)
<1>1. /\ DOMAIN p = 1 .. k /\ DOMAIN s = 1 .. n /\ n \in Nat /\ k \in 0 .. n
      /\ \A i \in 1 .. k : p[i] = s[i] /\ i \in 1 .. n
  BY BeginsIs
<1>2. \A i \in 1 .. k : q[i] = t[i]
  BY BeginsIs
<1> DEFINE Of(pairs) ==
             LET side(m) == [j \in DOMAIN pairs |-> pairs[j][m]]
                 cov == Sum([j \in DOMAIN pairs |-> Times(Minus(pairs[j][1], Mean(side(1))),
                                                          Minus(pairs[j][2], Mean(side(2))))])
             IN IF Len(pairs) < 2 THEN Missing ELSE RatioOf(cov, Deviations(side(2)))
           Pairs(r, u, i) == Picked([j \in 1 .. w |-> <<r[i - w + j], u[i - w + j]>>],
                                   {j \in 1 .. w : Missing \notin {r[i - w + j], u[i - w + j]}})
<1>3. beta(p, q, w) = [i \in 1 .. k |-> IF i < w THEN Missing ELSE Of(Pairs(p, q, i))]
  BY <1>1 DEF beta
<1>4. beta(s, t, w) = [i \in 1 .. n |-> IF i < w THEN Missing ELSE Of(Pairs(s, t, i))]
  BY <1>1 DEF beta
<1>5. ASSUME NEW i \in 1 .. k, ~(i < w) PROVE Pairs(p, q, i) = Pairs(s, t, i)
  <2>1. \A j \in 1 .. w : i - w + j \in 1 .. k
    BY <1>1, <1>5
  <2>2. \A j \in 1 .. w : p[i - w + j] = s[i - w + j] /\ q[i - w + j] = t[i - w + j]
    BY <1>1, <1>2, <2>1
  <2>3. [j \in 1 .. w |-> <<p[i - w + j], q[i - w + j]>>] = [j \in 1 .. w |-> <<s[i - w + j], t[i - w + j]>>]
    BY <2>2
  <2>4. {j \in 1 .. w : Missing \notin {p[i - w + j], q[i - w + j]}}
          = {j \in 1 .. w : Missing \notin {s[i - w + j], t[i - w + j]}}
    BY <2>2
  <2>5. QED  BY <2>3, <2>4
<1> HIDE DEF Of, Pairs
<1>6. \A i \in 1 .. k : beta(p, q, w)[i] = beta(s, t, w)[i]
  BY <1>1, <1>3, <1>4, <1>5
<1>7. QED  BY <1>1, <1>3, <1>4, <1>6 DEF Begins

-----------------------------------------------------------------------------
(* Falls and gaps *)

FallsTo(close, j) == {Over2(Minus(close[j], close[k]), close[k]) : k \in 1 .. j}
AllFalls(close, i) == UNION {FallsTo(close, j) : j \in 1 .. i}
WorstOf(falls) == CHOOSE worst \in falls : \A f \in falls : ~Less(f, worst)

LEMMA DrawdownBegins ==
  ASSUME NEW p, NEW s, NEW k, NEW n, Begins(p, s, k, n)
  PROVE  /\ Begins(max_drawdown(p), max_drawdown(s), k, n)
         /\ max_drawdown(s) = [i \in 1 .. n |-> IF i = 1 THEN Missing ELSE WorstOf(AllFalls(s, i))]
<1>1. /\ DOMAIN p = 1 .. k /\ DOMAIN s = 1 .. n /\ n \in Nat /\ k \in 0 .. n
      /\ \A i \in 1 .. k : p[i] = s[i] /\ i \in 1 .. n
  BY BeginsIs
<1>2. max_drawdown(p) = [i \in 1 .. k |-> IF i = 1 THEN Missing ELSE WorstOf(AllFalls(p, i))]
  BY <1>1 DEF max_drawdown, WorstOf, AllFalls, FallsTo
<1>3. max_drawdown(s) = [i \in 1 .. n |-> IF i = 1 THEN Missing ELSE WorstOf(AllFalls(s, i))]
  BY <1>1 DEF max_drawdown, WorstOf, AllFalls, FallsTo
<1>4. ASSUME NEW i \in 1 .. k PROVE AllFalls(p, i) = AllFalls(s, i)
  <2>1. \A j \in 1 .. i : j \in 1 .. k /\ \A m \in 1 .. j : m \in 1 .. k
    BY <1>1
  <2>2. \A j \in 1 .. i : \A m \in 1 .. j :
          Over2(Minus(p[j], p[m]), p[m]) = Over2(Minus(s[j], s[m]), s[m])
    BY <1>1, <2>1
  <2>3. ASSUME NEW j \in 1 .. i PROVE FallsTo(p, j) = FallsTo(s, j)
    BY <2>2 DEF FallsTo
  <2>4. {FallsTo(p, j) : j \in 1 .. i} = {FallsTo(s, j) : j \in 1 .. i}
    BY <2>3
  <2>5. QED  BY <2>4 DEF AllFalls
<1>5. \A i \in 1 .. k : max_drawdown(p)[i] = max_drawdown(s)[i]
  BY <1>1, <1>2, <1>3, <1>4
<1>6. QED  BY <1>1, <1>2, <1>3, <1>5 DEF Begins

\* The days of the window that opened away from the close before them.
GapsIn(s, i, w) ==
  {j \in i - w + 2 .. i : Less(Frac(1, 100), Distance(Over2(s[j].open, s[j - 1].close), Whole(1)))}

GapShares(t, s, n, w) ==
  t = [i \in 1 .. n |-> IF i <= w \/ w < 2 THEN Missing ELSE Frac(Cardinality(GapsIn(s, i, w)), w - 1)]

LEMMA GapBegins ==
  ASSUME NEW p, NEW s, NEW k, NEW n, Begins(p, s, k, n), NEW w \in Nat \ {0}
  PROVE  /\ Begins(gap_risk(p, w), gap_risk(s, w), k, n)
         /\ GapShares(gap_risk(s, w), s, n, w)
<1>1. /\ DOMAIN p = 1 .. k /\ DOMAIN s = 1 .. n /\ n \in Nat /\ k \in 0 .. n
      /\ \A i \in 1 .. k : p[i] = s[i] /\ i \in 1 .. n
  BY BeginsIs
<1> DEFINE Of(gaps) == Frac(Cardinality(gaps), w - 1)
<1>2. gap_risk(p, w) = [i \in 1 .. k |-> IF i <= w \/ w < 2 THEN Missing ELSE Of(GapsIn(p, i, w))]
  BY <1>1 DEF gap_risk, GapsIn
<1>3. gap_risk(s, w) = [i \in 1 .. n |-> IF i <= w \/ w < 2 THEN Missing ELSE Of(GapsIn(s, i, w))]
  BY <1>1 DEF gap_risk, GapsIn
<1>4. ASSUME NEW i \in 1 .. k, ~(i <= w) PROVE GapsIn(p, i, w) = GapsIn(s, i, w)
  <2>1. \A j \in i - w + 2 .. i : j \in 1 .. k /\ j - 1 \in 1 .. k
    BY <1>1, <1>4
  <2>2. \A j \in i - w + 2 .. i : p[j] = s[j] /\ p[j - 1] = s[j - 1]
    BY <1>1, <2>1
  <2>3. \A j \in i - w + 2 .. i :
          Less(Frac(1, 100), Distance(Over2(p[j].open, p[j - 1].close), Whole(1)))
            <=> Less(Frac(1, 100), Distance(Over2(s[j].open, s[j - 1].close), Whole(1)))
    BY <2>2
  <2>4. QED  BY <2>3 DEF GapsIn
<1>5. GapShares(gap_risk(s, w), s, n, w)
  BY <1>3 DEF GapShares
<1> HIDE DEF Of
<1>6. \A i \in 1 .. k : gap_risk(p, w)[i] = gap_risk(s, w)[i]
  BY <1>1, <1>2, <1>3, <1>4
<1>7. Begins(gap_risk(p, w), gap_risk(s, w), k, n)
  BY <1>1, <1>2, <1>3, <1>6 DEF Begins
<1>8. QED  BY <1>5, <1>7

-----------------------------------------------------------------------------
(* Ranges *)

\* Missing, or from lo to hi.
Lies(lo, v, hi) == v = Missing \/ (~Less(v, lo) /\ ~Less(hi, v))

LEMMA StrengthLies ==
  ASSUME NEW g, NEW l, Amount(g), Amount(l)
  PROVE  Lies(Zero, Strength(g, l), Whole(100))
<1>1. Whole(100) \in Fractions /\ Zero \in Fractions /\ Amount(Whole(100))
  BY WholeIs, WholeAmount DEF Zero
<1>2. CASE l = Zero
  <2>1. Strength(g, l) = Whole(100)
    BY <1>2 DEF Strength
  <2>2. ~Less(Whole(100), Whole(100))
    BY <1>1, LessTotal
  <2>3. QED  BY <1>1, <2>1, <2>2 DEF Lies, Amount
<1>3. CASE l # Zero
  <2> DEFINE x == Over2(g, l)
             y == Plus(Whole(1), x)
             q == Over2(Whole(100), y)
             v == Minus(Whole(100), q)
  <2>1. Amount(x)
    BY <1>3, AmountOver
  <2> HIDE DEF x
  <2>2. PICK r \in Int, c \in Nat \ {0} : Equals(x, r, c)
    <3>1. x \in Fractions
      BY <2>1 DEF Amount
    <3>2. Equals(x, x.num, x.den)
      BY <3>1, Itself
    <3>3. x.num \in Int /\ x.den \in Nat \ {0}
      BY <3>1 DEF Fractions
    <3>4. QED  BY <3>2, <3>3
  <2>3. r >= 0
    BY <2>1, <2>2, AmountIs
  <2>4. Equals(Whole(1), c, c)
    <3>1. Equals(Whole(1), 1 * c, c) /\ 1 * c = c
      BY WholeEquals
    <3>2. QED  BY <3>1
  <2> DEFINE d == c + r
  <2>5. d \in Nat \ {0} /\ d \in Int /\ d # 0
    BY <2>3
  <2>6. Equals(y, d, c)
    BY <2>2, <2>4, PlusIs
  <2> HIDE DEF y
  <2>7. Equals(Whole(100), 100, 1)
    <3>1. Equals(Whole(100), 100 * 1, 1) /\ 100 * 1 = 100
      BY WholeEquals
    <3>2. QED  BY <3>1
  <2>8. Equals(q, 100 * c, d)
    <3>1. 100 \in Int /\ 1 \in Nat \ {0} /\ 1 * d = d
      BY <2>5
    <3> HIDE DEF d
    <3>2. Equals(q, 100 * c, 1 * d)
      BY <2>5, <2>6, <2>7, <3>1, Over2Is
    <3>3. QED  BY <3>1, <3>2
  <2> HIDE DEF q
  <2>9. Equals(Whole(100), 100 * d, d)
    BY <2>5, WholeEquals
  <2> DEFINE t == 100 * d
             u == 100 * c
  <2>10. t \in Int /\ u \in Int /\ t - u \in Int /\ t - u >= 0 /\ ~(t < t - u)
    BY <2>3, <2>5
  <2> HIDE DEF d, t, u
  <2>11. Equals(Whole(100), t, d) /\ Equals(q, u, d)
    BY <2>8, <2>9 DEF t, u
  <2>12. Equals(v, t - u, d)
    BY <2>5, <2>10, <2>11, MinusIs
  <2> HIDE DEF v
  <2>13. Amount(v)
    BY <2>5, <2>10, <2>12, AmountIs
  <2> DEFINE z == t - u
  <2>14. z \in Int /\ ~(t < z) /\ Equals(v, z, d)
    BY <2>10, <2>12
  <2> HIDE DEF z
  <2>15. ~Less(Whole(100), v)
    BY <2>5, <2>10, <2>11, <2>14, LessIs
  <2>16. Strength(g, l) = v
    BY <1>3 DEF Strength, v, q, y, x
  <2>17. QED  BY <2>13, <2>15, <2>16 DEF Lies, Amount
<1>4. QED  BY <1>2, <1>3

LEMMA RsiLies ==
  ASSUME NEW n \in Nat, NEW s \in [1 .. n -> Fractions], NEW w \in Nat \ {0}, NEW i \in 1 .. n
  PROVE  Lies(Zero, rsi(s, w)[i], Whole(100))
<1>1. Begins(s, s, n, n) /\ n >= 1
  BY DEF Begins
<1>2. DOMAIN s = 1 .. n
  OBVIOUS
<1> DEFINE g == Wilder(Gains(s), w)
           l == Wilder(Falling(s), w)
<1>3. rsi(s, w) = [j \in 1 .. n |-> IF j <= w THEN Missing ELSE Strength(g[j - 1], l[j - 1])]
  BY <1>2, RsiIs
<1>4. /\ Gains(s) \in [1 .. n - 1 -> Fractions] /\ Falling(s) \in [1 .. n - 1 -> Fractions]
      /\ \A j \in 1 .. n - 1 : Amount(Gains(s)[j]) /\ Amount(Falling(s)[j])
  BY <1>1, ChangesBegin
<1> DEFINE m == n - 1
<1>5. m \in Nat
  BY <1>1
<1>6. \A j \in 1 .. m : j >= w => Amount(g[j]) /\ Amount(l[j])
  <2> DEFINE a == Gains(s)
             b == Falling(s)
  <2>1. a \in [1 .. m -> Fractions] /\ b \in [1 .. m -> Fractions]
    BY <1>4
  <2>2. (\A j \in 1 .. m : Amount(a[j])) /\ (\A j \in 1 .. m : Amount(b[j]))
    BY <1>4
  <2> HIDE DEF a, b, m
  <2>3. \A j \in 1 .. m : j >= w => Amount(Wilder(a, w)[j])
    BY <1>5, <2>1, <2>2, WilderIs
  <2>4. \A j \in 1 .. m : j >= w => Amount(Wilder(b, w)[j])
    BY <1>5, <2>1, <2>2, WilderIs
  <2>5. QED  BY <2>3, <2>4 DEF a, b
<1> HIDE DEF g, l
<1>7. CASE i <= w
  BY <1>3, <1>7 DEF Lies
<1>8. CASE ~(i <= w)
  <2>1. i - 1 \in 1 .. m /\ i - 1 >= w
    BY <1>8
  <2>2. Amount(g[i - 1]) /\ Amount(l[i - 1])
    BY <1>6, <2>1
  <2>3. Lies(Zero, Strength(g[i - 1], l[i - 1]), Whole(100))
    BY <2>2, StrengthLies
  <2>4. QED  BY <1>3, <1>8, <2>3
<1>9. QED  BY <1>7, <1>8

\* A fall between two positive closes is a fraction above -1, and none from a close to itself.
LEMMA FallIs ==
  ASSUME NEW a \in Fractions, NEW b \in Fractions, Less(Zero, a), Less(Zero, b)
  PROVE  /\ Over2(Minus(a, b), b) \in Fractions /\ ~Less(Over2(Minus(a, b), b), Whole(-1))
         /\ a = b => Over2(Minus(a, b), b) = Zero
<1>1. PICK n \in Int, m \in Int, d \in Nat \ {0} : Equals(a, n, d) /\ Equals(b, m, d)
  BY InCommon
<1>2. n > 0 /\ m > 0
  <2>1. Equals(Zero, 0, d) /\ 0 \in Int
    BY ZeroEquals
  <2>2. 0 < n /\ 0 < m
    BY <1>1, <2>1, LessIs
  <2>3. QED  BY <2>2
<1> DEFINE c == n - m
<1>3. c \in Int /\ Equals(Minus(a, b), c, d)
  BY <1>1, MinusIs
<1> DEFINE f == Over2(Minus(a, b), b)
           u == c * d
           e == d * m
<1> HIDE DEF c
<1>4. Equals(f, u, e)
  BY <1>1, <1>2, <1>3, Over2Is
<1>5. u \in Int /\ e \in Nat \ {0} /\ e \in Int /\ e # 0
  BY <1>2, <1>3
<1>6. Equals(Whole(-1), -1 * e, e)
  <2>1. -1 \in Int
    OBVIOUS
  <2> HIDE DEF e
  <2>2. QED  BY <1>5, <2>1, WholeEquals
<1>7. ~(u < -1 * e)
  <2>1. u = n * d - m * d
    BY DEF c
  <2>2. e = m * d
    OBVIOUS
  <2>3. n * d >= 0 /\ n * d \in Int /\ m * d \in Int
    BY <1>2
  <2> DEFINE x == n * d
             y == m * d
  <2> HIDE DEF x, y, u, e
  <2>4. u = x - y /\ e = y /\ x >= 0 /\ x \in Int /\ y \in Int
    BY <2>1, <2>2, <2>3 DEF x, y
  <2>5. QED  BY <2>4
<1> HIDE DEF f, u, e
<1> DEFINE v == -1 * e
<1>8. v \in Int /\ Equals(Whole(-1), v, e) /\ ~(u < v)
  BY <1>5, <1>6, <1>7
<1> HIDE DEF v
<1>9. ~Less(f, Whole(-1))
  BY <1>4, <1>5, <1>8, LessIs
<1>10. f \in Fractions
  BY <1>4, <1>5, EqualsType
<1>11. ASSUME a = b PROVE f = Zero
  <2>1. Equals(Minus(a, b), n - n, d)
    BY <1>1, <1>11, MinusIs
  <2>2. Equals(Minus(a, b), 0, d)
    <3>1. n - n = 0
      OBVIOUS
    <3>2. QED  BY <2>1, <3>1
  <2>3. Equals(f, 0 * d, d * m)
    <3>1. 0 \in Int /\ m # 0
      BY <1>2
    <3>2. Equals(Over2(Minus(a, b), b), 0 * d, d * m)
      BY <1>1, <2>2, <3>1, Over2Is
    <3>3. QED  BY <3>2 DEF f
  <2>4. Equals(f, 0, e)
    <3>1. 0 * d = 0
      OBVIOUS
    <3>2. QED  BY <2>3, <3>1 DEF e
  <2>5. Equals(Zero, 0, e) /\ 0 \in Int
    BY <1>5, ZeroEquals
  <2>6. QED  BY <1>5, <2>4, <2>5, SameValue
<1>12. QED  BY <1>9, <1>10, <1>11 DEF f

LEMMA DrawdownLies ==
  ASSUME NEW n \in Nat, NEW s \in [1 .. n -> Fractions], \A j \in 1 .. n : Less(Zero, s[j]), NEW i \in 1 .. n
  PROVE  Lies(Whole(-1), max_drawdown(s)[i], Zero)
<1>1. Begins(s, s, n, n)
  BY DEF Begins
<1>2. max_drawdown(s) = [j \in 1 .. n |-> IF j = 1 THEN Missing ELSE WorstOf(AllFalls(s, j))]
  BY <1>1, DrawdownBegins
<1>3. CASE i = 1
  BY <1>2, <1>3 DEF Lies
<1>4. CASE i # 1
  <2> DEFINE F == AllFalls(s, i)
  <2>1. \A f \in F : f \in Fractions /\ ~Less(f, Whole(-1))
    <3> SUFFICES ASSUME NEW f \in F PROVE f \in Fractions /\ ~Less(f, Whole(-1))
      OBVIOUS
    <3>1. PICK j \in 1 .. i : f \in FallsTo(s, j)
      BY DEF AllFalls
    <3>2. PICK m \in 1 .. j : f = Over2(Minus(s[j], s[m]), s[m])
      BY <3>1 DEF FallsTo
    <3>3. j \in 1 .. n /\ m \in 1 .. n
      OBVIOUS
    <3>4. s[j] \in Fractions /\ s[m] \in Fractions /\ Less(Zero, s[j]) /\ Less(Zero, s[m])
      BY <3>3
    <3>5. QED  BY <3>2, <3>4, FallIs
  <2>2. Zero \in F
    <3>1. s[i] \in Fractions /\ Less(Zero, s[i])
      OBVIOUS
    <3>2. Over2(Minus(s[i], s[i]), s[i]) = Zero
      BY <3>1, FallIs
    <3>3. i \in 1 .. i
      OBVIOUS
    <3>4. Zero \in FallsTo(s, i)
      BY <3>2, <3>3 DEF FallsTo
    <3>5. QED  BY <3>3, <3>4 DEF AllFalls
  <2>3. IsFiniteSet(F)
    <3>1. ASSUME NEW j \in 1 .. i PROVE IsFiniteSet(FallsTo(s, j))
      <4>1. IsFiniteSet(1 .. j)
        <5>1. 1 \in Int /\ j \in Int
          OBVIOUS
        <5>2. QED  BY <5>1, FS_Interval
      <4> DEFINE g == [m \in 1 .. j |-> Over2(Minus(s[j], s[m]), s[m])]
      <4>2. FallsTo(s, j) = {g[m] : m \in 1 .. j}
        BY DEF FallsTo
      <4>3. DOMAIN g = 1 .. j
        OBVIOUS
      <4> HIDE DEF g
      <4>4. QED  BY <4>1, <4>2, <4>3, ImageIsFinite
    <3>2. IsFiniteSet(1 .. i)
      <4>1. 1 \in Int /\ i \in Int
        OBVIOUS
      <4>2. QED  BY <4>1, FS_Interval
    <3> DEFINE g == [j \in 1 .. i |-> FallsTo(s, j)]
               T == {g[j] : j \in 1 .. i}
    <3>3. DOMAIN g = 1 .. i /\ \A j \in 1 .. i : g[j] = FallsTo(s, j)
      OBVIOUS
    <3> HIDE DEF g
    <3>4. IsFiniteSet(T)
      BY <3>2, <3>3, ImageIsFinite
    <3>5. T = {FallsTo(s, j) : j \in 1 .. i}
      BY <3>3
    <3>6. \A S \in T : IsFiniteSet(S)
      BY <3>1, <3>5
    <3> HIDE DEF T
    <3>7. IsFiniteSet(UNION T)
      BY <3>4, <3>6, FS_UNION
    <3>8. QED  BY <3>5, <3>7 DEF AllFalls
  <2> HIDE DEF F
  <2>4. \E x \in F : \A y \in F : ~Less(y, x)
    <3>1. F \subseteq Fractions /\ F # {}
      BY <2>1, <2>2
    <3>2. QED  BY <2>3, <3>1, LeastFraction
  <2>5. WorstOf(F) \in F /\ \A y \in F : ~Less(y, WorstOf(F))
    BY <2>4 DEF WorstOf
  <2>6. ~Less(WorstOf(F), Whole(-1)) /\ ~Less(Zero, WorstOf(F))
    BY <2>1, <2>2, <2>5
  <2>7. max_drawdown(s)[i] = WorstOf(F)
    BY <1>2, <1>4 DEF F
  <2>8. QED  BY <2>6, <2>7 DEF Lies
<1>5. QED  BY <1>3, <1>4

LEMMA GapsLie ==
  ASSUME NEW n \in Nat, NEW s, s = [j \in 1 .. n |-> s[j]], NEW w \in Nat \ {0}, NEW i \in 1 .. n
  PROVE  Lies(Zero, gap_risk(s, w)[i], Whole(1))
<1>1. Begins(s, s, n, n)
  BY DEF Begins
<1>2. GapShares(gap_risk(s, w), s, n, w)
  BY <1>1, GapBegins
<1>3. CASE i <= w \/ w < 2
  BY <1>2, <1>3 DEF Lies, GapShares
<1>4. CASE ~(i <= w \/ w < 2)
  <2> DEFINE S == GapsIn(s, i, w)
             a == i - w + 2
             e == w - 1
             c == Cardinality(S)
  <2>1. a \in Int /\ i \in Int /\ a <= i /\ i - a + 1 = e /\ e \in Nat \ {0} /\ e \in Int /\ e # 0
    BY <1>4
  <2>2. S \subseteq a .. i
    BY DEF GapsIn
  <2> HIDE DEF a, e, S
  <2>3. IsFiniteSet(a .. i) /\ Cardinality(a .. i) = IF a > i THEN 0 ELSE i - a + 1
    BY <2>1, FS_Interval
  <2>4. Cardinality(a .. i) = e
    BY <2>1, <2>3
  <2>5. IsFiniteSet(S) /\ Cardinality(S) <= Cardinality(a .. i)
    BY <2>2, <2>3, FS_Subset
  <2>6. c \in Nat
    BY <2>5, FS_CardinalityType
  <2>7. c <= e
    BY <2>4, <2>5
  <2> HIDE DEF c
  <2> DEFINE v == Frac(c, e)
  <2>8. c \in Int /\ c >= 0 /\ ~(e < c)
    BY <2>1, <2>6, <2>7
  <2>9. Equals(v, c, e)
    BY <2>1, <2>8, FracIs
  <2>10. Equals(Whole(1), e, e)
    <3>0. 1 \in Int /\ 1 * e = e
      BY <2>1
    <3>1. Equals(Whole(1), 1 * e, e)
      BY ONLY <2>1, <3>0, WholeEquals
    <3>2. QED  BY <3>0, <3>1
  <2> HIDE DEF v
  <2>11. Amount(v)
    BY <2>1, <2>8, <2>9, AmountIs
  <2>12. ~Less(Whole(1), v)
    BY <2>1, <2>8, <2>9, <2>10, LessIs
  <2>13. gap_risk(s, w)[i] = v
    BY <1>2, <1>4 DEF v, c, S, e, GapShares
  <2>14. QED  BY <2>11, <2>12, <2>13 DEF Lies, Amount
<1>5. QED  BY <1>3, <1>4

LEMMA AtrLies ==
  ASSUME NEW s, NEW n, Tabled(s, n), NEW w \in Nat \ {0}, NEW i \in 1 .. n
  PROVE  atr(s, w)[i] # Missing => ~Less(atr(s, w)[i], Zero)
<1>1. n \in Nat
  BY DEF Tabled
<1> DEFINE t == atr(s, w)
<1>2. Ranges(s, n) \in [1 .. n -> Fractions] /\ \A j \in 1 .. n : Amount(Ranges(s, n)[j])
  BY RangesAre
<1>3. (n >= 2 => t = Wilder(Ranges(s, n), w)) /\ (n < 2 => t = [j \in 1 .. n |-> Missing])
  BY RangesAre
<1>4. /\ i < w => Wilder(Ranges(s, n), w)[i] = Missing
      /\ i >= w => Amount(Wilder(Ranges(s, n), w)[i])
  BY <1>1, <1>2, WilderIs
<1> HIDE DEF t
<1>5. CASE n < 2
  BY <1>3, <1>5 DEF t
<1>6. CASE n >= 2
  <2>1. t[i] = Missing \/ Amount(t[i])
    <3>1. i < w \/ i >= w
      BY <1>1
    <3>2. QED  BY <1>3, <1>4, <1>6, <3>1
  <2>2. QED  BY <2>1 DEF Amount, t
<1>7. QED  BY <1>1, <1>5, <1>6

-----------------------------------------------------------------------------
(* Splits, and what is computed of the bars *)

LEMMA StoredIs ==
  ASSUME NEW bars, Stored(bars)
  PROVE  /\ Tabled(bars, Len(bars)) /\ DOMAIN bars = 1 .. Len(bars)
         /\ Field(bars, "close") \in [1 .. Len(bars) -> Fractions]
         /\ Field(bars, "bench") \in [1 .. Len(bars) -> Fractions]
         /\ \A i \in 1 .. Len(bars) : Less(Zero, Field(bars, "close")[i])
<1> DEFINE n == Len(bars)
<1>1. n \in Nat /\ DOMAIN bars = 1 .. n /\ bars = [i \in 1 .. n |-> bars[i]]
  <2> DEFINE V == {bars[i] : i \in DOMAIN bars}
  <2>1. bars \in Seq(V)
    BY DEF Stored
  <2> HIDE DEF V
  <2>2. QED  BY <2>1
<1>2. \A i \in 1 .. n : StoredBar(bars[i])
  BY <1>1 DEF Stored
<1> HIDE DEF n
<1>3. Tabled(bars, n)
  BY <1>1, <1>2 DEF Tabled
<1>4. \A i \in 1 .. n : /\ bars[i].close \in Fractions /\ bars[i].bench \in Fractions
                        /\ Less(Zero, bars[i].close)
  BY <1>2, BarIs
<1>5. /\ Field(bars, "close") = [i \in 1 .. n |-> bars[i].close]
      /\ Field(bars, "bench") = [i \in 1 .. n |-> bars[i].bench]
  BY <1>1 DEF Field
<1>6. QED  BY <1>1, <1>3, <1>4, <1>5 DEF n

LEMMA SplitsOrdered ==
  ASSUME IndicatorsAssumption, NEW bars, Stored(bars)
  PROVE  SplitsAreOrdered(bars)
<1> DEFINE days == RowDays(bars)
           R(x) == {y \in days : y < x}
<1>1. IsFiniteSet(days) /\ days \subseteq Int
  <2>1. CASE Len(bars) < Period.least
    <3>1. days = {}
      BY <2>1 DEF RowDays
    <3>2. QED  BY <3>1, FS_EmptySet
  <2>2. CASE ~(Len(bars) < Period.least)
    <3> DEFINE a == Period.warmup + 1
               b == Len(bars) - Period.horizon
    <3>1. days = a .. b
      BY <2>2 DEF RowDays
    <3>2. days \subseteq Int
      BY <3>1
    <3>3. IsFiniteSet(a .. b)
      <4>1. a \in Int
        BY DEF IndicatorsAssumption
      <4>2. b \in Int
        <5>1. Len(bars) \in Nat /\ Period.horizon \in Nat
          BY StoredIs DEF Tabled, IndicatorsAssumption
        <5>2. QED  BY <5>1
      <4> HIDE DEF a, b
      <4>3. QED  BY <4>1, <4>2, FS_Interval
    <3>4. QED  BY <3>1, <3>2, <3>3
  <2>3. QED  BY <2>1, <2>2
<1> DEFINE c == (Cardinality(days) * 6) \div 10
           e == (Cardinality(days) * 8) \div 10
<1>2. c \in Int /\ e \in Int
  <2>1. Cardinality(days) \in Nat
    BY <1>1, FS_CardinalityType
  <2>2. QED  BY <2>1
<1>3. \A x \in days : x \in Partition(days, "train") <=> Cardinality(R(x)) < c
  BY DEF Partition
<1>4. \A x \in days : x \in Partition(days, "test") <=> Cardinality(R(x)) >= e
  BY DEF Partition
<1> HIDE DEF days, c, e
<1>5. ASSUME NEW x \in days, NEW y \in days, x < y
      PROVE  ~(y \in Partition(days, "train") /\ x \notin Partition(days, "train"))
             /\ ~(x \in Partition(days, "test") /\ y \notin Partition(days, "test"))
  <2>1. R(x) \subseteq R(y)
    <3>1. x \in Int /\ y \in Int
      BY <1>1
    <3>2. \A z \in days : z \in Int /\ (z < x => z < y)
      BY <1>1, <1>5, <3>1
    <3>3. QED  BY <3>2
  <2>2. IsFiniteSet(R(x)) /\ IsFiniteSet(R(y))
    BY <1>1, FS_Subset
  <2>3. Cardinality(R(x)) <= Cardinality(R(y))
    BY <2>1, <2>2, FS_Subset
  <2>4. Cardinality(R(x)) \in Nat /\ Cardinality(R(y)) \in Nat
    BY <2>2, FS_CardinalityType
  <2> DEFINE m == Cardinality(R(x))
             n == Cardinality(R(y))
  <2> HIDE DEF m, n
  <2>5. m \in Nat /\ n \in Nat /\ m <= n
    BY <2>3, <2>4 DEF m, n
  <2>6. (x \in Partition(days, "train") <=> m < c) /\ (y \in Partition(days, "train") <=> n < c)
    BY <1>3 DEF m, n
  <2>7. (x \in Partition(days, "test") <=> m >= e) /\ (y \in Partition(days, "test") <=> n >= e)
    BY <1>4 DEF m, n
  <2>8. (n < c => m < c) /\ (m >= e => n >= e)
    BY <1>2, <2>5
  <2>9. QED  BY <2>6, <2>7, <2>8
<1>6. QED  BY <1>5 DEF SplitsAreOrdered, days

Names == {"sma", "ema", "rsi", "macd", "width", "atr", "obv", "strength", "roc", "momentum",
          "expansion", "volatility", "drawdown", "beta", "gaps"}

LEMMA IndicatorsAre ==
  ASSUME NEW bars
  PROVE  LET ind == IndicatorsOf(bars)
             close == Field(bars, "close")
             bench == Field(bars, "bench")
         IN /\ DOMAIN ind = Names
            /\ ind["sma"] = sma(close, Period.sma) /\ ind["ema"] = ema(close, Period.ema)
            /\ ind["rsi"] = rsi(close, Period.rsi)
            /\ ind["macd"] = macd_histogram(close, Period.fast, Period.slow, Period.signal)
            /\ ind["width"] = bollinger_width(close, Period.sma) /\ ind["atr"] = atr(bars, Period.atr)
            /\ ind["obv"] = obv(bars) /\ ind["strength"] = relative_strength(close, bench)
            /\ ind["roc"] = return_n(close, Period.roc)
            /\ ind["momentum"] = relative_momentum(close, bench, Period.roc)
            /\ ind["expansion"] = volume_expansion(Field(bars, "volume"), Period.sma)
            /\ ind["volatility"] = volatility(close, Period.vol) /\ ind["drawdown"] = max_drawdown(close)
            /\ ind["beta"] = beta(return_n(close, 1), return_n(bench, 1), Period.vol)
            /\ ind["gaps"] = gap_risk(bars, Period.vol)
  BY DEF IndicatorsOf, Names

LEMMA PeriodsAre ==
  ASSUME IndicatorsAssumption
  PROVE  /\ Period.sma \in Nat \ {0} /\ Period.ema \in Nat \ {0} /\ Period.rsi \in Nat \ {0}
         /\ Period.fast \in Nat \ {0} /\ Period.slow \in Nat \ {0} /\ Period.signal \in Nat \ {0}
         /\ Period.atr \in Nat \ {0} /\ 1 < Period.atr /\ Period.fast < Period.slow
         /\ Period.roc \in Nat \ {0} /\ Period.vol \in Nat \ {0} /\ Missing \notin Fractions
<1>1. \A name \in PeriodNames : Period[name] \in Nat \ {0}
  BY DEF IndicatorsAssumption
<1>2. {"sma", "ema", "rsi", "atr", "fast", "slow", "signal", "roc", "vol"} = PeriodNames
  BY DEF PeriodNames
<1>3. QED  BY <1>1, <1>2 DEF IndicatorsAssumption

LEMMA BegunIs ==
  ASSUME NEW p, NEW s, NEW k, NEW n, Begins(p, s, k, n)
  PROVE  p = SubSeq(s, 1, k)
BY BeginsIs

\* What an indicator says of the first days is what it says when only they are known.
LEMMA PastOnlyHolds ==
  ASSUME IndicatorsAssumption, NEW bars, Stored(bars)
  PROVE  PastOnly(bars)
<1> SUFFICES ASSUME NEW k \in 1 .. Len(bars), NEW name \in DOMAIN IndicatorsOf(bars)
             PROVE  IndicatorsOf(SubSeq(bars, 1, k))[name] = SubSeq(IndicatorsOf(bars)[name], 1, k)
  BY DEF PastOnly
<1> DEFINE n == Len(bars)
           b == SubSeq(bars, 1, k)
           close == Field(bars, "close")
           bench == Field(bars, "bench")
           volume == Field(bars, "volume")
           closeP == Field(b, "close")
           benchP == Field(b, "bench")
           volumeP == Field(b, "volume")
           late == IndicatorsOf(bars)
           early == IndicatorsOf(b)
<1>1. /\ Tabled(bars, n) /\ close \in [1 .. n -> Fractions]
      /\ n \in Nat /\ k \in 0 .. n /\ k >= 1
  <2>1. Tabled(bars, n) /\ close \in [1 .. n -> Fractions]
    BY StoredIs
  <2>2. n \in Nat
    BY <2>1 DEF Tabled
  <2>3. k \in 0 .. n /\ k >= 1
    BY <2>2
  <2>4. QED  BY <2>1, <2>2, <2>3
<1> HIDE DEF n
<1>2. Begins(b, bars, k, n)
  <2>1. bars = [i \in 1 .. n |-> bars[i]]
    BY <1>1 DEF Tabled
  <2>2. QED  BY <1>1, <2>1, Beginning
<1> HIDE DEF b
<1>3. Begins(closeP, close, k, n) /\ Begins(benchP, bench, k, n) /\ Begins(volumeP, volume, k, n)
  BY <1>2, FieldBegins
<1>4. /\ DOMAIN late = Names
      /\ late["sma"] = sma(close, Period.sma) /\ late["ema"] = ema(close, Period.ema)
      /\ late["rsi"] = rsi(close, Period.rsi)
      /\ late["macd"] = macd_histogram(close, Period.fast, Period.slow, Period.signal)
      /\ late["width"] = bollinger_width(close, Period.sma) /\ late["atr"] = atr(bars, Period.atr)
      /\ late["obv"] = obv(bars) /\ late["strength"] = relative_strength(close, bench)
      /\ late["roc"] = return_n(close, Period.roc)
      /\ late["momentum"] = relative_momentum(close, bench, Period.roc)
      /\ late["expansion"] = volume_expansion(volume, Period.sma)
      /\ late["volatility"] = volatility(close, Period.vol) /\ late["drawdown"] = max_drawdown(close)
      /\ late["beta"] = beta(return_n(close, 1), return_n(bench, 1), Period.vol)
      /\ late["gaps"] = gap_risk(bars, Period.vol)
  BY IndicatorsAre
<1>5. /\ early["sma"] = sma(closeP, Period.sma) /\ early["ema"] = ema(closeP, Period.ema)
      /\ early["rsi"] = rsi(closeP, Period.rsi)
      /\ early["macd"] = macd_histogram(closeP, Period.fast, Period.slow, Period.signal)
      /\ early["width"] = bollinger_width(closeP, Period.sma) /\ early["atr"] = atr(b, Period.atr)
      /\ early["obv"] = obv(b) /\ early["strength"] = relative_strength(closeP, benchP)
      /\ early["roc"] = return_n(closeP, Period.roc)
      /\ early["momentum"] = relative_momentum(closeP, benchP, Period.roc)
      /\ early["expansion"] = volume_expansion(volumeP, Period.sma)
      /\ early["volatility"] = volatility(closeP, Period.vol) /\ early["drawdown"] = max_drawdown(closeP)
      /\ early["beta"] = beta(return_n(closeP, 1), return_n(benchP, 1), Period.vol)
      /\ early["gaps"] = gap_risk(b, Period.vol)
  BY IndicatorsAre
<1> HIDE DEF close, bench, volume, closeP, benchP, volumeP, late, early
<1>6. /\ Begins(early["sma"], late["sma"], k, n) /\ Begins(early["width"], late["width"], k, n)
      /\ Begins(early["volatility"], late["volatility"], k, n)
  BY <1>3, <1>4, <1>5, PeriodsAre, SmaBegins, WidthBegins, VolatilityBegins
<1>7. Begins(early["ema"], late["ema"], k, n) /\ Begins(early["rsi"], late["rsi"], k, n)
  <2>1. Period.ema \in Nat \ {0} /\ Period.rsi \in Nat \ {0}
    BY PeriodsAre
  <2>2. Begins(ema(closeP, Period.ema), ema(close, Period.ema), k, n)
    BY <1>1, <1>3, <2>1, EmaBegins
  <2>3. Begins(rsi(closeP, Period.rsi), rsi(close, Period.rsi), k, n)
    BY <1>1, <1>3, <2>1, RsiBegins
  <2>4. QED  BY <1>4, <1>5, <2>2, <2>3
<1>8. Begins(early["macd"], late["macd"], k, n)
  <2> DEFINE f == Period.fast
             w == Period.slow
             g == Period.signal
  <2>1. /\ f \in Nat \ {0} /\ w \in Nat \ {0} /\ g \in Nat \ {0} /\ f < w
        /\ Missing \notin Fractions
    BY PeriodsAre
  <2>2. early["macd"] = macd_histogram(closeP, f, w, g) /\ late["macd"] = macd_histogram(close, f, w, g)
    BY <1>4, <1>5
  <2> HIDE DEF f, w, g
  <2>3. Begins(macd_histogram(closeP, f, w, g), macd_histogram(close, f, w, g), k, n)
    BY <1>1, <1>3, <2>1, HistogramBegins
  <2>4. QED  BY <2>2, <2>3
<1>9. Begins(early["atr"], late["atr"], k, n) /\ Begins(early["obv"], late["obv"], k, n)
  BY <1>1, <1>2, <1>4, <1>5, PeriodsAre, AtrBegins, ObvBegins
<1>10. Begins(early["strength"], late["strength"], k, n) /\ Begins(early["momentum"], late["momentum"], k, n)
  <2>1. Period.roc \in Nat \ {0}
    BY PeriodsAre
  <2>2. /\ Begins(relative_strength(closeP, benchP), relative_strength(close, bench), k, n)
        /\ Begins(relative_momentum(closeP, benchP, Period.roc), relative_momentum(close, bench, Period.roc), k, n)
    BY <1>3, <2>1, RelativeBegin
  <2>3. QED  BY <1>4, <1>5, <2>2
<1>11. Begins(early["expansion"], late["expansion"], k, n)
  BY <1>3, <1>4, <1>5, PeriodsAre, RelativeBegin
<1>12. Begins(early["roc"], late["roc"], k, n) /\ Begins(early["drawdown"], late["drawdown"], k, n)
  BY <1>3, <1>4, <1>5, PeriodsAre, ReturnBegins, DrawdownBegins
<1>13. Begins(early["gaps"], late["gaps"], k, n)
  BY <1>2, <1>4, <1>5, PeriodsAre, GapBegins
<1>14. Begins(early["beta"], late["beta"], k, n)
  <2>1. 1 \in Nat \ {0}
    OBVIOUS
  <2>2. Begins(return_n(closeP, 1), return_n(close, 1), k, n) /\ Begins(return_n(benchP, 1), return_n(bench, 1), k, n)
    BY <1>3, <2>1, ReturnBegins
  <2>3. QED  BY <1>4, <1>5, <2>2, PeriodsAre, BetaBegins
<1>15. name \in Names
  BY <1>4 DEF late
<1>16. Begins(early[name], late[name], k, n)
  BY <1>6, <1>7, <1>8, <1>9, <1>10, <1>11, <1>12, <1>13, <1>14, <1>15 DEF Names
<1>17. early[name] = SubSeq(late[name], 1, k)
  BY <1>16, BegunIs
<1>18. QED  BY <1>17 DEF early, late, b

LEMMA InRangeHolds ==
  ASSUME IndicatorsAssumption, NEW bars, Stored(bars)
  PROVE  InRange(bars)
<1> DEFINE n == Len(bars)
           close == Field(bars, "close")
           ind == IndicatorsOf(bars)
<1>1. /\ Tabled(bars, n) /\ DOMAIN bars = 1 .. n /\ close \in [1 .. n -> Fractions]
      /\ \A i \in 1 .. n : Less(Zero, close[i])
  BY StoredIs
<1>2. n \in Nat /\ bars = [i \in 1 .. n |-> bars[i]]
  BY <1>1 DEF Tabled
<1>3. /\ ind.rsi = rsi(close, Period.rsi) /\ ind.atr = atr(bars, Period.atr)
      /\ ind.drawdown = max_drawdown(close) /\ ind.gaps = gap_risk(bars, Period.vol)
  BY IndicatorsAre
<1> HIDE DEF n, close, ind
<1>4. ASSUME NEW i \in 1 .. n
      PROVE  /\ Lies(Zero, ind.rsi[i], Whole(100)) /\ Lies(Whole(-1), ind.drawdown[i], Zero)
             /\ Lies(Zero, ind.gaps[i], Whole(1))
             /\ ind.atr[i] # Missing => ~Less(ind.atr[i], Zero)
  <2>1. Period.rsi \in Nat \ {0} /\ Period.atr \in Nat \ {0} /\ Period.vol \in Nat \ {0}
    BY PeriodsAre
  <2>2. Lies(Zero, ind.rsi[i], Whole(100))
    BY <1>1, <1>2, <1>3, <2>1, RsiLies
  <2>3. Lies(Whole(-1), ind.drawdown[i], Zero)
    BY <1>1, <1>2, <1>3, DrawdownLies
  <2>4. Lies(Zero, ind.gaps[i], Whole(1))
    BY <1>2, <1>3, <2>1, GapsLie
  <2>5. ind.atr[i] # Missing => ~Less(ind.atr[i], Zero)
    BY <1>1, <1>3, <2>1, AtrLies
  <2>6. QED  BY <2>2, <2>3, <2>4, <2>5
<1>5. QED  BY <1>1, <1>4 DEF InRange, Lies, ind

-----------------------------------------------------------------------------
(* What an indicator says of a day is the same whether or not later bars are known, it stays   *)
(* in its range, and the model is tested on days after those it learnt from (src/market,       *)
(* dataset_builder): whatever the bars, the periods and the days.                              *)
THEOREM IndicatorsSeeOnlyThePast == IndicatorsSpec => []IndicatorsAreCausal
<1> DEFINE OneOfThem == question \in [kind : {"indicators"}, of : BarSeries]
<1>1. IndicatorsInit => OneOfThem
  BY DEF IndicatorsInit
<1>2. OneOfThem /\ [UNCHANGED question]_question => OneOfThem'
  OBVIOUS
<1>3. OneOfThem => IndicatorsAreCausal
  <2> SUFFICES ASSUME OneOfThem PROVE IndicatorsAreCausal
    OBVIOUS
  <2>1. Stored(question.of)
    BY IndicatorsAssumption DEF IndicatorsAssumption
  <2>2. PastOnly(question.of) /\ InRange(question.of) /\ SplitsAreOrdered(question.of)
    BY <2>1, IndicatorsAssumption, PastOnlyHolds, InRangeHolds, SplitsOrdered
  <2>3. QED  BY <2>2 DEF IndicatorsAreCausal
<1>4. QED  BY <1>1, <1>2, <1>3, PTL DEF IndicatorsSpec, Stays

-----------------------------------------------------------------------------
(* Evidence: how a text is cut *)

Windows == Seq(Int \X Int \X Int)
Gathered == [closed : Seq(Windows), open : Windows]

\* Every window of the cut is shorter than max_chars, and together they skip nothing.
LEMMA CutsIs ==
  ASSUME EvidenceAssumption, NEW length \in Nat \ {0}
  PROVE  /\ Step \in Nat \ {0} /\ Step <= MaxChars /\ Cuts(length) \in Nat
         /\ Cuts(length) * Step < length /\ length - Cuts(length) * Step <= MaxChars
         /\ Cuts(length) > 0 => (Cuts(length) - 1) * Step + MaxChars < length
<1>1. MaxChars \in Nat \ {0} /\ Overlap \in Nat
  BY EvidenceAssumption
<1>2. Shared \in Nat /\ Shared < MaxChars
  <2>1. MaxChars \div 2 \in Nat /\ MaxChars = 2 * (MaxChars \div 2) + (MaxChars % 2)
        /\ MaxChars % 2 \in Nat
    BY <1>1, DivMod
  <2> DEFINE half == MaxChars \div 2
             rem == MaxChars % 2
  <2>2. half \in Nat /\ rem \in Nat /\ MaxChars = 2 * half + rem
    BY <2>1
  <2>3. Shared = IF Overlap < half THEN Overlap ELSE half
    BY DEF Shared
  <2> HIDE DEF half, rem
  <2>4. QED  BY <1>1, <2>2, <2>3
<1>3. Step \in Nat \ {0} /\ Step <= MaxChars
  BY <1>1, <1>2 DEF Step
<1>4. CASE length <= MaxChars
  <2>1. Cuts(length) = 0
    BY <1>4 DEF Cuts
  <2>2. QED  BY <1>1, <1>3, <1>4, <2>1
<1>5. CASE length > MaxChars
  <2> DEFINE a == length - MaxChars
             b == (a + Step) - 1
             c == b \div Step
             r == b % Step
             cs == c * Step
  <2>1. a \in Nat /\ a >= 1 /\ b \in Nat
    BY <1>1, <1>3, <1>5
  <2>2. Cuts(length) = c
    <3>1. ~(length <= MaxChars)
      BY <1>1, <1>5
    <3>2. QED  BY <1>1, <1>3, <3>1 DEF Cuts
  <2> HIDE DEF a, b
  <2>3. c \in Nat /\ r \in Nat /\ r < Step /\ b = Step * c + r
    BY <1>3, <2>1, DivMod
  <2> HIDE DEF c, r
  <2>4. cs \in Int /\ b = cs + r /\ (c - 1) * Step = cs - Step
    BY <1>3, <2>3
  <2> HIDE DEF cs
  <2>5. cs >= a /\ cs <= b
    BY <1>3, <2>1, <2>3, <2>4 DEF b
  <2>6. Cuts(length) * Step = cs /\ (Cuts(length) - 1) * Step = cs - Step
    BY <2>2, <2>4 DEF cs
  <2>7. QED
    BY <1>1, <1>3, <1>5, <2>1, <2>2, <2>3, <2>4, <2>5, <2>6 DEF a, b
<1>6. QED  BY <1>1, <1>4, <1>5

LEMMA PieceIs ==
  ASSUME NEW p \in Int, NEW a \in Int, NEW b \in Int, b >= a - 1
  PROVE  /\ << <<p, a, b>> >> \in Windows /\ << <<p, a, b>> >> # <<>>
         /\ CharsOf(<< <<p, a, b>> >>) = {<<p, x>> : x \in a .. b}
         /\ Length(<< <<p, a, b>> >>) = b - a + 1
<1> DEFINE w == << <<p, a, b>> >>
           f == [i \in DOMAIN w |-> w[i][3] - w[i][2] + 1]
<1>1. w \in Windows /\ w # <<>> /\ Len(w) = 1 /\ DOMAIN w = {1}
  BY DEF Windows
<1>2. w[1][1] = p /\ w[1][2] = a /\ w[1][3] = b
  OBVIOUS
<1>3. CharsOf(w) = {<<p, x>> : x \in a .. b}
  <2>1. CharsOf(w) = UNION {{<<w[k][1], x>> : x \in w[k][2] .. w[k][3]} : k \in {1}}
    BY <1>1 DEF CharsOf
  <2> HIDE DEF w
  <2>2. QED  BY <1>2, <2>1
<1>4. Length(w) = b - a + 1
  <2>1. Length(w) = SumFunction(f) + Break * 0
    BY <1>1 DEF Length
  <2>2. IsFiniteSet({1}) /\ 1 \in {1}
    BY FS_Singleton
  <2>3. f = [i \in {1} |-> w[i][3] - w[i][2] + 1] /\ w[1][3] - w[1][2] + 1 \in Int
    BY <1>1, <1>2
  <2> HIDE DEF w
  <2>4. f \in [{1} -> Int] /\ f[1] = b - a + 1
    BY <1>2, <2>3
  <2> HIDE DEF f
  <2>5. /\ Restrict(f, {1} \ {1}) \in [{1} \ {1} -> Int]
        /\ SumFunction(f) = f[1] + SumFunction(Restrict(f, {1} \ {1}))
    BY <2>2, <2>4, SumSplits
  <2>6. {1} \ {1} = {} /\ IsFiniteSet({})
    BY FS_EmptySet
  <2>7. SumFunction(Restrict(f, {1} \ {1})) = 0
    <3> DEFINE e == Restrict(f, {1} \ {1})
    <3>1. e \in [{} -> Int]
      BY <2>5, <2>6
    <3> HIDE DEF e
    <3>2. SumFunction(e) = 0
      BY <2>6, <3>1, SumSplits
    <3>3. QED  BY <3>2 DEF e
  <2>8. QED  BY <2>1, <2>4, <2>5, <2>7 DEF Break
<1>5. QED  BY <1>1, <1>3, <1>4

\* A window goes on with a paragraph.
LEMMA AppendIs ==
  ASSUME NEW w \in Windows, NEW p \in Int, NEW length \in Nat
  PROVE  /\ Append(w, <<p, 1, length>>) \in Windows /\ Append(w, <<p, 1, length>>) # <<>>
         /\ CharsOf(Append(w, <<p, 1, length>>)) = CharsOf(w) \cup {<<p, x>> : x \in 1 .. length}
<1> DEFINE t == <<p, 1, length>>
           v == Append(w, t)
           n == Len(w)
           Chars(u, k) == {<<u[k][1], x>> : x \in u[k][2] .. u[k][3]}
<1>1. t \in Int \X Int \X Int /\ t[1] = p /\ t[2] = 1 /\ t[3] = length
  OBVIOUS
<1> HIDE DEF t
<1>2. v \in Windows /\ n \in Nat /\ DOMAIN w = 1 .. n /\ DOMAIN v = 1 .. n + 1 /\ v[n + 1] = t
      /\ \A k \in 1 .. n : v[k] = w[k]
  BY <1>1 DEF Windows
<1>3. v # <<>>
  BY <1>2
<1> HIDE DEF v, n
<1>4. CharsOf(v) = UNION {Chars(v, k) : k \in 1 .. n + 1} /\ CharsOf(w) = UNION {Chars(w, k) : k \in 1 .. n}
  BY <1>2 DEF CharsOf
<1>5. Chars(v, n + 1) = {<<p, x>> : x \in 1 .. length} /\ \A k \in 1 .. n : Chars(v, k) = Chars(w, k)
  BY <1>1, <1>2
<1> HIDE DEF Chars
<1>6. 1 .. n + 1 = (1 .. n) \cup {n + 1}
  BY <1>2
<1>7. CharsOf(v) = CharsOf(w) \cup {<<p, x>> : x \in 1 .. length}
  BY <1>4, <1>5, <1>6
<1>8. QED  BY <1>2, <1>3, <1>7 DEF v, t

LEMMA HardIs ==
  ASSUME EvidenceAssumption, NEW p \in Int, NEW length \in Nat \ {0}
  PROVE  /\ HardWindows(p, length) \in Seq(Windows) /\ DOMAIN HardWindows(p, length) = 1 .. Cuts(length)
         /\ \A j \in 1 .. Cuts(length) :
              /\ Length(HardWindows(p, length)[j]) = MaxChars
              /\ CharsOf(HardWindows(p, length)[j])
                   = {<<p, x>> : x \in (j - 1) * Step + 1 .. (j - 1) * Step + MaxChars}
         /\ RestWindow(p, length) \in Windows /\ RestWindow(p, length) # <<>>
         /\ Length(RestWindow(p, length)) = length - Cuts(length) * Step
         /\ CharsOf(RestWindow(p, length)) = {<<p, x>> : x \in Cuts(length) * Step + 1 .. length}
<1>1. /\ Step \in Nat \ {0} /\ Cuts(length) \in Nat /\ Cuts(length) * Step < length
      /\ MaxChars \in Nat \ {0}
  BY CutsIs, EvidenceAssumption
<1> DEFINE c == Cuts(length)
           h == HardWindows(p, length)
           First(j) == (j - 1) * Step + 1
           Final(j) == (j - 1) * Step + MaxChars
<1>2. \A j \in 1 .. c : First(j) \in Int /\ Final(j) \in Int /\ Final(j) - First(j) + 1 = MaxChars
                        /\ Final(j) >= First(j) - 1
  BY <1>1
<1>3. h = [j \in 1 .. c |-> << <<p, First(j), Final(j)>> >>]
  BY DEF HardWindows
<1> HIDE DEF h, First, Final
<1>4. \A j \in 1 .. c : /\ h[j] = << <<p, First(j), Final(j)>> >>
                        /\ h[j] \in Windows /\ Length(h[j]) = MaxChars
                        /\ CharsOf(h[j]) = {<<p, x>> : x \in First(j) .. Final(j)}
  <2> SUFFICES ASSUME NEW j \in 1 .. c
               PROVE /\ h[j] = << <<p, First(j), Final(j)>> >>
                     /\ h[j] \in Windows /\ Length(h[j]) = MaxChars
                     /\ CharsOf(h[j]) = {<<p, x>> : x \in First(j) .. Final(j)}
    OBVIOUS
  <2>1. h[j] = << <<p, First(j), Final(j)>> >>
    BY <1>3
  <2>2. First(j) \in Int /\ Final(j) \in Int /\ Final(j) >= First(j) - 1
    BY <1>2
  <2> DEFINE a == First(j)  b == Final(j)
  <2>3. a \in Int /\ b \in Int /\ b >= a - 1 /\ b - a + 1 = MaxChars
    BY <1>2
  <2> HIDE DEF a, b
  <2>4. /\ << <<p, a, b>> >> \in Windows
        /\ CharsOf(<< <<p, a, b>> >>) = {<<p, x>> : x \in a .. b}
        /\ Length(<< <<p, a, b>> >>) = b - a + 1
    BY <2>3, PieceIs
  <2>5. QED  BY <2>1, <2>3, <2>4 DEF a, b
<1>5. h \in Seq(Windows) /\ DOMAIN h = 1 .. c
  BY <1>1, <1>3, <1>4
<1> DEFINE a == c * Step + 1
<1>6. a \in Int /\ length >= a - 1 /\ length - a + 1 = length - c * Step /\ length \in Int
  BY <1>1
<1>7. RestWindow(p, length) = << <<p, a, length>> >>
  BY DEF RestWindow
<1> HIDE DEF a, c
<1>8. /\ RestWindow(p, length) \in Windows /\ RestWindow(p, length) # <<>>
      /\ CharsOf(RestWindow(p, length)) = {<<p, x>> : x \in a .. length}
      /\ Length(RestWindow(p, length)) = length - a + 1
  <2>1. /\ << <<p, a, length>> >> \in Windows /\ << <<p, a, length>> >> # <<>>
        /\ CharsOf(<< <<p, a, length>> >>) = {<<p, x>> : x \in a .. length}
        /\ Length(<< <<p, a, length>> >>) = length - a + 1
    BY <1>6, PieceIs
  <2>2. QED  BY <1>7, <2>1
<1>9. QED  BY <1>4, <1>5, <1>6, <1>8 DEF a, c, h, First, Final

\* The characters in a list of windows; each window brings one that neither the ones before it
\* nor the ones seen already have.
Covered(ws) == UNION {CharsOf(ws[i]) : i \in DOMAIN ws}
Freshly(ws, old) ==
  \A i \in DOMAIN ws : \E x \in CharsOf(ws[i]) : x \notin old /\ \A j \in 1 .. i - 1 : x \notin CharsOf(ws[j])
Short(ws) == \A i \in DOMAIN ws : Length(ws[i]) <= MaxChars

LEMMA Joined ==
  ASSUME NEW a \in Seq(Windows), NEW b \in Seq(Windows), NEW old
  PROVE  /\ a \o b \in Seq(Windows) /\ Covered(a \o b) = Covered(a) \cup Covered(b)
         /\ Short(a) /\ Short(b) => Short(a \o b)
         /\ Freshly(a, old) /\ Freshly(b, old \cup Covered(a)) => Freshly(a \o b, old)
<1> DEFINE c == a \o b
           n == Len(a)
           m == Len(b)
<1>1. /\ c \in Seq(Windows) /\ n \in Nat /\ m \in Nat /\ DOMAIN a = 1 .. n /\ DOMAIN b = 1 .. m
      /\ DOMAIN c = 1 .. n + m /\ \A i \in 1 .. n : c[i] = a[i]
  OBVIOUS
<1>2. \A i \in 1 .. m : c[n + i] = b[i] /\ n + i \in 1 .. n + m
  OBVIOUS
<1> HIDE DEF c, n, m
<1>3. \A i \in 1 .. n + m : i \in 1 .. n \/ \E k \in 1 .. m : i = n + k
  <2> SUFFICES ASSUME NEW i \in 1 .. n + m, i \notin 1 .. n PROVE \E k \in 1 .. m : i = n + k
    OBVIOUS
  <2>1. i - n \in 1 .. m /\ i = n + (i - n)
    BY <1>1
  <2>2. QED  BY <2>1
<1>4. Covered(c) = Covered(a) \cup Covered(b)
  <2>1. \A i \in 1 .. n : CharsOf(c[i]) = CharsOf(a[i]) /\ i \in 1 .. n + m
    BY <1>1
  <2>2. \A k \in 1 .. m : CharsOf(c[n + k]) = CharsOf(b[k])
    BY <1>2
  <2>3. /\ Covered(c) = UNION {CharsOf(c[i]) : i \in 1 .. n + m}
        /\ Covered(a) = UNION {CharsOf(a[i]) : i \in 1 .. n}
        /\ Covered(b) = UNION {CharsOf(b[i]) : i \in 1 .. m}
    BY <1>1 DEF Covered
  <2>4. Covered(c) \subseteq Covered(a) \cup Covered(b)
    <3> SUFFICES ASSUME NEW i \in 1 .. n + m
                 PROVE CharsOf(c[i]) \subseteq Covered(a) \cup Covered(b)
      BY <2>3
    <3>1. CASE i \in 1 .. n
      BY <2>1, <2>3, <3>1
    <3>2. CASE i \notin 1 .. n
      <4>1. PICK k \in 1 .. m : i = n + k
        BY <1>3, <3>2
      <4>2. CharsOf(c[i]) = CharsOf(b[k])
        BY <2>2, <4>1
      <4>3. QED  BY <2>3, <4>2
    <3>3. QED  BY <3>1, <3>2
  <2>5. Covered(a) \subseteq Covered(c)
    BY <2>1, <2>3
  <2>6. Covered(b) \subseteq Covered(c)
    BY <1>2, <2>2, <2>3
  <2>7. QED  BY <2>4, <2>5, <2>6
<1>5. Short(a) /\ Short(b) => Short(c)
  <2> SUFFICES ASSUME Short(a), Short(b), NEW i \in 1 .. n + m PROVE Length(c[i]) <= MaxChars
    BY <1>1 DEF Short
  <2>1. CASE i \in 1 .. n
    BY <1>1, <2>1 DEF Short
  <2>2. CASE i \notin 1 .. n
    <3>1. PICK k \in 1 .. m : i = n + k
      BY <1>3, <2>2
    <3>2. c[i] = b[k] /\ k \in DOMAIN b
      BY <1>1, <1>2, <3>1
    <3>3. QED  BY <3>2 DEF Short
  <2>3. QED  BY <2>1, <2>2
<1>6. Freshly(a, old) /\ Freshly(b, old \cup Covered(a)) => Freshly(c, old)
  <2> SUFFICES ASSUME Freshly(a, old), Freshly(b, old \cup Covered(a)), NEW i \in 1 .. n + m
               PROVE  \E x \in CharsOf(c[i]) : x \notin old /\ \A j \in 1 .. i - 1 : x \notin CharsOf(c[j])
    BY <1>1 DEF Freshly
  <2>1. CASE i \in 1 .. n
    <3>1. PICK x \in CharsOf(a[i]) : x \notin old /\ \A j \in 1 .. i - 1 : x \notin CharsOf(a[j])
      BY <1>1, <2>1 DEF Freshly
    <3>2. \A j \in 1 .. i - 1 : c[j] = a[j]
      BY <1>1, <2>1
    <3>3. x \in CharsOf(c[i])
      BY <1>1, <2>1
    <3>4. QED  BY <3>1, <3>2, <3>3
  <2>2. CASE i \notin 1 .. n
    <3>1. PICK k \in 1 .. m : i = n + k
      BY <1>3, <2>2
    <3>2. PICK x \in CharsOf(b[k]) : /\ x \notin old \cup Covered(a)
                                     /\ \A j \in 1 .. k - 1 : x \notin CharsOf(b[j])
      BY <1>1 DEF Freshly
    <3>3. x \in CharsOf(c[i])
      BY <1>2, <3>1, <3>2
    <3>4. ASSUME NEW j \in 1 .. i - 1 PROVE x \notin CharsOf(c[j])
      <4>1. CASE j \in 1 .. n
        <5>1. CharsOf(a[j]) \subseteq Covered(a) /\ c[j] = a[j]
          BY <1>1, <4>1 DEF Covered
        <5>2. QED  BY <3>2, <5>1
      <4>2. CASE j \notin 1 .. n
        <5>1. j \in 1 .. n + m /\ j < n + k
          BY <1>1, <3>1
        <5>2. PICK l \in 1 .. m : j = n + l
          BY <1>3, <4>2, <5>1
        <5>3. l \in 1 .. k - 1
          BY <1>1, <5>1, <5>2
        <5>4. c[j] = b[l]
          BY <1>2, <5>2
        <5>5. QED  BY <3>2, <5>3, <5>4
      <4>3. QED  BY <4>1, <4>2
    <3>5. QED  BY <3>2, <3>3, <3>4
  <2>3. QED  BY <2>1, <2>2
<1>7. QED  BY <1>1, <1>4, <1>5, <1>6 DEF c

LEMMA OneIs ==
  ASSUME NEW w \in Windows, NEW old
  PROVE  /\ <<w>> \in Seq(Windows) /\ Covered(<<w>>) = CharsOf(w)
         /\ Length(w) <= MaxChars => Short(<<w>>)
         /\ (\E x \in CharsOf(w) : x \notin old) => Freshly(<<w>>, old)
<1> DEFINE s == <<w>>
<1>1. s \in Seq(Windows) /\ DOMAIN s = {1} /\ s[1] = w
  OBVIOUS
<1> HIDE DEF s
<1>2. Covered(s) = CharsOf(w)
  BY <1>1 DEF Covered
<1>3. Length(w) <= MaxChars => Short(s)
  BY <1>1 DEF Short
<1>4. (\E x \in CharsOf(w) : x \notin old) => Freshly(s, old)
  <2> SUFFICES ASSUME NEW x \in CharsOf(w), x \notin old PROVE Freshly(s, old)
    OBVIOUS
  <2>1. 1 .. 1 - 1 = {}
    OBVIOUS
  <2>2. QED  BY <1>1, <2>1 DEF Freshly
<1>5. QED  BY <1>1, <1>2, <1>3, <1>4 DEF s

LEMMA NoneIs ==
  ASSUME NEW old
  PROVE  /\ <<>> \in Seq(Windows) /\ <<>> \in Windows /\ Covered(<<>>) = {} /\ CharsOf(<<>>) = {}
         /\ Short(<<>>) /\ Freshly(<<>>, old)
<1>1. <<>> \in Seq(Windows) /\ <<>> \in Windows /\ DOMAIN <<>> = {}
  BY DEF Windows
<1>2. QED  BY <1>1 DEF Covered, CharsOf, Short, Freshly

\* The characters of a paragraph.
Paragraph(p, length) == {<<p, x>> : x \in 1 .. length}

\* A paragraph that does not fit: full windows and a rest have all of it, and each goes on.
LEMMA LongIs ==
  ASSUME EvidenceAssumption, NEW p \in Int, NEW length \in Nat \ {0}, NEW old,
         old \cap Paragraph(p, length) = {}
  PROVE  /\ Covered(HardWindows(p, length)) \cup CharsOf(RestWindow(p, length)) = Paragraph(p, length)
         /\ Freshly(HardWindows(p, length), old) /\ Short(HardWindows(p, length))
         /\ \E x \in CharsOf(RestWindow(p, length)) : x \notin old \cup Covered(HardWindows(p, length))
         /\ Length(RestWindow(p, length)) <= MaxChars
<1> DEFINE c == Cuts(length)
           h == HardWindows(p, length)
           r == RestWindow(p, length)
           Offset(j) == (j - 1) * Step
           last == c * Step
<1>0. MaxChars \in Nat \ {0}
  BY EvidenceAssumption
<1>1. /\ Step \in Nat \ {0} /\ Step <= MaxChars /\ c \in Nat /\ last < length /\ length - last <= MaxChars
      /\ c > 0 => Offset(c) + MaxChars < length
  BY CutsIs
<1>2. /\ DOMAIN h = 1 .. c /\ \A j \in 1 .. c : Length(h[j]) = MaxChars
      /\ \A j \in 1 .. c : CharsOf(h[j]) = {<<p, x>> : x \in Offset(j) + 1 .. Offset(j) + MaxChars}
      /\ CharsOf(r) = {<<p, x>> : x \in last + 1 .. length} /\ Length(r) = length - last
  <2>1. DOMAIN h = 1 .. c
    BY HardIs
  <2>2. /\ \A j \in 1 .. c : Length(h[j]) = MaxChars
        /\ \A j \in 1 .. c : CharsOf(h[j]) = {<<p, x>> : x \in Offset(j) + 1 .. Offset(j) + MaxChars}
    BY HardIs
  <2>3. CharsOf(r) = {<<p, x>> : x \in last + 1 .. length} /\ Length(r) = length - last
    BY HardIs
  <2>4. QED  BY <2>1, <2>2, <2>3
<1>3. last \in Nat /\ \A j \in 1 .. c : Offset(j) \in Nat /\ Offset(j) + MaxChars < length
  <2>1. last \in Nat
    BY <1>1
  <2> SUFFICES ASSUME NEW j \in 1 .. c PROVE Offset(j) \in Nat /\ Offset(j) + MaxChars < length
    BY <2>1
  <2>2. c > 0 /\ Offset(j) \in Nat /\ Offset(c) \in Nat
    BY <1>1
  <2>3. (c - j) * Step >= 0 /\ (c - j) * Step = Offset(c) - Offset(j)
    BY <1>1
  <2> HIDE DEF Offset
  <2>4. Offset(j) <= Offset(c)
    <3> DEFINE d == (c - j) * Step
    <3>1. d >= 0 /\ d = Offset(c) - Offset(j)
      BY <2>3
    <3>2. d \in Int
      BY <1>1
    <3> HIDE DEF d
    <3>3. QED  BY <2>2, <3>1, <3>2
  <2>5. QED  BY <1>0, <1>1, <2>2, <2>4
<1>4. \A j, k \in 1 .. c : k < j => Offset(k) + MaxChars < Offset(j) + MaxChars
  <2> SUFFICES ASSUME NEW j \in 1 .. c, NEW k \in 1 .. c, k < j PROVE Offset(k) < Offset(j)
    BY <1>0, <1>3
  <2>1. (j - k) * Step > 0 /\ (j - k) * Step = Offset(j) - Offset(k)
    BY <1>1
  <2> DEFINE d == (j - k) * Step
  <2>2. d \in Int /\ d > 0 /\ d = Offset(j) - Offset(k)
    BY <1>1, <2>1
  <2> HIDE DEF d, Offset
  <2>3. QED  BY <1>3, <2>2
<1>5. \A x \in 1 .. length : x <= last => \E j \in 1 .. c : x \in Offset(j) + 1 .. Offset(j) + MaxChars
  <2> SUFFICES ASSUME NEW x \in 1 .. length, x <= last
               PROVE \E j \in 1 .. c : x \in Offset(j) + 1 .. Offset(j) + MaxChars
    OBVIOUS
  <2> DEFINE y == x - 1
             k == y \div Step
             m == y % Step
             ks == k * Step
  <2>1. y \in Nat /\ y < last
    BY <1>1, <1>3
  <2> HIDE DEF y
  <2>2. k \in Nat /\ m \in Nat /\ m < Step /\ y = Step * k + m
    BY <1>1, <2>1, DivMod
  <2> HIDE DEF k, m
  <2>3. ks \in Nat /\ y = ks + m
    BY <1>1, <2>2
  <2>4. k < c
    <3> SUFFICES ASSUME k >= c PROVE FALSE
      BY <1>1, <2>2
    <3>1. (k - c) * Step >= 0 /\ (k - c) * Step = ks - last
      BY <1>1, <2>2
    <3> DEFINE d == (k - c) * Step
    <3>2. d \in Int /\ d >= 0 /\ d = ks - last
      BY <1>1, <2>2, <3>1
    <3> HIDE DEF d, ks, last
    <3>3. QED  BY <1>3, <2>1, <2>2, <2>3, <3>2
  <2>5. k + 1 \in 1 .. c /\ Offset(k + 1) = ks
    BY <1>1, <2>2, <2>4
  <2> HIDE DEF ks, Offset, last
  <2>6. x \in ks + 1 .. ks + MaxChars
    BY <1>0, <1>1, <2>1, <2>2, <2>3 DEF y
  <2>7. QED  BY <2>5, <2>6
<1> HIDE DEF Offset, last, c, h, r
<1>6. Covered(h) \cup CharsOf(r) = Paragraph(p, length)
  <2>1. ASSUME NEW j \in 1 .. c PROVE CharsOf(h[j]) \subseteq Paragraph(p, length)
    <3>1. Offset(j) + 1 .. Offset(j) + MaxChars \subseteq 1 .. length
      BY <1>0, <1>3
    <3>2. QED  BY <1>2, <3>1 DEF Paragraph
  <2>2. CharsOf(r) \subseteq Paragraph(p, length)
    <3>1. last + 1 .. length \subseteq 1 .. length
      BY <1>3
    <3>2. QED  BY <1>2, <3>1 DEF Paragraph
  <2>3. ASSUME NEW x \in 1 .. length PROVE <<p, x>> \in Covered(h) \cup CharsOf(r)
    <3>1. CASE x <= last
      <4>1. PICK j \in 1 .. c : x \in Offset(j) + 1 .. Offset(j) + MaxChars
        BY <1>5, <3>1
      <4>2. <<p, x>> \in CharsOf(h[j])
        BY <1>2, <4>1
      <4>3. QED  BY <1>2, <4>2 DEF Covered
    <3>2. CASE ~(x <= last)
      <4>1. x \in last + 1 .. length
        BY <1>3, <3>2
      <4>2. QED  BY <1>2, <4>1
    <3>3. QED  BY <3>1, <3>2
  <2>4. Paragraph(p, length) \subseteq Covered(h) \cup CharsOf(r)
    BY <2>3 DEF Paragraph
  <2>5. Covered(h) \subseteq Paragraph(p, length)
    BY <1>2, <2>1 DEF Covered
  <2>6. QED  BY <2>2, <2>4, <2>5
<1>7. Freshly(h, old)
  <2> SUFFICES ASSUME NEW i \in 1 .. c
               PROVE  \E x \in CharsOf(h[i]) : x \notin old /\ \A j \in 1 .. i - 1 : x \notin CharsOf(h[j])
    BY <1>2 DEF Freshly
  <2> DEFINE z == Offset(i) + MaxChars
  <2>1. z \in Offset(i) + 1 .. Offset(i) + MaxChars /\ z \in 1 .. length
    BY <1>0, <1>3
  <2>2. <<p, z>> \in CharsOf(h[i]) /\ <<p, z>> \in Paragraph(p, length)
    BY <1>2, <2>1 DEF Paragraph
  <2>3. ASSUME NEW j \in 1 .. i - 1 PROVE <<p, z>> \notin CharsOf(h[j])
    <3>1. j \in 1 .. c /\ j < i
      BY <1>1
    <3>2. Offset(j) + MaxChars < z
      BY <1>4, <3>1
    <3>3. z \notin Offset(j) + 1 .. Offset(j) + MaxChars
      BY <1>0, <1>3, <2>1, <3>1, <3>2
    <3> HIDE DEF z
    <3>4. QED  BY <1>2, <3>1, <3>3
  <2> HIDE DEF z
  <2>4. QED  BY <2>2, <2>3
<1>8. Short(h)
  BY <1>0, <1>2 DEF Short
<1>9. \E x \in CharsOf(r) : x \notin old \cup Covered(h)
  <2>1. length \in last + 1 .. length /\ length \in 1 .. length
    BY <1>1, <1>3
  <2>2. <<p, length>> \in CharsOf(r) /\ <<p, length>> \in Paragraph(p, length)
    BY <1>2, <2>1 DEF Paragraph
  <2>3. ASSUME NEW j \in 1 .. c PROVE <<p, length>> \notin CharsOf(h[j])
    <3>1. length \notin Offset(j) + 1 .. Offset(j) + MaxChars
      BY <1>0, <1>3
    <3>2. QED  BY <1>2, <3>1
  <2>4. <<p, length>> \notin Covered(h)
    BY <1>2, <2>3 DEF Covered
  <2>5. QED  BY <2>2, <2>4
<1>10. Length(r) <= MaxChars
  BY <1>1, <1>2
<1>11. QED  BY <1>6, <1>7, <1>8, <1>9, <1>10 DEF h, r

Text(doc) ==
  /\ Len(doc) \in Nat /\ DOMAIN doc = 1 .. Len(doc)
  /\ \A p \in 1 .. Len(doc) : /\ doc[p] \in Seq(Words) /\ Len(doc[p]) \in Nat \ {0}
                              /\ DOMAIN doc[p] = 1 .. Len(doc[p])

Paragraphs(doc, k) == UNION {Paragraph(p, Len(doc[p])) : p \in 1 .. k}

\* What is gathered of the first k paragraphs.
Keeps(acc, doc, k) ==
  /\ acc \in Gathered
  /\ Covered(acc.closed) \cup CharsOf(acc.open) = Paragraphs(doc, k)
  /\ Freshly(acc.closed, {}) /\ Short(acc.closed)
  /\ acc.open # <<>> =>
       Length(acc.open) <= MaxChars /\ \E x \in CharsOf(acc.open) : x \notin Covered(acc.closed)

\* The windows there would be if the text ended here.
Ended(acc) == acc.closed \o (IF acc.open = <<>> THEN <<>> ELSE <<acc.open>>)

LEMMA EndedIs ==
  ASSUME NEW acc, NEW doc, NEW k, Keeps(acc, doc, k)
  PROVE  /\ Ended(acc) \in Seq(Windows) /\ Covered(Ended(acc)) = Paragraphs(doc, k)
         /\ Freshly(Ended(acc), {}) /\ Short(Ended(acc))
<1> DEFINE a == acc.closed
           w == acc.open
           b == IF w = <<>> THEN <<>> ELSE <<w>>
<1>1. a \in Seq(Windows) /\ w \in Windows
  BY DEF Keeps, Gathered
<1>2. /\ Covered(a) \cup CharsOf(w) = Paragraphs(doc, k) /\ Freshly(a, {}) /\ Short(a)
      /\ w # <<>> => Length(w) <= MaxChars /\ \E x \in CharsOf(w) : x \notin Covered(a)
  BY DEF Keeps
<1>3. Ended(acc) = a \o b
  BY DEF Ended
<1> HIDE DEF a, w
<1>4. /\ b \in Seq(Windows) /\ Covered(b) = CharsOf(w) /\ Short(b) /\ Freshly(b, {} \cup Covered(a))
  <2>1. CASE w = <<>>
    <3>1. b = <<>>
      BY <2>1
    <3>2. QED  BY <2>1, <3>1, NoneIs
  <2>2. CASE w # <<>>
    <3>1. b = <<w>>
      BY <2>2
    <3>2. /\ <<w>> \in Seq(Windows) /\ Covered(<<w>>) = CharsOf(w)
          /\ Length(w) <= MaxChars => Short(<<w>>)
          /\ (\E x \in CharsOf(w) : x \notin Covered(a)) => Freshly(<<w>>, Covered(a))
      BY <1>1, OneIs
    <3>3. {} \cup Covered(a) = Covered(a)
      OBVIOUS
    <3>4. QED  BY <1>2, <2>2, <3>1, <3>2, <3>3
  <2>3. QED  BY <2>1, <2>2
<1> HIDE DEF b
<1>5. /\ a \o b \in Seq(Windows) /\ Covered(a \o b) = Covered(a) \cup Covered(b)
      /\ Short(a) /\ Short(b) => Short(a \o b)
      /\ Freshly(a, {}) /\ Freshly(b, {} \cup Covered(a)) => Freshly(a \o b, {})
  BY <1>1, <1>4, Joined
<1>6. QED  BY <1>2, <1>3, <1>4, <1>5

LEMMA ParagraphsGrow ==
  ASSUME NEW doc, NEW k \in Nat
  PROVE  /\ Paragraphs(doc, k + 1) = Paragraphs(doc, k) \cup Paragraph(k + 1, Len(doc[k + 1]))
         /\ Paragraphs(doc, k) \cap Paragraph(k + 1, Len(doc[k + 1])) = {}
         /\ Paragraphs(doc, 0) = {}
<1>1. 1 .. k + 1 = (1 .. k) \cup {k + 1} /\ 1 .. 0 = {}
  OBVIOUS
<1>2. Paragraphs(doc, k + 1) = Paragraphs(doc, k) \cup Paragraph(k + 1, Len(doc[k + 1]))
  BY <1>1 DEF Paragraphs
<1>3. ASSUME NEW p \in 1 .. k PROVE Paragraph(p, Len(doc[p])) \cap Paragraph(k + 1, Len(doc[k + 1])) = {}
  <2>1. p # k + 1
    OBVIOUS
  <2>2. QED  BY <2>1 DEF Paragraph
<1>4. Paragraphs(doc, k) \cap Paragraph(k + 1, Len(doc[k + 1])) = {}
  BY <1>3 DEF Paragraphs
<1>5. Paragraphs(doc, 0) = {}
  BY <1>1 DEF Paragraphs
<1>6. QED  BY <1>2, <1>4, <1>5

LEMMA AddedIs ==
  ASSUME EvidenceAssumption, NEW acc \in Gathered, NEW p \in Int, NEW length \in Nat \ {0}
  PROVE  Added(acc, p, length) \in Gathered
<1> DEFINE whole == Append(acc.open, <<p, 1, length>>)
           kept == IF acc.open = <<>> THEN <<>> ELSE <<acc.open>>
           hard == HardWindows(p, length)
<1>1. acc.closed \in Seq(Windows) /\ acc.open \in Windows
  BY DEF Gathered
<1>2. whole \in Windows
  BY <1>1, AppendIs
<1>3. kept \in Seq(Windows) /\ hard \in Seq(Windows) /\ RestWindow(p, length) \in Windows
  <2>1. hard \in Seq(Windows) /\ RestWindow(p, length) \in Windows
    BY HardIs
  <2>2. QED  BY <1>1, <2>1
<1>4. Added(acc, p, length) =
        IF Length(whole) <= MaxChars THEN [closed |-> acc.closed, open |-> whole]
        ELSE [closed |-> acc.closed \o kept \o hard, open |-> RestWindow(p, length)]
  BY DEF Added
<1> HIDE DEF whole, kept, hard
<1>5. acc.closed \o kept \o hard \in Seq(Windows)
  BY <1>1, <1>3
<1>6. QED  BY <1>1, <1>2, <1>3, <1>4, <1>5 DEF Gathered

\* One more paragraph.
LEMMA AddedKeeps ==
  ASSUME EvidenceAssumption, NEW doc, NEW k \in Nat, NEW acc, Keeps(acc, doc, k),
         NEW length \in Nat \ {0}, length = Len(doc[k + 1])
  PROVE  Keeps(Added(acc, k + 1, length), doc, k + 1)
<1> DEFINE p == k + 1
           whole == Append(acc.open, <<p, 1, length>>)
           hard == HardWindows(p, length)
           rest == RestWindow(p, length)
           next == Added(acc, p, length)
           old == Paragraphs(doc, k)
           more == Paragraph(p, length)
<1>1. /\ acc \in Gathered /\ acc.closed \in Seq(Windows) /\ acc.open \in Windows
      /\ Covered(acc.closed) \cup CharsOf(acc.open) = old /\ Freshly(acc.closed, {}) /\ Short(acc.closed)
  BY DEF Keeps, Gathered
<1>2. p \in Int /\ next \in Gathered
  BY <1>1, AddedIs
<1>3. Paragraphs(doc, p) = old \cup more /\ old \cap more = {}
  BY ParagraphsGrow
<1>4. next = IF Length(whole) <= MaxChars THEN [closed |-> acc.closed, open |-> whole]
             ELSE [closed |-> Ended(acc) \o hard, open |-> rest]
  BY DEF Added, Ended
<1>5. CASE Length(whole) <= MaxChars
  <2>1. next.closed = acc.closed /\ next.open = whole
    BY <1>4, <1>5
  <2>2. CharsOf(whole) = CharsOf(acc.open) \cup more
    BY <1>1, <1>2, AppendIs DEF Paragraph
  <2>3. <<p, 1>> \in more
    BY DEF Paragraph
  <2> HIDE DEF whole, next, old, more
  <2>4. Covered(acc.closed) \cup CharsOf(whole) = Paragraphs(doc, p)
    BY <1>1, <1>3, <2>2
  <2>5. \E x \in CharsOf(whole) : x \notin Covered(acc.closed)
    BY <1>1, <1>3, <2>2, <2>3
  <2>6. Keeps(next, doc, p)
    BY <1>1, <1>2, <1>5, <2>1, <2>4, <2>5 DEF Keeps
  <2>7. QED  BY <2>6 DEF next, p
<1>6. CASE ~(Length(whole) <= MaxChars)
  <2> DEFINE ended == Ended(acc)
  <2>1. next.closed = ended \o hard /\ next.open = rest
    BY <1>4, <1>6
  <2>2. ended \in Seq(Windows) /\ Covered(ended) = old /\ Freshly(ended, {}) /\ Short(ended)
    BY EndedIs
  <2>3. hard \in Seq(Windows)
    BY <1>2, HardIs
  <2>4. old \cap Paragraph(p, length) = {}
    BY <1>3
  <2> HIDE DEF p, old, ended
  <2>5. /\ Covered(hard) \cup CharsOf(rest) = more /\ Freshly(hard, old) /\ Short(hard)
        /\ \E x \in CharsOf(rest) : x \notin old \cup Covered(hard)
        /\ Length(rest) <= MaxChars
    BY <1>2, <2>4, LongIs
  <2> HIDE DEF hard, rest, more, next
  <2>6. {} \cup Covered(ended) = old
    BY <2>2
  <2>7. /\ Covered(ended \o hard) = Covered(ended) \cup Covered(hard)
        /\ Short(ended) /\ Short(hard) => Short(ended \o hard)
        /\ Freshly(ended, {}) /\ Freshly(hard, {} \cup Covered(ended)) => Freshly(ended \o hard, {})
    BY <2>2, <2>3, Joined
  <2>8. Covered(next.closed) = old \cup Covered(hard) /\ Short(next.closed) /\ Freshly(next.closed, {})
    BY <2>1, <2>2, <2>5, <2>6, <2>7
  <2>9. Covered(next.closed) \cup CharsOf(next.open) = Paragraphs(doc, p)
    BY <1>3, <2>1, <2>5, <2>8
  <2>10. Keeps(next, doc, p)
    BY <1>2, <2>1, <2>5, <2>8, <2>9 DEF Keeps
  <2>11. QED  BY <2>10 DEF next, p
<1>7. QED  BY <1>5, <1>6

\* Chunking goes through the paragraphs in order.
Gathers(h, doc) ==
  /\ h = [p \in 0 .. Len(doc) |-> IF p = 0 THEN [closed |-> <<>>, open |-> <<>>]
                                  ELSE Added(h[p - 1], p, Len(doc[p]))]
  /\ h \in [0 .. Len(doc) -> Gathered]

LEMMA GatherIs ==
  ASSUME EvidenceAssumption, NEW doc, Text(doc)
  PROVE  \E h : Gathers(h, doc) /\ Gather(doc) = h[Len(doc)]
<1> DEFINE n == Len(doc)
           start == [closed |-> <<>>, open |-> <<>>]
           next == [q \in (0 .. n) \X Gathered |->
                      IF q[1] = 0 THEN start ELSE Added(q[2], q[1], Len(doc[q[1]]))]
           E(h) == h = [p \in 0 .. n |-> IF p = 0 THEN start ELSE Added(h[p - 1], p, Len(doc[p]))]
<1>1. n \in Nat /\ \A p \in 1 .. n : Len(doc[p]) \in Nat \ {0}
  BY DEF Text
<1>2. start \in Gathered
  BY NoneIs DEF Gathered
<1> HIDE DEF n, start
<1>3. \A p \in 0 .. n, v \in Gathered : p # 0 => Added(v, p, Len(doc[p])) \in Gathered
  <2> SUFFICES ASSUME NEW p \in 0 .. n, NEW v \in Gathered, p # 0
               PROVE  Added(v, p, Len(doc[p])) \in Gathered
    OBVIOUS
  <2>1. p \in Int /\ Len(doc[p]) \in Nat \ {0}
    BY <1>1
  <2>2. QED  BY <2>1, AddedIs
<1>4. next \in [(0 .. n) \X Gathered -> Gathered]
  <2> SUFFICES ASSUME NEW i \in 0 .. n, NEW v \in Gathered
               PROVE (IF i = 0 THEN start ELSE Added(v, i, Len(doc[i]))) \in Gathered
    OBVIOUS
  <2>1. QED  BY <1>2, <1>3
<1>5. \A i \in 0 .. n, v \in Gathered : i # 0 => next[<<i, v>>] = Added(v, i, Len(doc[i]))
  OBVIOUS
<1> HIDE DEF next
<1>6. PICK g : Runs(g, 0, n, Gathered, start, next)
  <2>1. 0 \in Int /\ n \in Int
    BY <1>1
  <2>2. QED  BY <1>2, <1>4, <2>1, RunExists
<1>7. E(g)
  <2>1. g = [i \in 0 .. n |-> IF i = 0 THEN start ELSE next[<<i, g[i - 1]>>]]
    BY <1>6 DEF Runs
  <2>2. \A i \in 0 .. n : i # 0 => g[i - 1] \in Gathered
    BY <1>1, <1>6 DEF Runs
  <2>3. \A i \in 0 .. n : i # 0 => next[<<i, g[i - 1]>>] = Added(g[i - 1], i, Len(doc[i]))
    BY <1>5, <2>2
  <2>4. [i \in 0 .. n |-> IF i = 0 THEN start ELSE next[<<i, g[i - 1]>>]]
          = [i \in 0 .. n |-> IF i = 0 THEN start ELSE Added(g[i - 1], i, Len(doc[i]))]
    BY <2>3
  <2>5. QED  BY <2>1, <2>4
<1> DEFINE h == CHOOSE h : E(h)
<1>8. E(h)
  BY <1>7
<1>9. Gather(doc) = h[n]
  BY DEF Gather, n, start
<1> HIDE DEF h
<1>10. 0 .. n \subseteq {i \in 0 .. n : h[i] \in Gathered}
  <2> DEFINE G == {i \in 0 .. n : h[i] \in Gathered}
  <2>1. 0 \in G
    BY <1>1, <1>2, <1>8
  <2>2. ASSUME NEW i \in 0 .. n - 1, i \in G PROVE i + 1 \in G
    <3>1. i + 1 \in 0 .. n /\ i + 1 # 0 /\ (i + 1) - 1 = i
      BY <1>1
    <3>2. h[i + 1] = Added(h[i], i + 1, Len(doc[i + 1]))
      BY <1>8, <3>1
    <3>3. h[i] \in Gathered
      BY <2>2
    <3>4. QED  BY <1>3, <3>1, <3>2, <3>3
  <2>3. QED
    <3>1. 0 \in Int /\ n \in Int
      BY <1>1
    <3> HIDE DEF G
    <3>2. 0 .. n \subseteq G
      BY <2>1, <2>2, <3>1, CountingFrom
    <3>3. QED  BY <3>2 DEF G
<1>11. h \in [0 .. n -> Gathered]
  BY <1>8, <1>10
<1>12. Gathers(h, doc)
  BY <1>8, <1>11 DEF Gathers, n, start
<1>13. QED  BY <1>9, <1>12 DEF n

LEMMA ChunksAre ==
  ASSUME EvidenceAssumption, NEW doc, Text(doc)
  PROVE  /\ Chunks(doc) \in Seq(Windows) /\ Covered(Chunks(doc)) = Paragraphs(doc, Len(doc))
         /\ Freshly(Chunks(doc), {}) /\ Short(Chunks(doc))
<1> DEFINE n == Len(doc)
<1>1. PICK h : Gathers(h, doc) /\ Gather(doc) = h[n]
  BY GatherIs
<1>2. n \in Nat /\ \A p \in 1 .. n : Len(doc[p]) \in Nat \ {0}
  BY DEF Text
<1> HIDE DEF n
<1> DEFINE G == {k \in 0 .. n : Keeps(h[k], doc, k)}
<1>3. 0 <= n => 0 \in G
  <2> DEFINE start == [closed |-> <<>>, open |-> <<>>]
  <2>1. h[0] = start /\ 0 \in 0 .. n
    BY <1>1, <1>2 DEF Gathers, n
  <2>2. start \in Gathered /\ start.closed = <<>> /\ start.open = <<>>
    BY NoneIs DEF Gathered
  <2>3. Paragraphs(doc, 0) = {}
    <3>1. 0 \in Nat
      OBVIOUS
    <3>2. QED  BY <3>1, ParagraphsGrow
  <2> HIDE DEF start
  <2>4. Keeps(start, doc, 0)
    BY <2>2, <2>3, NoneIs DEF Keeps
  <2>5. QED  BY <2>1, <2>4
<1>4. ASSUME NEW k \in 0 .. n - 1, k \in G PROVE k + 1 \in G
  <2>1. k \in Nat /\ k + 1 \in 1 .. n /\ k + 1 \in 0 .. n /\ k + 1 # 0 /\ (k + 1) - 1 = k
    BY <1>2
  <2> DEFINE length == Len(doc[k + 1])
  <2>2. h[k + 1] = Added(h[k], k + 1, length)
    BY <1>1, <2>1 DEF Gathers, n
  <2>3. length \in Nat \ {0} /\ Keeps(h[k], doc, k) /\ length = Len(doc[k + 1])
    BY <1>2, <1>4, <2>1
  <2> HIDE DEF length
  <2>4. Keeps(Added(h[k], k + 1, length), doc, k + 1)
    BY <2>1, <2>3, AddedKeeps
  <2>5. QED  BY <2>1, <2>2, <2>4
<1>5. Keeps(h[n], doc, n)
  <2>1. 0 \in Int /\ n \in Int /\ n \in 0 .. n
    BY <1>2
  <2> HIDE DEF G
  <2>2. 0 .. n \subseteq G
    BY <1>3, <1>4, <2>1, CountingFrom
  <2>3. QED  BY <2>1, <2>2 DEF G
<1> DEFINE g == h[n]
<1>6. Chunks(doc) = Ended(g)
  <2>1. Chunks(doc) = IF g.open = <<>> THEN g.closed ELSE Append(g.closed, g.open)
    BY <1>1 DEF Chunks
  <2>2. g.closed \in Seq(Windows) /\ g.open \in Windows
    BY <1>5 DEF Keeps, Gathered
  <2> HIDE DEF g
  <2>3. g.closed \o <<>> = g.closed /\ g.closed \o <<g.open>> = Append(g.closed, g.open)
    BY <2>2
  <2>4. QED  BY <2>1, <2>3 DEF Ended
<1> HIDE DEF g
<1>7. Keeps(g, doc, n)
  BY <1>5 DEF g
<1>8. /\ Ended(g) \in Seq(Windows) /\ Covered(Ended(g)) = Paragraphs(doc, n)
      /\ Freshly(Ended(g), {}) /\ Short(Ended(g))
  BY <1>7, EndedIs
<1>9. QED  BY <1>6, <1>8 DEF n

\* A text is covered by its chunks: nothing is lost in cutting, no chunk is too long, and none
\* repeats what the ones before it have.
LEMMA NothingIsCutAway ==
  ASSUME EvidenceAssumption, NEW doc, Text(doc)
  PROVE  ChunksCover(doc)
<1> DEFINE ws == Chunks(doc)
<1>1. /\ ws \in Seq(Windows) /\ Covered(ws) = Paragraphs(doc, Len(doc))
      /\ Freshly(ws, {}) /\ Short(ws)
  BY ChunksAre
<1>2. UNION {{p} \X DOMAIN doc[p] : p \in DOMAIN doc} = Paragraphs(doc, Len(doc))
  <2>1. \A p \in 1 .. Len(doc) : {p} \X DOMAIN doc[p] = Paragraph(p, Len(doc[p]))
    BY DEF Text, Paragraph
  <2>2. DOMAIN doc = 1 .. Len(doc)
    BY DEF Text
  <2>3. QED  BY <2>1, <2>2 DEF Paragraphs
<1>3. ChunksCover(doc) <=>
        /\ UNION {CharsOf(ws[i]) : i \in DOMAIN ws} = UNION {{p} \X DOMAIN doc[p] : p \in DOMAIN doc}
        /\ \A i \in DOMAIN ws :
             /\ Length(ws[i]) <= MaxChars
             /\ ~(CharsOf(ws[i]) \subseteq UNION {CharsOf(ws[j]) : j \in 1 .. i - 1})
  BY DEF ChunksCover
<1> HIDE DEF ws
<1>4. \A i \in DOMAIN ws : /\ Length(ws[i]) <= MaxChars
                           /\ ~(CharsOf(ws[i]) \subseteq UNION {CharsOf(ws[j]) : j \in 1 .. i - 1})
  <2> SUFFICES ASSUME NEW i \in DOMAIN ws
               PROVE /\ Length(ws[i]) <= MaxChars
                     /\ ~(CharsOf(ws[i]) \subseteq UNION {CharsOf(ws[j]) : j \in 1 .. i - 1})
    OBVIOUS
  <2>1. PICK x \in CharsOf(ws[i]) : \A j \in 1 .. i - 1 : x \notin CharsOf(ws[j])
    BY <1>1 DEF Freshly
  <2>2. QED  BY <1>1, <2>1 DEF Short
<1>5. QED  BY <1>1, <1>2, <1>3, <1>4 DEF Covered

\* The words of a chunk are words of its text.
LEMMA WordsAre ==
  ASSUME NEW doc, Text(doc), NEW w \in Windows, CharsOf(w) \subseteq Paragraphs(doc, Len(doc))
  PROVE  WordsOf(doc, w) \in Seq(Words)
<1> DEFINE n == Len(w)
           read(k) == SubSeq(doc[w[k][1]], w[k][2], w[k][3])
<1>1. n \in Nat /\ DOMAIN w = 1 .. n /\ \A k \in 1 .. n : w[k] \in Int \X Int \X Int
  BY DEF Windows
<1>2. ASSUME NEW k \in 1 .. n PROVE read(k) \in Seq(Words)
  <2> DEFINE p == w[k][1]  a == w[k][2]  b == w[k][3]
  <2>1. p \in Int /\ a \in Int /\ b \in Int
    BY <1>1
  <2>2. CASE a > b
    <3>1. read(k) = <<>>
      <4> HIDE DEF p, a, b
      <4>1. SubSeq(doc[p], a, b) = <<>>
        BY <2>1, <2>2
      <4>2. QED  BY <4>1 DEF p, a, b
    <3>2. QED  BY <3>1
  <2>3. CASE a <= b
    <3>1. {<<p, x>> : x \in a .. b} \subseteq CharsOf(w)
      BY <1>1 DEF CharsOf
    <3>2. <<p, a>> \in Paragraphs(doc, Len(doc)) /\ <<p, b>> \in Paragraphs(doc, Len(doc))
      <4>1. a \in a .. b /\ b \in a .. b
        BY <2>1, <2>3
      <4>2. QED  BY <3>1, <4>1
    <3> HIDE DEF p, a, b
    <3>3. p \in 1 .. Len(doc) /\ a \in 1 .. Len(doc[p]) /\ b \in 1 .. Len(doc[p])
      BY <3>2 DEF Paragraphs, Paragraph
    <3>4. doc[p] \in Seq(Words)
      BY <3>3 DEF Text
    <3>5. SubSeq(doc[p], a, b) \in Seq(Words)
      BY <2>1, <3>3, <3>4, SubSeqProperties
    <3>6. QED  BY <3>5 DEF p, a, b
  <2>4. QED  BY <2>1, <2>2, <2>3
<1> DEFINE next == [q \in (0 .. n) \X Seq(Words) |-> IF q[1] = 0 THEN <<>> ELSE q[2] \o read(q[1])]
           E(h) == h = [k \in 0 .. n |-> IF k = 0 THEN <<>> ELSE h[k - 1] \o read(k)]
<1>3. <<>> \in Seq(Words)
  OBVIOUS
<1>9a. WordsOf(doc, w) = (CHOOSE h : E(h))[n]
  BY DEF WordsOf
<1> HIDE DEF n, read
<1>4. \A k \in 0 .. n, v \in Seq(Words) : k # 0 => v \o read(k) \in Seq(Words)
  <2> SUFFICES ASSUME NEW k \in 0 .. n, NEW v \in Seq(Words), k # 0 PROVE v \o read(k) \in Seq(Words)
    OBVIOUS
  <2>1. k \in 1 .. n
    BY <1>1
  <2>2. read(k) \in Seq(Words)
    BY <1>2, <2>1
  <2>3. QED  BY <2>2
<1>5. next \in [(0 .. n) \X Seq(Words) -> Seq(Words)]
  <2> SUFFICES ASSUME NEW i \in 0 .. n, NEW v \in Seq(Words)
               PROVE (IF i = 0 THEN <<>> ELSE v \o read(i)) \in Seq(Words)
    OBVIOUS
  <2>1. QED  BY <1>3, <1>4
<1>6. \A i \in 0 .. n, v \in Seq(Words) : i # 0 => next[<<i, v>>] = v \o read(i)
  OBVIOUS
<1> HIDE DEF next
<1>7. PICK g : Runs(g, 0, n, Seq(Words), <<>>, next)
  <2>1. 0 \in Int /\ n \in Int
    BY <1>1
  <2>2. QED  BY <1>3, <1>5, <2>1, RunExists
<1>8. E(g)
  <2>1. g = [i \in 0 .. n |-> IF i = 0 THEN <<>> ELSE next[<<i, g[i - 1]>>]]
    BY <1>7 DEF Runs
  <2>2. \A i \in 0 .. n : i # 0 => g[i - 1] \in Seq(Words)
    BY <1>1, <1>7 DEF Runs
  <2>3. \A i \in 0 .. n : i # 0 => next[<<i, g[i - 1]>>] = g[i - 1] \o read(i)
    BY <1>6, <2>2
  <2>4. [i \in 0 .. n |-> IF i = 0 THEN <<>> ELSE next[<<i, g[i - 1]>>]]
          = [i \in 0 .. n |-> IF i = 0 THEN <<>> ELSE g[i - 1] \o read(i)]
    BY <2>3
  <2>5. QED  BY <2>1, <2>4
<1> DEFINE h == CHOOSE h : E(h)
<1>9. E(h)
  BY <1>8
<1>10. WordsOf(doc, w) = h[n]
  BY <1>9a
<1> HIDE DEF h
<1> DEFINE G == {i \in 0 .. n : h[i] \in Seq(Words)}
<1>11. 0 <= n => 0 \in G
  BY <1>1, <1>3, <1>9
<1>12. ASSUME NEW i \in 0 .. n - 1, i \in G PROVE i + 1 \in G
  <2>1. i + 1 \in 0 .. n /\ i + 1 # 0 /\ (i + 1) - 1 = i
    BY <1>1
  <2>2. h[i + 1] = h[i] \o read(i + 1)
    BY <1>9, <2>1
  <2>3. h[i] \in Seq(Words)
    BY <1>12
  <2>4. QED  BY <1>4, <2>1, <2>2, <2>3
<1>13. n \in G
  <2>1. 0 \in Int /\ n \in Int /\ n \in 0 .. n
    BY <1>1
  <2> HIDE DEF G
  <2>2. 0 .. n \subseteq G
    BY <1>11, <1>12, <2>1, CountingFrom
  <2>3. QED  BY <2>1, <2>2
<1>14. QED  BY <1>10, <1>13

-----------------------------------------------------------------------------
(* Shares: scores between 0 and 1 *)

\* A fraction between 0 and another.
Within(x, top) == x \in Fractions /\ ~Less(x, Zero) /\ top \in Fractions /\ ~Less(top, x)

LEMMA WithinIs ==
  ASSUME NEW x, NEW top, NEW n \in Int, NEW m \in Int, NEW d \in Nat \ {0}, Equals(x, n, d), Equals(top, m, d)
  PROVE  Within(x, top) <=> 0 <= n /\ n <= m
<1>1. x \in Fractions /\ top \in Fractions
  BY EqualsType
<1>2. Equals(Zero, 0, d)
  BY ZeroEquals
<1>3. Less(x, Zero) <=> n < 0
  BY <1>2, LessIs
<1>4. Less(top, x) <=> m < n
  BY LessIs
<1>5. QED  BY <1>1, <1>3, <1>4 DEF Within

LEMMA WithinPlus ==
  ASSUME NEW x, NEW p, Within(x, p), NEW y, NEW r, Within(y, r)
  PROVE  Within(Plus(x, y), Plus(p, r))
<1>1. x \in Fractions /\ p \in Fractions /\ y \in Fractions /\ r \in Fractions
  BY DEF Within
<1> DEFINE D == 1 .. 4
           v == [i \in D |-> IF i = 1 THEN x ELSE IF i = 2 THEN p ELSE IF i = 3 THEN y ELSE r]
<1>2. IsFiniteSet(D)
  <2>1. 1 \in Int /\ 4 \in Int
    OBVIOUS
  <2>2. QED  BY <2>1, FS_Interval
<1>3. v \in [D -> Fractions] /\ v[1] = x /\ v[2] = p /\ v[3] = y /\ v[4] = r
      /\ 1 \in D /\ 2 \in D /\ 3 \in D /\ 4 \in D
  BY <1>1
<1> HIDE DEF D, v
<1>4. PICK c \in Nat \ {0} : \E k \in [D -> Int] : \A i \in D : Equals(v[i], k[i], c)
  BY <1>2, <1>3, CommonDenominator
<1>5. PICK k \in [D -> Int] : \A i \in D : Equals(v[i], k[i], c)
  BY <1>4
<1> DEFINE a == k[1]  b == k[2]  e == k[3]  f == k[4]
<1>6. /\ a \in Int /\ b \in Int /\ e \in Int /\ f \in Int
      /\ Equals(x, a, c) /\ Equals(p, b, c) /\ Equals(y, e, c) /\ Equals(r, f, c)
  BY <1>3, <1>5
<1> HIDE DEF a, b, e, f
<1>7. (Within(x, p) <=> 0 <= a /\ a <= b) /\ (Within(y, r) <=> 0 <= e /\ e <= f)
  BY <1>6, WithinIs
<1>8. Equals(Plus(x, y), a + e, c) /\ Equals(Plus(p, r), b + f, c)
  BY <1>6, PlusIs
<1>9. 0 <= a + e /\ a + e <= b + f /\ a + e \in Int /\ b + f \in Int
  BY <1>6, <1>7
<1>10. QED  BY <1>8, <1>9, WithinIs

LEMMA UnitIs ==
  ASSUME NEW x
  PROVE  UnitShare(x) <=> Within(x, Whole(1))
<1>1. Whole(1) \in Fractions
  <2>1. 1 \in Int
    OBVIOUS
  <2>2. QED  BY <2>1, WholeIs
<1>2. QED  BY <1>1 DEF UnitShare, Within

LEMMA UnitFrac ==
  ASSUME NEW n \in Nat, NEW d \in Nat \ {0}, n <= d
  PROVE  UnitShare(Frac(n, d))
<1>1. Equals(Frac(n, d), n, d)
  BY FracIs
<1>2. Equals(Whole(1), d, d)
  <2>1. 1 \in Int /\ d \in Int /\ 1 * d = d
    OBVIOUS
  <2>2. Equals(Whole(1), 1 * d, d)
    BY <2>1, WholeEquals
  <2>3. QED  BY <2>1, <2>2
<1>3. n \in Int /\ d \in Int /\ 0 <= n
  OBVIOUS
<1>4. Within(Frac(n, d), Whole(1))
  BY <1>1, <1>2, <1>3, WithinIs
<1>5. QED  BY <1>4, UnitIs

\* A share of a weight is no more than the weight.
LEMMA WithinTimes ==
  ASSUME NEW w, Amount(w), NEW x, UnitShare(x)
  PROVE  Within(Times(w, x), w)
<1>1. w \in Fractions /\ x \in Fractions
  BY DEF Amount, UnitShare
<1> DEFINE n == x.num  d == x.den  m == w.num  e == w.den
<1>2. Equals(x, n, d) /\ Equals(w, m, e)
  BY <1>1, Itself
<1>3. n \in Int /\ d \in Nat \ {0} /\ m \in Int /\ e \in Nat \ {0}
  BY <1>1 DEF Fractions
<1> HIDE DEF n, d, m, e
<1>4. m >= 0
  BY <1>2, <1>3, AmountIs
<1>5. 0 <= n /\ n <= d
  <2>1. Equals(Whole(1), d, d)
    <3>1. 1 \in Int /\ d \in Int /\ 1 * d = d
      BY <1>3
    <3>2. Equals(Whole(1), 1 * d, d)
      BY <3>1, WholeEquals
    <3>3. QED  BY <3>1, <3>2
  <2>2. Within(x, Whole(1)) /\ d \in Int
    BY <1>3, UnitIs
  <2>3. QED  BY <1>2, <1>3, <2>1, <2>2, WithinIs
<1> DEFINE k == m * n  l == m * d  c == e * d
<1>6. k \in Int /\ l \in Int /\ c \in Nat \ {0} /\ 0 <= k /\ k <= l
  <2>1. m * n >= 0 /\ m * (d - n) >= 0 /\ m * (d - n) = m * d - m * n
    BY <1>3, <1>4, <1>5
  <2>2. k \in Int /\ l \in Int /\ c \in Nat \ {0}
    BY <1>3
  <2> DEFINE z == m * (d - n)
  <2>3. z \in Int /\ z >= 0 /\ z = l - k /\ k >= 0
    BY <1>3, <2>1
  <2> HIDE DEF z, k, l, c
  <2>4. QED  BY <2>2, <2>3
<1>7. Equals(Times(w, x), k, c)
  BY <1>2, <1>3, TimesIs
<1>8. Equals(w, l, c)
  <2>1. l = m * d /\ c = e * d /\ l \in Int /\ c \in Int /\ d \in Int /\ e \in Int
    BY <1>3
  <2> HIDE DEF l, c
  <2>2. QED  BY <1>2, <1>3, <2>1, Rescaled
<1> HIDE DEF k, l, c
<1>9. QED  BY <1>6, <1>7, <1>8, WithinIs

LEMMA AmountFrac ==
  ASSUME NEW n \in Nat, NEW d \in Nat \ {0}
  PROVE  Amount(Frac(n, d))
<1>1. Equals(Frac(n, d), n, d)
  BY FracIs
<1>2. QED  BY <1>1, AmountIs

\* Two shares weighed with weights that add up to 1 make a share.
LEMMA TwoWeights ==
  ASSUME NEW n \in Nat, NEW m \in Nat, NEW d \in Nat \ {0}, n + m = d, NEW x, UnitShare(x), NEW y, UnitShare(y)
  PROVE  UnitShare(Plus(Times(Frac(n, d), x), Times(Frac(m, d), y)))
<1>1. Amount(Frac(n, d)) /\ Amount(Frac(m, d))
  BY AmountFrac
<1>2. Within(Times(Frac(n, d), x), Frac(n, d)) /\ Within(Times(Frac(m, d), y), Frac(m, d))
  BY <1>1, WithinTimes
<1>3. Within(Plus(Times(Frac(n, d), x), Times(Frac(m, d), y)), Plus(Frac(n, d), Frac(m, d)))
  BY <1>2, WithinPlus
<1>4. Plus(Frac(n, d), Frac(m, d)) = Whole(1)
  <2>1. Equals(Frac(n, d), n, d) /\ Equals(Frac(m, d), m, d)
    BY FracIs
  <2>2. Equals(Plus(Frac(n, d), Frac(m, d)), n + m, d)
    BY <2>1, PlusIs
  <2>3. 1 \in Int /\ d \in Int /\ 1 * d = n + m
    OBVIOUS
  <2>4. Equals(Whole(1), 1 * d, d)
    BY <2>3, WholeEquals
  <2>5. QED  BY <2>2, <2>3, <2>4, SameValue
<1>5. QED  BY <1>3, <1>4, UnitIs

\* A sum of an amount and of something positive is positive, and so is a positive share of it.
LEMMA PositivePlus ==
  ASSUME NEW x, Amount(x), NEW y \in Fractions, Less(Zero, y)
  PROVE  Less(Zero, Plus(x, y))
<1>1. x \in Fractions
  BY DEF Amount
<1>2. PICK n \in Int, m \in Int : \E d \in Nat \ {0} : Equals(x, n, d) /\ Equals(y, m, d)
  BY <1>1, InCommon
<1>3. PICK d \in Nat \ {0} : Equals(x, n, d) /\ Equals(y, m, d)
  BY <1>2
<1>4. n >= 0
  BY <1>3, AmountIs
<1>5. Equals(Zero, 0, d) /\ 0 \in Int
  BY ZeroEquals
<1>6. 0 < m
  BY <1>3, <1>5, LessIs
<1>7. Equals(Plus(x, y), n + m, d)
  BY <1>3, PlusIs
<1>8. n + m \in Int /\ 0 < n + m
  BY <1>4, <1>6
<1>9. QED  BY <1>5, <1>7, <1>8, LessIs

LEMMA PositiveTimes ==
  ASSUME NEW n \in Nat \ {0}, NEW d \in Nat \ {0}, NEW y \in Fractions, Less(Zero, y)
  PROVE  Less(Zero, Times(Frac(n, d), y))
<1> DEFINE m == y.num  e == y.den
<1>1. Equals(y, m, e) /\ m \in Int /\ e \in Nat \ {0}
  BY Itself DEF Fractions
<1> HIDE DEF m, e
<1>2. Equals(Zero, 0, e) /\ 0 \in Int
  BY <1>1, ZeroEquals
<1>3. 0 < m
  BY <1>1, <1>2, LessIs
<1>4. Equals(Frac(n, d), n, d)
  BY FracIs
<1> DEFINE k == n * m  c == d * e
<1>5. Equals(Times(Frac(n, d), y), k, c)
  BY <1>1, <1>4, TimesIs
<1>6. k \in Int /\ 0 < k /\ c \in Nat \ {0} /\ c \in Int
  BY <1>1, <1>3
<1> HIDE DEF k, c
<1>7. Equals(Zero, 0, c)
  BY <1>6, ZeroEquals
<1>8. QED  BY <1>2, <1>5, <1>6, <1>7, LessIs

\* Cutting a share to 0 .. 1 leaves it as it is.
LEMMA ClippedIs ==
  ASSUME NEW x, UnitShare(x)
  PROVE  Clipped(x) = x
BY DEF Clipped, UnitShare

\* The share of a part.
LEMMA ShareIsUnit ==
  ASSUME NEW all, IsFiniteSet(all), NEW part \in SUBSET all
  PROVE  UnitShare(Share(part, all))
<1>1. CASE all = {}
  <2>1. 0 \in Nat /\ 1 \in Nat \ {0} /\ 0 <= 1
    OBVIOUS
  <2>2. UnitShare(Frac(0, 1))
    BY <2>1, UnitFrac
  <2>3. Frac(0, 1) = Zero
    BY DEF Frac, Zero, Whole
  <2>4. Share(part, all) = Zero
    BY <1>1 DEF Share
  <2>5. QED  BY <2>2, <2>3, <2>4
<1>2. CASE all # {}
  <2> DEFINE n == Cardinality(part)  d == Cardinality(all)
  <2>1. n \in Nat /\ d \in Nat \ {0} /\ n <= d
    BY <1>2, FS_Subset, FS_CardinalityType, FS_EmptySet
  <2>2. Share(part, all) = Frac(n, d)
    BY <1>2 DEF Share
  <2> HIDE DEF n, d
  <2>3. QED  BY <2>1, <2>2, UnitFrac
<1>3. QED  BY <1>1, <1>2

-----------------------------------------------------------------------------
(* The cosine of two lists of words is a share *)

LEMMA SquareOrder ==
  ASSUME NEW a \in Nat, NEW b \in Nat, a * a <= b * b
  PROVE  a <= b
<1> SUFFICES ASSUME b < a PROVE FALSE
  OBVIOUS
<1> DEFINE d == a - b
<1>1. d \in Nat /\ d > 0 /\ a = b + d
  OBVIOUS
<1> HIDE DEF d
<1>2. a * a = b * b + 2 * (b * d) + d * d
  BY <1>1
<1>3. b * d >= 0 /\ d * d > 0
  BY <1>1
<1> DEFINE aa == a * a  bb == b * b  bd == b * d  dd == d * d
<1>4. aa \in Int /\ bb \in Int /\ bd \in Int /\ dd \in Int /\ aa <= bb
      /\ aa = bb + 2 * bd + dd /\ bd >= 0 /\ dd > 0
  BY <1>1, <1>2, <1>3
<1> HIDE DEF aa, bb, bd, dd
<1>5. QED  BY <1>4

LEMMA Products ==
  ASSUME NEW a \in Nat, NEW b \in Nat, NEW c \in Nat, NEW d \in Nat, a <= b, c <= d
  PROVE  a * c <= b * d
<1>1. (b - a) * c >= 0 /\ b * (d - c) >= 0
  OBVIOUS
<1>2. (b - a) * c = b * c - a * c /\ b * (d - c) = b * d - b * c
  OBVIOUS
<1> DEFINE ac == a * c  bc == b * c  bd == b * d
<1>3. ac \in Int /\ bc \in Int /\ bd \in Int /\ bc - ac >= 0 /\ bd - bc >= 0
  BY <1>1, <1>2
<1> HIDE DEF ac, bc, bd
<1>4. ac <= bd
  BY <1>3
<1>5. QED  BY <1>4 DEF ac, bd

\* One more product: (s + u v)^2 <= (a + u^2) (b + v^2) when s^2 <= a b.
LEMMA OneMoreProduct ==
  ASSUME NEW s \in Nat, NEW a \in Nat, NEW b \in Nat, s * s <= a * b, NEW u \in Nat, NEW v \in Nat
  PROVE  (u * v + s) * (u * v + s) <= (u * u + a) * (v * v + b)
<1> DEFINE p == u * v       \* the new product
           x == (u * u) * b
           y == (v * v) * a
           z == p * s
<1>1. p \in Nat /\ x \in Nat /\ y \in Nat /\ z \in Nat
  OBVIOUS
<1>2. z * z = (p * p) * (s * s)
  <2> HIDE DEF p
  <2>1. (p * s) * (p * s) = (p * p) * (s * s)
    BY <1>1
  <2>2. QED  BY <2>1
<1>3. (p * p) * (s * s) <= (p * p) * (a * b)
  <2> DEFINE pp == p * p  ss == s * s  ab == a * b
  <2>1. pp \in Nat /\ ss \in Nat /\ ab \in Nat /\ ss <= ab /\ pp <= pp
    BY <1>1
  <2> HIDE DEF pp, ss, ab
  <2>2. pp * ss <= pp * ab
    BY <2>1, Products
  <2>3. QED  BY <2>2 DEF pp, ss, ab
<1>4. (p * p) * (a * b) = x * y
  <2> DEFINE uu == u * u  vv == v * v
  <2>1. uu \in Nat /\ vv \in Nat
    OBVIOUS
  <2>2. p * p = uu * vv
    OBVIOUS
  <2> HIDE DEF uu, vv, p
  <2>3. (uu * vv) * (a * b) = (uu * b) * (vv * a)
    BY <2>1
  <2>4. QED  BY <2>2, <2>3 DEF uu, vv
<1>5. (2 * z) * (2 * z) <= (x + y) * (x + y)
  <2> HIDE DEF x, y, z, p
  <2> DEFINE zz == z * z  xy == x * y
  <2>1. zz <= xy /\ zz \in Int /\ xy \in Int
    <3> DEFINE k == (p * p) * (s * s)  l == (p * p) * (a * b)
    <3>1. zz = k /\ k <= l /\ l = xy
      BY <1>2, <1>3, <1>4
    <3>2. zz \in Int /\ xy \in Int
      BY <1>1
    <3> HIDE DEF k, l, zz, xy
    <3>3. QED  BY <3>1, <3>2
  <2>2. (x - y) * (x - y) >= 0
    <3> DEFINE m == x - y
    <3>1. m \in Int
      BY <1>1
    <3> HIDE DEF m
    <3>2. m * m >= 0
      BY <3>1
    <3>3. QED  BY <3>2 DEF m
  <2>3. (x + y) * (x + y) = (x - y) * (x - y) + 4 * xy
    BY <1>1
  <2>4. (2 * z) * (2 * z) = 4 * zz
    BY <1>1
  <2> DEFINE d == (x - y) * (x - y)  t == (x + y) * (x + y)  q == (2 * z) * (2 * z)
  <2>5. d \in Int /\ t \in Int /\ q \in Int
    BY <1>1
  <2>6. d >= 0 /\ t = d + 4 * xy /\ q = 4 * zz
    BY <2>2, <2>3, <2>4
  <2> HIDE DEF d, t, q, xy, zz
  <2>7. q <= t
    BY <2>1, <2>5, <2>6
  <2>8. QED  BY <2>7 DEF q, t
<1>6. 2 * z <= x + y
  <2> DEFINE m == 2 * z  n == x + y
  <2>1. m \in Nat /\ n \in Nat /\ m * m <= n * n
    BY <1>1, <1>5
  <2> HIDE DEF m, n
  <2>2. m <= n
    BY <2>1, SquareOrder
  <2>3. QED  BY <2>2 DEF m, n
<1>7. (p + s) * (p + s) = p * p + 2 * z + s * s
  <2> HIDE DEF p
  <2>1. QED  BY <1>1
<1>8. (u * u + a) * (v * v + b) = p * p + x + y + a * b
  <2> DEFINE uu == u * u  vv == v * v
  <2>1. uu \in Nat /\ vv \in Nat /\ p * p = uu * vv
    OBVIOUS
  <2> HIDE DEF uu, vv, p
  <2>2. (uu + a) * (vv + b) = uu * vv + uu * b + vv * a + a * b
    BY <2>1
  <2>3. QED  BY <2>1, <2>2 DEF uu, vv
<1> DEFINE l == (p + s) * (p + s)  r == (u * u + a) * (v * v + b)
           pp == p * p  ss == s * s  ab == a * b
<1>9. pp \in Int /\ ss \in Int /\ ab \in Int /\ ss <= ab
  BY <1>1
<1>10. l = pp + 2 * z + ss /\ r = pp + x + y + ab
  BY <1>7, <1>8
<1> HIDE DEF l, r, pp, ss, ab, x, y, z
<1>11. l <= r
  BY <1>1, <1>6, <1>9, <1>10
<1>12. QED  BY <1>11 DEF l, r, p

\* The product of the counts of two lists, word by word.
Products2(f, g) == [x \in DOMAIN f |-> f[x] * g[x]]

LEMMA CauchySchwarz ==
  ASSUME NEW D, IsFiniteSet(D), NEW f \in [D -> Nat], NEW g \in [D -> Nat]
  PROVE  /\ SumFunction(Products2(f, g)) \in Nat
         /\ SumFunction(Products2(f, f)) \in Nat /\ SumFunction(Products2(g, g)) \in Nat
         /\ SumFunction(Products2(f, g)) * SumFunction(Products2(f, g))
              <= SumFunction(Products2(f, f)) * SumFunction(Products2(g, g))
<1> DEFINE fg == Products2(f, g)
           ff == Products2(f, f)
           gg == Products2(g, g)
<1>1. fg \in [D -> Int] /\ ff \in [D -> Int] /\ gg \in [D -> Int]
  BY DEF Products2
<1>2. \A x \in D : fg[x] = f[x] * g[x] /\ ff[x] = f[x] * f[x] /\ gg[x] = g[x] * g[x]
  BY DEF Products2
<1> HIDE DEF fg, ff, gg
<1>3. PICK hs : Adds(fg, D, hs) /\ hs[D] = SumFunction(fg)
  BY <1>1, SumHas
<1>4. PICK ha : Adds(ff, D, ha) /\ ha[D] = SumFunction(ff)
  BY <1>1, SumHas
<1>5. PICK hb : Adds(gg, D, hb) /\ hb[D] = SumFunction(gg)
  BY <1>1, SumHas
<1> DEFINE G == {s \in SUBSET D : /\ hs[s] \in Nat /\ ha[s] \in Nat /\ hb[s] \in Nat
                                  /\ hs[s] * hs[s] <= ha[s] * hb[s]}
<1>6. {} \in G
  <2>1. hs[{}] = 0 /\ ha[{}] = 0 /\ hb[{}] = 0
    BY <1>3, <1>4, <1>5 DEF Adds
  <2>2. QED  BY <2>1
<1>7. ASSUME NEW s \in SUBSET D, s # {} /\ (\A x \in s : s \ {x} \in G) PROVE s \in G
  <2>1. PICK x \in s : s \ {x} \in G
    BY <1>7
  <2> DEFINE t == s \ {x}  u == f[x]  v == g[x]
             c == hs[t]  a == ha[t]  b == hb[t]
  <2>2. u \in Nat /\ v \in Nat /\ c \in Nat /\ a \in Nat /\ b \in Nat /\ c * c <= a * b
    BY <2>1
  <2>3. hs[s] = u * v + c /\ ha[s] = u * u + a /\ hb[s] = v * v + b
    BY <1>2, <1>3, <1>4, <1>5, <2>1 DEF Adds
  <2> HIDE DEF t, u, v, a, b, c
  <2>4. (u * v + c) * (u * v + c) <= (u * u + a) * (v * v + b)
    BY <2>2, OneMoreProduct
  <2>5. u * v + c \in Nat /\ u * u + a \in Nat /\ v * v + b \in Nat
    BY <2>2
  <2>6. QED  BY <2>3, <2>4, <2>5
<1>8. D \in G
  <2> HIDE DEF G
  <2>1. SUBSET D \subseteq G
    BY <1>6, <1>7, Growing
  <2>2. QED  BY <2>1
<1>9. QED  BY <1>3, <1>4, <1>5, <1>8 DEF fg, ff, gg

\* How often each word is there.
Counts(words) == [w \in Words |-> Count(words, w)]

LEMMA CountsAre ==
  ASSUME EvidenceAssumption, NEW words \in Seq(Words)
  PROVE  /\ Counts(words) \in [Words -> Nat]
         /\ words # <<>> => SumFunction(Products2(Counts(words), Counts(words))) > 0
<1> DEFINE f == Counts(words)
           sq == Products2(f, f)
<1>1. IsFiniteSet(Words) /\ Len(words) \in Nat /\ DOMAIN words = 1 .. Len(words)
  BY EvidenceAssumption
<1>2. IsFiniteSet(DOMAIN words)
  <2> DEFINE n == Len(words)
  <2>1. n \in Int /\ 1 \in Int
    BY <1>1
  <2> HIDE DEF n
  <2>2. IsFiniteSet(1 .. n)
    BY <2>1, FS_Interval
  <2>3. QED  BY <1>1, <2>2 DEF n
<1>3. \A w \in Words : Count(words, w) \in Nat
  <2> SUFFICES ASSUME NEW w \in Words PROVE Count(words, w) \in Nat
    OBVIOUS
  <2> DEFINE at == {i \in DOMAIN words : words[i] = w}
  <2>1. IsFiniteSet(at)
    <3>1. at \subseteq DOMAIN words
      OBVIOUS
    <3> HIDE DEF at
    <3>2. QED  BY <1>2, <3>1, FS_Subset
  <2> HIDE DEF at
  <2>2. Cardinality(at) \in Nat
    BY <2>1, FS_CardinalityType
  <2>3. QED  BY <2>2 DEF at, Count
<1>4. f \in [Words -> Nat] /\ \A w \in Words : f[w] = Count(words, w)
  BY <1>3 DEF Counts
<1>5. ASSUME words # <<>> PROVE SumFunction(sq) > 0
  <2> DEFINE w == words[1]
             at == {i \in DOMAIN words : words[i] = w}
  <2>1. 1 \in DOMAIN words /\ w \in Words
    BY <1>1, <1>5
  <2>2. f[w] > 0
    <3>1. IsFiniteSet(at) /\ at # {}
      <4>1. at \subseteq DOMAIN words /\ 1 \in at
        BY <2>1
      <4> HIDE DEF at
      <4>2. QED  BY <1>2, <4>1, FS_Subset
    <3>2. f[w] = Cardinality(at)
      BY <1>4, <2>1 DEF Count
    <3> HIDE DEF at, w
    <3>3. Cardinality(at) \in Nat /\ Cardinality(at) # 0
      BY <3>1, FS_CardinalityType, FS_EmptySet
    <3>4. QED  BY <3>2, <3>3
  <2> HIDE DEF w, f
  <2>3. sq \in [Words -> Int] /\ \A v \in Words : sq[v] = f[v] * f[v]
    BY <1>4 DEF Products2
  <2>4. /\ SumFunction(sq) = sq[w] + SumFunction(Restrict(sq, Words \ {w}))
        /\ Restrict(sq, Words \ {w}) \in [Words \ {w} -> Int]
    <3> HIDE DEF sq
    <3>1. QED  BY <1>1, <2>1, <2>3, SumSplits
  <2> DEFINE rest == Restrict(sq, Words \ {w})
  <2>5. IsFiniteSet(Words \ {w})
    BY <1>1, FS_Subset
  <2>6. \A v \in Words \ {w} : rest[v] >= 0
    <3> SUFFICES ASSUME NEW v \in Words \ {w} PROVE rest[v] >= 0
      OBVIOUS
    <3>1. rest[v] = f[v] * f[v] /\ f[v] \in Nat
      BY <1>4, <2>3 DEF Restrict
    <3>2. f[v] * f[v] >= 0
      BY <3>1
    <3> HIDE DEF rest
    <3>3. QED  BY <3>1, <3>2
  <2>7. rest \in [Words \ {w} -> Int]
    BY <2>4
  <2> HIDE DEF rest
  <2>8. SumFunction(rest) \in Nat
    BY <2>5, <2>6, <2>7, SumNat
  <2>9. sq[w] = f[w] * f[w] /\ f[w] \in Nat
    BY <1>4, <2>1, <2>3
  <2>10. f[w] * f[w] > 0
    BY <2>2, <2>9
  <2> DEFINE k == f[w] * f[w]
  <2>11. k \in Int
    BY <2>9
  <2>12. SumFunction(sq) = k + SumFunction(rest)
    BY <2>4, <2>9 DEF rest
  <2> HIDE DEF k, sq
  <2>13. k > 0
    BY <2>10 DEF k
  <2>14. QED  BY <2>8, <2>11, <2>12, <2>13
<1>6. QED  BY <1>4, <1>5

LEMMA CosineIsUnit ==
  ASSUME EvidenceAssumption, NEW a \in Seq(Words), NEW b \in Seq(Words)
  PROVE  UnitShare(Cosine2(a, b))
<1>1. \A x, y \in Seq(Words) : Dot(x, y) = SumFunction(Products2(Counts(x), Counts(y)))
  <2> SUFFICES ASSUME NEW x \in Seq(Words), NEW y \in Seq(Words)
               PROVE  Dot(x, y) = SumFunction(Products2(Counts(x), Counts(y)))
    OBVIOUS
  <2>1. [w \in Words |-> Count(x, w) * Count(y, w)] = Products2(Counts(x), Counts(y))
    BY DEF Products2, Counts
  <2>2. QED  BY <2>1 DEF Dot
<1>2. CASE a = <<>> \/ b = <<>>
  <2>1. 0 \in Nat /\ 1 \in Nat \ {0} /\ 0 <= 1
    OBVIOUS
  <2>2. UnitShare(Frac(0, 1))
    BY <2>1, UnitFrac
  <2>3. Frac(0, 1) = Zero
    BY DEF Frac, Zero, Whole
  <2>4. Cosine2(a, b) = Zero
    BY <1>2 DEF Cosine2
  <2>5. QED  BY <2>2, <2>3, <2>4
<1>3. CASE ~(a = <<>> \/ b = <<>>)
  <2> DEFINE f == Counts(a)  g == Counts(b)
             c == Dot(a, b)  d == Dot(a, a)  e == Dot(b, b)
  <2>1. f \in [Words -> Nat] /\ g \in [Words -> Nat] /\ d > 0 /\ e > 0
    BY <1>1, <1>3, CountsAre
  <2>2. IsFiniteSet(Words)
    BY EvidenceAssumption
  <2>3. c = SumFunction(Products2(f, g)) /\ d = SumFunction(Products2(f, f)) /\ e = SumFunction(Products2(g, g))
    BY <1>1
  <2> HIDE DEF f, g, c, d, e
  <2>4. c \in Nat /\ d \in Nat /\ e \in Nat /\ c * c <= d * e
    BY <2>1, <2>2, <2>3, CauchySchwarz
  <2> DEFINE n == c * c  m == d * e
  <2>5. n \in Nat /\ m \in Nat \ {0} /\ n <= m
    BY <2>1, <2>4
  <2>6. Cosine2(a, b) = Frac(n, m)
    BY <1>3 DEF Cosine2, c, d, e
  <2> HIDE DEF n, m
  <2>7. QED  BY <2>5, <2>6, UnitFrac
<1>4. QED  BY <1>2, <1>3

-----------------------------------------------------------------------------
(* The first n by an order *)

\* R puts the elements of D in a row.
InARow(D, R) ==
  /\ \A x \in D, y \in D : x = y \/ <<x, y>> \in R \/ <<y, x>> \in R
  /\ \A x \in D : <<x, x>> \notin R
  /\ \A x \in D, y \in D, z \in D : <<x, y>> \in R /\ <<y, z>> \in R => <<x, z>> \in R

FirstOf(D, R, n) == {x \in D : Cardinality({y \in D : <<y, x>> \in R}) < n}

\* There are n of them, or all when there are no more, and each is before any of the others.
LEMMA FirstAre ==
  ASSUME NEW D, IsFiniteSet(D), NEW R, InARow(D, R), NEW n \in Nat
  PROVE  /\ Cardinality(FirstOf(D, R, n)) = IF n < Cardinality(D) THEN n ELSE Cardinality(D)
         /\ \A x \in FirstOf(D, R, n), y \in D \ FirstOf(D, R, n) : <<x, y>> \in R
<1> DEFINE Ahead0(x) == {y \in D : <<y, x>> \in R}
           place == [x \in D |-> Cardinality(Ahead0(x))]
           B == FirstOf(D, R, n)
           N == Cardinality(D)
           m == IF n < N THEN n ELSE N
<1>1. \A x \in D : IsFiniteSet(Ahead0(x)) /\ Cardinality(Ahead0(x)) \in Nat
  <2> SUFFICES ASSUME NEW x \in D PROVE IsFiniteSet(Ahead0(x)) /\ Cardinality(Ahead0(x)) \in Nat
    OBVIOUS
  <2>1. Ahead0(x) \subseteq D
    OBVIOUS
  <2> HIDE DEF Ahead0
  <2>2. QED  BY <2>1, FS_Subset, FS_CardinalityType
<1>2. \A x, y \in D : <<y, x>> \in R => Cardinality(Ahead0(y)) < Cardinality(Ahead0(x))
  <2> SUFFICES ASSUME NEW x \in D, NEW y \in D, <<y, x>> \in R
               PROVE  Cardinality(Ahead0(y)) < Cardinality(Ahead0(x))
    OBVIOUS
  <2>1. Ahead0(y) \subseteq Ahead0(x) /\ y \in Ahead0(x) /\ y \notin Ahead0(y)
    BY DEF InARow
  <2>2. IsFiniteSet(Ahead0(x)) /\ IsFiniteSet(Ahead0(y))
    BY <1>1
  <2> DEFINE s == Ahead0(y)  t == Ahead0(x)
  <2> HIDE DEF Ahead0, s, t
  <2>3. s \subseteq t /\ s # t /\ IsFiniteSet(t)
    BY <2>1, <2>2 DEF s, t
  <2>4. Cardinality(s) < Cardinality(t)
    BY <2>3, FS_Subset, FS_CardinalityType
  <2>5. QED  BY <2>4 DEF s, t
<1>3. place \in [D -> Int] /\ \A x \in D : place[x] = Cardinality(Ahead0(x))
  BY <1>1
<1>4. \A x, y \in D : <<y, x>> \in R <=> place[y] < place[x]
  <2> SUFFICES ASSUME NEW x \in D, NEW y \in D PROVE <<y, x>> \in R <=> place[y] < place[x]
    OBVIOUS
  <2>1. place[x] \in Int /\ place[y] \in Int
    BY <1>3
  <2>2. <<y, x>> \in R => place[y] < place[x]
    BY <1>2, <1>3
  <2>3. <<x, y>> \in R => place[x] < place[y]
    BY <1>2, <1>3
  <2>4. x = y \/ <<x, y>> \in R \/ <<y, x>> \in R
    BY DEF InARow
  <2> HIDE DEF place
  <2>5. QED  BY <2>1, <2>2, <2>3, <2>4
<1>5. \A x, y \in D : place[x] = place[y] => x = y
  <2> SUFFICES ASSUME NEW x \in D, NEW y \in D, place[x] = place[y] PROVE x = y
    OBVIOUS
  <2>1. place[x] \in Int
    BY <1>3
  <2>2. <<x, y>> \notin R /\ <<y, x>> \notin R
    BY <1>4, <2>1
  <2>3. QED  BY <2>2 DEF InARow
<1>6. B = {x \in D : place[x] < n}
  BY <1>3 DEF FirstOf
<1>7. \A k \in 1 .. N : \E x \in D : place[x] = k - 1
  <2> SUFFICES ASSUME NEW k \in 1 .. N PROVE \E x \in D : place[x] = k - 1
    OBVIOUS
  <2> HIDE DEF place
  <2>0. \A j \in 1 .. Cardinality(D) : \E x \in D : Cardinality({y \in D : place[y] < place[x]}) = j - 1
    BY <1>3, <1>5, RankIsTaken
  <2>1. PICK x \in D : Cardinality({y \in D : place[y] < place[x]}) = k - 1
    BY <2>0
  <2>2. {y \in D : place[y] < place[x]} = Ahead0(x)
    BY <1>4
  <2>3. place[x] = k - 1
    BY <1>3, <2>1, <2>2
  <2>4. QED  BY <2>3
<1>8. N \in Nat /\ m \in Nat /\ m <= N /\ m <= n /\ (n < N => m = n) /\ (n >= N => m = N)
  BY FS_CardinalityType
<1>9. \A x \in D : place[x] \in Nat /\ place[x] < N
  <2> SUFFICES ASSUME NEW x \in D PROVE place[x] \in Nat /\ place[x] < N
    OBVIOUS
  <2> DEFINE s == Ahead0(x)
  <2>1. s \subseteq D /\ x \notin s
    BY DEF InARow
  <2>2. place[x] = Cardinality(s) /\ Cardinality(s) \in Nat
    BY <1>1, <1>3
  <2> HIDE DEF s, place
  <2>3. s # D
    BY <2>1
  <2>4. Cardinality(s) < N
    BY <1>8, <2>1, <2>3, FS_Subset, FS_CardinalityType
  <2>5. QED  BY <2>2, <2>4
<1> HIDE DEF place, Ahead0, B, N, m
<1>10. Cardinality(B) = m
  <2> DEFINE f == [x \in B |-> place[x] + 1]
  <2>1. B \subseteq D
    BY <1>6
  <2>2. \A x \in B : place[x] + 1 \in 1 .. m
    <3> SUFFICES ASSUME NEW x \in B PROVE place[x] + 1 \in 1 .. m
      OBVIOUS
    <3>1. place[x] \in Nat /\ place[x] < N /\ place[x] < n
      BY <1>6, <1>9
    <3>2. QED  BY <1>8, <3>1
  <2>3. \A k \in 1 .. m : \E x \in B : place[x] + 1 = k
    <3> SUFFICES ASSUME NEW k \in 1 .. m PROVE \E x \in B : place[x] + 1 = k
      OBVIOUS
    <3>1. k \in 1 .. N /\ k <= n
      BY <1>8
    <3>2. PICK x \in D : place[x] = k - 1
      BY <1>7, <3>1
    <3>3. x \in B /\ place[x] + 1 = k
      BY <1>6, <3>1, <3>2
    <3>4. QED  BY <3>3
  <2>4. f \in Bijection(B, 1 .. m)
    <3>1. \A x, y \in B : f[x] = f[y] => x = y
      <4> SUFFICES ASSUME NEW x \in B, NEW y \in B, place[x] + 1 = place[y] + 1 PROVE x = y
        OBVIOUS
      <4>1. place[x] \in Nat /\ place[y] \in Nat
        BY <1>9, <2>1
      <4>2. place[x] = place[y]
        BY <4>1
      <4>3. QED  BY <1>5, <2>1, <4>2
    <3>2. f \in [B -> 1 .. m]
      BY <2>2
    <3>3. \A k \in 1 .. m : \E x \in B : f[x] = k
      BY <2>3
    <3> HIDE DEF f
    <3>4. f \in Injection(B, 1 .. m)
      BY <3>1, <3>2 DEF Injection, IsInjective
    <3>5. f \in Surjection(B, 1 .. m)
      BY <3>2, <3>3 DEF Surjection
    <3>6. QED  BY <3>4, <3>5 DEF Bijection
  <2>5. IsFiniteSet(1 .. m) /\ Cardinality(1 .. m) = m
    <3>1. 1 \in Int /\ m \in Int
      BY <1>8
    <3>2. /\ IsFiniteSet(1 .. m)
          /\ Cardinality(1 .. m) = IF 1 > m THEN 0 ELSE m - 1 + 1
      BY <3>1, FS_Interval
    <3>3. QED  BY <1>8, <3>2
  <2>6. ExistsBijection(B, 1 .. m)
    BY <2>4 DEF ExistsBijection
  <2>7. IsFiniteSet(B)
    BY <2>1, FS_Subset
  <2> HIDE DEF f
  <2>8. Cardinality(B) = Cardinality(1 .. m)
    BY <2>5, <2>6, <2>7, FS_Bijection
  <2>9. QED  BY <2>5, <2>8
<1>11. ASSUME NEW x \in B, NEW y \in D \ B PROVE <<x, y>> \in R
  <2>1. x \in D /\ place[x] < n /\ ~(place[y] < n) /\ place[x] \in Nat /\ place[y] \in Nat
    BY <1>6, <1>9
  <2>2. place[x] < place[y]
    BY <2>1
  <2>3. QED  BY <1>4, <2>1, <2>2
<1>12. QED  BY <1>10, <1>11 DEF B, m, N

-----------------------------------------------------------------------------
(* The scores of a chunk *)

LEMMA VocabularyIs ==
  ASSUME NEW words \in Seq(Words)
  PROVE  IsFiniteSet(Vocabulary(words)) /\ IsFiniteSet(Bigrams(words))
<1> DEFINE n == Len(words)
<1>1. n \in Nat /\ DOMAIN words = 1 .. n
  OBVIOUS
<1>2. IsFiniteSet(DOMAIN words)
  <2> HIDE DEF n
  <2>1. n \in Int /\ 1 \in Int
    BY <1>1
  <2>2. IsFiniteSet(1 .. n)
    BY <2>1, FS_Interval
  <2>3. QED  BY <1>1, <2>2
<1>3. IsFiniteSet({words[i] : i \in DOMAIN words})
  BY <1>2, ImageIsFinite
<1>4. IsFiniteSet(Bigrams(words))
  <2> DEFINE m == n - 1
             I == 1 .. m
             f == [i \in I |-> SubSeq(words, i, i + 1)]
  <2>1. IsFiniteSet(I)
    <3>1. m \in Int /\ 1 \in Int
      BY <1>1
    <3> HIDE DEF m
    <3>2. IsFiniteSet(1 .. m)
      BY <3>1, FS_Interval
    <3>3. QED  BY <3>2
  <2>2. Bigrams(words) = {f[i] : i \in I}
    BY DEF Bigrams
  <2>3. DOMAIN f = I
    OBVIOUS
  <2> HIDE DEF I, f
  <2>4. IsFiniteSet({f[i] : i \in I})
    BY <2>1, <2>3, ImageIsFinite
  <2>5. QED  BY <2>2, <2>4
<1>5. QED  BY <1>3, <1>4 DEF Vocabulary

LEMMA KeywordIsUnit ==
  ASSUME NEW query \in Seq(Words), NEW words
  PROVE  UnitShare(KeywordScore(query, words))
<1> DEFINE all == Vocabulary(query)  part == Vocabulary(query) \cap Vocabulary(words)
<1>1. IsFiniteSet(all) /\ part \in SUBSET all
  BY VocabularyIs
<1>2. KeywordScore(query, words) = Share(part, all)
  BY DEF KeywordScore
<1> HIDE DEF all, part
<1>3. QED  BY <1>1, <1>2, ShareIsUnit

LEMMA HalvesMake ==
  ASSUME NEW x, UnitShare(x), NEW y, UnitShare(y)
  PROVE  UnitShare(Times(Frac(1, 2), Plus(x, y)))
<1>1. x \in Fractions /\ y \in Fractions /\ Within(x, Whole(1)) /\ Within(y, Whole(1))
  BY UnitIs DEF UnitShare
<1>2. PICK n \in Int, m \in Int : \E d \in Nat \ {0} : Equals(x, n, d) /\ Equals(y, m, d)
  BY <1>1, InCommon
<1>3. PICK d \in Nat \ {0} : Equals(x, n, d) /\ Equals(y, m, d)
  BY <1>2
<1>4. 1 \in Int /\ d \in Int /\ 1 * d = d
  OBVIOUS
<1>5. Equals(Whole(1), d, d)
  <2>1. Equals(Whole(1), 1 * d, d)
    BY <1>4, WholeEquals
  <2>2. QED  BY <1>4, <2>1
<1>6. 0 <= n /\ n <= d /\ 0 <= m /\ m <= d
  BY <1>1, <1>3, <1>4, <1>5, WithinIs
<1>7. Equals(Plus(x, y), n + m, d)
  BY <1>3, PlusIs
<1>8. Equals(Frac(1, 2), 1, 2)
  <2>1. 1 \in Int /\ 2 \in Int /\ 2 # 0
    OBVIOUS
  <2>2. QED  BY <2>1, FracIs
<1> DEFINE k == n + m  e == 2 * d  l == 1 * k
<1>9. k \in Int /\ 2 \in Nat \ {0} /\ e \in Nat \ {0} /\ e \in Int /\ l \in Int /\ 0 <= l /\ l <= e
  BY <1>6
<1>10. Equals(Times(Frac(1, 2), Plus(x, y)), l, e)
  BY <1>4, <1>7, <1>8, <1>9, TimesIs
<1> HIDE DEF k, e, l
<1>11. Equals(Whole(1), e, e)
  <2>1. 1 * e = e
    BY <1>9
  <2>2. Equals(Whole(1), 1 * e, e)
    BY <1>4, <1>9, WholeEquals
  <2>3. QED  BY <2>1, <2>2
<1>12. Within(Times(Frac(1, 2), Plus(x, y)), Whole(1))
  BY <1>9, <1>10, <1>11, WithinIs
<1>13. QED  BY <1>12, UnitIs

LEMMA ZeroIsUnit == UnitShare(Zero)
<1>1. 0 \in Nat /\ 1 \in Nat \ {0} /\ 0 <= 1
  OBVIOUS
<1>2. UnitShare(Frac(0, 1))
  BY <1>1, UnitFrac
<1>3. Frac(0, 1) = Zero
  BY DEF Frac, Zero, Whole
<1>4. QED  BY <1>2, <1>3

LEMMA CrossIsUnit ==
  ASSUME NEW query \in Seq(Words), NEW words
  PROVE  UnitShare(CrossEncoder(query, words))
<1> DEFINE all == Bigrams(query)  part == Bigrams(query) \cap Bigrams(words)
           x == KeywordScore(query, words)  y == Share(part, all)
<1>1. UnitShare(x)
  BY KeywordIsUnit
<1>2. UnitShare(y)
  <2>1. IsFiniteSet(all) /\ part \in SUBSET all
    BY VocabularyIs
  <2> HIDE DEF all, part
  <2>2. QED  BY <2>1, ShareIsUnit
<1>3. CASE query = <<>> \/ words = <<>>
  BY <1>3, ZeroIsUnit DEF CrossEncoder
<1>4. CASE ~(query = <<>> \/ words = <<>>)
  <2>1. CrossEncoder(query, words) = Times(Frac(1, 2), Plus(x, y))
    BY <1>4 DEF CrossEncoder
  <2> HIDE DEF x, y
  <2>2. QED  BY <1>1, <1>2, <2>1, HalvesMake
<1>5. QED  BY <1>3, <1>4

\* Halving a share leaves a share.
LEMMA HalfIsUnit ==
  ASSUME NEW x, UnitShare(x)
  PROVE  UnitShare(Times(Frac(1, 2), x))
<1>1. Plus(x, Zero) = x
  <2>1. x \in Fractions
    BY DEF UnitShare
  <2> DEFINE n == x.num  d == x.den
  <2>2. Equals(x, n, d) /\ n \in Int /\ d \in Nat \ {0} /\ d \in Int /\ d # 0
    BY <2>1, Itself DEF Fractions
  <2> HIDE DEF n, d
  <2>3. Equals(Zero, 0, d) /\ 0 \in Int /\ n + 0 = n
    BY <2>2, ZeroEquals
  <2>4. Equals(Plus(x, Zero), n + 0, d)
    BY <2>2, <2>3, PlusIs
  <2>5. QED  BY <2>2, <2>3, <2>4, SameValue
<1>2. UnitShare(Times(Frac(1, 2), Plus(x, Zero)))
  BY ZeroIsUnit, HalvesMake
<1>3. QED  BY <1>1, <1>2

LEMMA RecencyIsUnit ==
  ASSUME NEW age \in Nat \cup {Missing}
  PROVE  UnitShare(RecencyScore(age))
<1>1. CASE age = Missing
  <2>1. 1 \in Nat /\ 2 \in Nat \ {0} /\ 1 <= 2
    OBVIOUS
  <2>2. UnitShare(Frac(1, 2))
    BY <2>1, UnitFrac
  <2>3. QED  BY <1>1, <2>2 DEF RecencyScore
<1>2. CASE age # Missing
  <2>1. age \in Nat
    BY <1>2
  <2> DEFINE U == {x \in Fractions : UnitShare(x)}
             one == Whole(1)
             half(x) == Times(Frac(1, 2), x)
             next == [p \in (0 .. age) \X U |-> half(p[2])]
             E(h) == h = [n \in 0 .. age |-> IF n = 0 THEN one ELSE half(h[n - 1])]
  <2>2. one \in U
    <3>1. 1 \in Nat /\ 1 \in Nat \ {0} /\ 1 <= 1
      OBVIOUS
    <3>2. UnitShare(Frac(1, 1)) /\ Frac(1, 1) = Whole(1)
      BY <3>1, UnitFrac DEF Frac, Whole
    <3>3. QED  BY <3>2 DEF UnitShare
  <2>3. \A x \in U : half(x) \in U
    BY HalfIsUnit DEF UnitShare
  <2>4. RecencyScore(age) = (CHOOSE h : E(h))[age]
    BY <1>2 DEF RecencyScore
  <2> HIDE DEF U, one, half
  <2>5. next \in [(0 .. age) \X U -> U]
    BY <2>3
  <2>6. \A n \in 0 .. age, x \in U : next[<<n, x>>] = half(x)
    OBVIOUS
  <2> HIDE DEF next
  <2>7. PICK g : Runs(g, 0, age, U, one, next)
    <3>1. 0 \in Int /\ age \in Int
      BY <2>1
    <3>2. QED  BY <2>2, <2>5, <3>1, RunExists
  <2>8. E(g)
    <3>1. g = [n \in 0 .. age |-> IF n = 0 THEN one ELSE next[<<n, g[n - 1]>>]]
      BY <2>7 DEF Runs
    <3>2. \A n \in 0 .. age : n # 0 => g[n - 1] \in U
      BY <2>1, <2>7 DEF Runs
    <3>3. \A n \in 0 .. age : n # 0 => next[<<n, g[n - 1]>>] = half(g[n - 1])
      BY <2>6, <3>2
    <3>4. [n \in 0 .. age |-> IF n = 0 THEN one ELSE next[<<n, g[n - 1]>>]]
            = [n \in 0 .. age |-> IF n = 0 THEN one ELSE half(g[n - 1])]
      BY <3>3
    <3>5. QED  BY <3>1, <3>4
  <2> DEFINE h == CHOOSE h : E(h)
  <2>9. E(h)
    BY <2>8
  <2>10. RecencyScore(age) = h[age]
    BY <2>4
  <2> HIDE DEF h
  <2> DEFINE G == {n \in 0 .. age : h[n] \in U}
  <2>11. 0 <= age => 0 \in G
    BY <2>1, <2>2, <2>9
  <2>12. ASSUME NEW n \in 0 .. age - 1, n \in G PROVE n + 1 \in G
    <3>1. n + 1 \in 0 .. age /\ n + 1 # 0 /\ (n + 1) - 1 = n
      BY <2>1
    <3>2. h[n + 1] = half(h[n]) /\ h[n] \in U
      BY <2>9, <2>12, <3>1
    <3>3. QED  BY <2>3, <3>1, <3>2
  <2>13. age \in G
    <3>1. 0 \in Int /\ age \in Int /\ age \in 0 .. age
      BY <2>1
    <3> HIDE DEF G
    <3>2. 0 .. age \subseteq G
      BY <2>11, <2>12, <3>1, CountingFrom
    <3>3. QED  BY <3>1, <3>2
  <2>14. QED  BY <2>10, <2>13 DEF U
<1>3. QED  BY <1>1, <1>2

\* A source is trusted, more than not at all.
LEMMA SourceIs ==
  ASSUME EvidenceAssumption, NEW source
  PROVE  UnitShare(SourceScore(source)) /\ Less(Zero, SourceScore(source))
<1>1. CASE source \in DOMAIN Reliability
  <2> DEFINE x == Reliability[source]
  <2>1. SourceScore(source) = x /\ UnitShare(x) /\ x # Zero
    BY <1>1, EvidenceAssumption DEF SourceScore
  <2> HIDE DEF x
  <2>2. x \in Fractions /\ ~Less(x, Zero) /\ Zero \in Fractions
    BY <2>1, ZeroIsUnit DEF UnitShare
  <2>3. Less(Zero, x)
    BY <2>1, <2>2, LessTotal
  <2>4. QED  BY <2>1, <2>3
<1>2. CASE source \notin DOMAIN Reliability
  <2>1. 6 \in Nat /\ 10 \in Nat \ {0} /\ 6 <= 10 /\ 6 \in Int /\ 10 \in Int /\ 10 # 0 /\ 0 \in Int /\ 0 < 6
    OBVIOUS
  <2>2. UnitShare(Frac(6, 10))
    BY <2>1, UnitFrac
  <2>3. Equals(Frac(6, 10), 6, 10)
    BY <2>1, FracIs
  <2>4. Equals(Zero, 0, 10)
    BY <2>1, ZeroEquals
  <2>5. Less(Zero, Frac(6, 10))
    BY <2>1, <2>3, <2>4, LessIs
  <2>6. QED  BY <1>2, <2>2, <2>5 DEF SourceScore
<1>3. QED  BY <1>1, <1>2

\* The weights of the fusion add up to 1.
LEMMA FuseIsUnit ==
  ASSUME NEW v, UnitShare(v), NEW k, UnitShare(k), NEW r, UnitShare(r), NEW s, UnitShare(s)
  PROVE  UnitShare(Fuse(v, k, r, s))
<1> DEFINE a == Frac(1, 2)  b == Frac(1, 4)  c == Frac(3, 20)  e == Frac(1, 10)
           ta == Times(a, v)  tb == Times(b, k)  tc == Times(c, r)  te == Times(e, s)
           list == <<ta, tb, tc, te>>
<1>1. Amount(a) /\ Amount(b) /\ Amount(c) /\ Amount(e)
  <2>1. 1 \in Nat /\ 3 \in Nat /\ {2, 4, 10, 20} \subseteq Nat \ {0}
    OBVIOUS
  <2>2. QED  BY <2>1, AmountFrac
<1>2. Equals(a, 10, 20) /\ Equals(b, 5, 20) /\ Equals(c, 3, 20) /\ Equals(e, 2, 20)
  <2>1. Equals(Frac(1, 2), 1, 2) /\ Equals(Frac(1, 4), 1, 4) /\ Equals(Frac(3, 20), 3, 20) /\ Equals(Frac(1, 10), 1, 10)
    <3>1. {1, 2, 3, 4, 10, 20} \subseteq Int /\ 2 # 0 /\ 4 # 0 /\ 20 # 0 /\ 10 # 0
      OBVIOUS
    <3>2. QED  BY <3>1, FracIs
  <2>2. QED  BY <2>1 DEF Equals, Fractions
<1> HIDE DEF a, b, c, e
<1>3. Within(ta, a) /\ Within(tb, b) /\ Within(tc, c) /\ Within(te, e)
  BY <1>1, WithinTimes
<1>4. Within(Zero, Zero) /\ Zero \in Fractions
  <2>1. Zero \in Fractions
    BY ZeroIsUnit DEF UnitShare
  <2>2. ~Less(Zero, Zero)
    BY <2>1, LessTotal
  <2>3. QED  BY <2>1, <2>2 DEF Within
<1>5. ta \in Fractions /\ tb \in Fractions /\ tc \in Fractions /\ te \in Fractions
  BY <1>3 DEF Within
<1>6. Fuse(v, k, r, s) = Sum(list)
  BY DEF Fuse, a, b, c, e
<1> HIDE DEF ta, tb, tc, te
<1>7. Sum(list) = Plus(Plus(Plus(Plus(Zero, ta), tb), tc), te)
  <2>1. list \in [1 .. 4 -> Fractions] /\ list[1] = ta /\ list[2] = tb /\ list[3] = tc /\ list[4] = te
    BY <1>5
  <2> HIDE DEF list
  <2>2. 4 \in Nat
    OBVIOUS
  <2>3. PICK h : PartSums(h, list, 4) /\ Sum(list) = h[4]
    BY <2>1, <2>2, SumIs
  <2>4. h[0] = Zero /\ h[1] = Plus(h[0], list[1]) /\ h[2] = Plus(h[1], list[2])
        /\ h[3] = Plus(h[2], list[3]) /\ h[4] = Plus(h[3], list[4])
    BY <2>3 DEF PartSums
  <2>5. QED  BY <2>1, <2>3, <2>4
<1> DEFINE p1 == Plus(Zero, a)  p2 == Plus(p1, b)  p3 == Plus(p2, c)  p4 == Plus(p3, e)
           s1 == Plus(Zero, ta)  s2 == Plus(s1, tb)  s3 == Plus(s2, tc)  s4 == Plus(s3, te)
<1>8. Within(s1, p1)
  BY <1>3, <1>4, WithinPlus
<1>9. Within(s2, p2)
  <2> HIDE DEF s1, p1
  <2>1. QED  BY <1>3, <1>8, WithinPlus
<1>10. Within(s3, p3)
  <2> HIDE DEF s2, p2
  <2>1. QED  BY <1>3, <1>9, WithinPlus
<1>11. Within(s4, p4)
  <2> HIDE DEF s3, p3
  <2>1. QED  BY <1>3, <1>10, WithinPlus
<1>12. p4 = Whole(1)
  <2>1. {0, 1, 2, 3, 5, 10, 15, 18, 20} \subseteq Int /\ 20 \in Nat \ {0} /\ 20 # 0 /\ 0 + 10 = 10 /\ 10 + 5 = 15 /\ 15 + 3 = 18
        /\ 18 + 2 = 20 /\ 1 * 20 = 20
    OBVIOUS
  <2>2. Equals(Zero, 0, 20)
    BY <2>1, ZeroEquals
  <2>3. Equals(p1, 10, 20)
    <3>1. Equals(p1, 0 + 10, 20)
      BY <1>2, <2>1, <2>2, PlusIs
    <3>2. QED  BY <2>1, <3>1
  <2>4. Equals(p2, 15, 20)
    <3> HIDE DEF p1
    <3>1. Equals(p2, 10 + 5, 20)
      BY <1>2, <2>1, <2>3, PlusIs
    <3>2. QED  BY <2>1, <3>1
  <2>5. Equals(p3, 18, 20)
    <3> HIDE DEF p2
    <3>1. Equals(p3, 15 + 3, 20)
      BY <1>2, <2>1, <2>4, PlusIs
    <3>2. QED  BY <2>1, <3>1
  <2>6. Equals(p4, 20, 20)
    <3> HIDE DEF p3
    <3>1. Equals(p4, 18 + 2, 20)
      BY <1>2, <2>1, <2>5, PlusIs
    <3>2. QED  BY <2>1, <3>1
  <2>7. Equals(Whole(1), 20, 20)
    <3>1. Equals(Whole(1), 1 * 20, 20)
      BY <2>1, WholeEquals
    <3>2. QED  BY <2>1, <3>1
  <2> HIDE DEF p4
  <2>8. QED  BY <2>1, <2>6, <2>7, SameValue
<1>13. QED  BY <1>6, <1>7, <1>11, <1>12, UnitIs

-----------------------------------------------------------------------------
(* The chunks of the store *)

ChunkShape(c) ==
  /\ c.id \in Nat \X Nat /\ c.words \in Seq(Words) /\ c.title \in Seq(Words)
  /\ c.age \in Nat \cup {Missing}

LEMMA TextIs ==
  ASSUME NEW doc \in Seq(Seq(Words) \ {<<>>})
  PROVE  Text(doc)
<1>1. Len(doc) \in Nat /\ DOMAIN doc = 1 .. Len(doc)
  OBVIOUS
<1>2. ASSUME NEW p \in 1 .. Len(doc)
      PROVE  doc[p] \in Seq(Words) /\ Len(doc[p]) \in Nat \ {0} /\ DOMAIN doc[p] = 1 .. Len(doc[p])
  <2>1. doc[p] \in Seq(Words) \ {<<>>}
    BY <1>1
  <2>2. QED  BY <2>1
<1>3. QED  BY <1>1, <1>2 DEF Text

LEMMA ChunkIs ==
  ASSUME EvidenceAssumption, NEW item, NewsItem(item)
  PROVE  /\ IsFiniteSet(DOMAIN Chunks(item.text)) /\ DOMAIN Chunks(item.text) \subseteq Nat
         /\ \A i \in DOMAIN Chunks(item.text) :
              ChunkShape(ChunkOf(item, i)) /\ ChunkOf(item, i).id = <<item.id, i>>
<1> DEFINE doc == item.text
           ws == Chunks(doc)
           n == Len(ws)
<1>1. Text(doc)
  BY TextIs DEF NewsItem
<1>2. ws \in Seq(Windows) /\ Covered(ws) = Paragraphs(doc, Len(doc))
  BY <1>1, ChunksAre
<1>3. n \in Nat /\ DOMAIN ws = 1 .. n
  BY <1>2
<1>4. IsFiniteSet(DOMAIN ws) /\ DOMAIN ws \subseteq Nat
  <2>1. 1 \in Int /\ n \in Int
    BY <1>3
  <2> HIDE DEF n
  <2>2. IsFiniteSet(1 .. n)
    BY <2>1, FS_Interval
  <2>3. QED  BY <1>3, <2>2
<1>5. ASSUME NEW i \in DOMAIN ws
      PROVE  ChunkShape(ChunkOf(item, i)) /\ ChunkOf(item, i).id = <<item.id, i>>
  <2> DEFINE w == ws[i]
  <2>1. w \in Windows /\ CharsOf(w) \subseteq Paragraphs(doc, Len(doc))
    BY <1>2, <1>5 DEF Covered
  <2> HIDE DEF w
  <2>2. WordsOf(doc, w) \in Seq(Words)
    BY <1>1, <2>1, WordsAre
  <2> DEFINE c == ChunkOf(item, i)
  <2>3. /\ c.id = <<item.id, i>> /\ c.words = WordsOf(doc, w) /\ c.title = item.title
        /\ c.age = item.age
    BY DEF ChunkOf, w
  <2>4. i \in Nat /\ item.id \in Nat /\ item.title \in Seq(Words) /\ item.age \in Nat \cup {Missing}
    BY <1>4 DEF NewsItem
  <2> HIDE DEF c, doc
  <2>5. ChunkShape(c) /\ c.id = <<item.id, i>>
    BY <2>2, <2>3, <2>4 DEF ChunkShape
  <2>6. QED  BY <2>5 DEF c
<1>6. QED  BY <1>4, <1>5

LEMMA StoreIs ==
  ASSUME EvidenceAssumption, NEW q, SearchOf(q)
  PROVE  /\ IsFiniteSet(Store(q.items)) /\ \A c \in Store(q.items) : ChunkShape(c)
         /\ \A c, d \in Store(q.items) : c.id = d.id => c = d
<1> DEFINE items == q.items
           T == {ChunksOf(item) : item \in items}
<1>1. IsFiniteSet(items)
  BY DEF SearchOf
<1>2. /\ \A item \in items : NewsItem(item)
      /\ \A item, other \in items : other.id = item.id => other = item
  BY DEF SearchOf
<1>3. ASSUME NEW item \in items PROVE IsFiniteSet(ChunksOf(item))
  <2> DEFINE I == DOMAIN Chunks(item.text)
             f == [i \in I |-> ChunkOf(item, i)]
  <2>1. IsFiniteSet(I)
    BY <1>2, <1>3, ChunkIs
  <2>2. ChunksOf(item) = {f[i] : i \in I}
    BY DEF ChunksOf
  <2>3. DOMAIN f = I
    OBVIOUS
  <2> HIDE DEF I, f
  <2>4. IsFiniteSet({f[i] : i \in I})
    BY <2>1, <2>3, ImageIsFinite
  <2>5. QED  BY <2>2, <2>4
<1>4. IsFiniteSet(T)
  <2> DEFINE f == [item \in items |-> ChunksOf(item)]
  <2>1. T = {f[item] : item \in items}
    OBVIOUS
  <2>2. DOMAIN f = items
    OBVIOUS
  <2> HIDE DEF items, T, f
  <2>3. IsFiniteSet({f[item] : item \in items})
    BY <1>1, <2>2, ImageIsFinite
  <2>4. QED  BY <2>1, <2>3
<1>5. Store(items) = UNION T
  BY DEF Store
<1>6. \A S \in T : IsFiniteSet(S)
  BY <1>3
<1>7. IsFiniteSet(Store(items))
  <2> HIDE DEF T
  <2>1. IsFiniteSet(UNION T)
    BY <1>4, <1>6, FS_UNION
  <2>2. QED  BY <1>5, <2>1
<1>8. ASSUME NEW c \in Store(items)
      PROVE  \E item \in items : \E i \in DOMAIN Chunks(item.text) : c = ChunkOf(item, i)
  <2>1. PICK item \in items : c \in ChunksOf(item)
    BY <1>5
  <2>2. \E i \in DOMAIN Chunks(item.text) : c = ChunkOf(item, i)
    BY <2>1 DEF ChunksOf
  <2>3. QED  BY <2>2
<1>9. ASSUME NEW c \in Store(items) PROVE ChunkShape(c)
  <2>1. PICK item \in items : \E i \in DOMAIN Chunks(item.text) : c = ChunkOf(item, i)
    BY <1>8
  <2>2. NewsItem(item)
    BY <1>2
  <2>3. QED  BY <2>1, <2>2, ChunkIs
<1>10. ASSUME NEW c \in Store(items), NEW d \in Store(items), c.id = d.id PROVE c = d
  <2>1. PICK item \in items : \E i \in DOMAIN Chunks(item.text) : c = ChunkOf(item, i)
    BY <1>8
  <2>2. PICK i \in DOMAIN Chunks(item.text) : c = ChunkOf(item, i)
    BY <2>1
  <2>3. PICK other \in items : \E j \in DOMAIN Chunks(other.text) : d = ChunkOf(other, j)
    BY <1>8
  <2>4. PICK j \in DOMAIN Chunks(other.text) : d = ChunkOf(other, j)
    BY <2>3
  <2>5. NewsItem(item) /\ NewsItem(other)
    BY <1>2
  <2>6. c.id = <<item.id, i>>
    BY <2>2, <2>5, ChunkIs
  <2>7. d.id = <<other.id, j>>
    BY <2>4, <2>5, ChunkIs
  <2>8. item.id = other.id /\ i = j
    <3> DEFINE a == item.id  b == other.id
    <3>1. <<a, i>> = <<b, j>>
      BY <1>10, <2>6, <2>7
    <3> HIDE DEF a, b
    <3>2. a = b /\ i = j
      BY <3>1
    <3>3. QED  BY <3>2 DEF a, b
  <2>9. item = other
    BY <1>2, <2>8
  <2>10. QED  BY <2>2, <2>4, <2>8, <2>9
<1>11. QED  BY <1>7, <1>9, <1>10

-----------------------------------------------------------------------------
(* How a chunk scores *)

LEMMA FusedIs ==
  ASSUME EvidenceAssumption, NEW query \in Seq(Words), NEW c, ChunkShape(c)
  PROVE  UnitShare(VectorScore(query, c)) /\ UnitShare(Fused(query, c))
<1> DEFINE v == VectorScore(query, c)  k == KeywordScore(query, Shown(c))
           r == RecencyScore(c.age)  s == SourceScore(c.source)
<1>1. c.words \in Seq(Words) /\ c.age \in Nat \cup {Missing}
  BY DEF ChunkShape
<1>2. UnitShare(v)
  BY <1>1, CosineIsUnit DEF VectorScore
<1>3. UnitShare(k)
  BY KeywordIsUnit
<1>4. UnitShare(r)
  BY <1>1, RecencyIsUnit
<1>5. UnitShare(s)
  BY SourceIs
<1>6. Fused(query, c) = Fuse(v, k, r, s)
  BY DEF Fused
<1> HIDE DEF v, k, r, s
<1>7. UnitShare(Fuse(v, k, r, s))
  BY <1>2, <1>3, <1>4, <1>5, FuseIsUnit
<1>8. QED  BY <1>2, <1>6, <1>7 DEF v

LEMMA RerankedIs ==
  ASSUME EvidenceAssumption, NEW query \in Seq(Words), NEW c, ChunkShape(c)
  PROVE  UnitShare(Reranked(query, c))
<1> DEFINE x == Fused(query, c)  y == CrossEncoder(query, Shown(c))
<1>1. UnitShare(x)
  BY FusedIs
<1>2. UnitShare(y)
  BY CrossIsUnit
<1>3. Reranked(query, c) = Plus(Times(Frac(65, 100), x), Times(Frac(35, 100), y))
  BY DEF Reranked
<1> HIDE DEF x, y
<1>4. 65 \in Nat /\ 35 \in Nat /\ 100 \in Nat \ {0} /\ 65 + 35 = 100
  OBVIOUS
<1>5. QED  BY <1>1, <1>2, <1>3, <1>4, TwoWeights

\* A confidence is a share as it is, and never 0.
LEMMA BlendIs ==
  ASSUME EvidenceAssumption, NEW query \in Seq(Words), NEW c, ChunkShape(c)
  PROVE  UnitShare(Blend(query, c)) /\ Less(Zero, Blend(query, c))
<1> DEFINE x == Reranked(query, c)  y == SourceScore(c.source)
           a == Times(Frac(7, 10), x)  b == Times(Frac(3, 10), y)
<1>1. UnitShare(x)
  BY RerankedIs
<1>2. UnitShare(y) /\ Less(Zero, y)
  BY SourceIs
<1>3. Blend(query, c) = Plus(a, b)
  BY DEF Blend
<1> HIDE DEF x, y
<1>4. 7 \in Nat /\ 3 \in Nat /\ 3 \in Nat \ {0} /\ 10 \in Nat \ {0} /\ 7 + 3 = 10
  OBVIOUS
<1>5. UnitShare(Plus(a, b))
  BY <1>1, <1>2, <1>4, TwoWeights
<1>6. y \in Fractions
  BY <1>2 DEF UnitShare
<1>7. Less(Zero, b)
  BY <1>2, <1>4, <1>6, PositiveTimes
<1>8. Amount(Frac(7, 10)) /\ Amount(Frac(3, 10))
  BY <1>4, AmountFrac
<1>9. Within(a, Frac(7, 10)) /\ Within(b, Frac(3, 10))
  BY <1>1, <1>2, <1>8, WithinTimes
<1>10. Amount(a) /\ b \in Fractions
  BY <1>9 DEF Within, Amount
<1> HIDE DEF a, b
<1>11. Less(Zero, Plus(a, b))
  BY <1>7, <1>10, PositivePlus
<1>12. QED  BY <1>3, <1>5, <1>11

-----------------------------------------------------------------------------
(* The best by a score *)

LEMMA LessOn ==
  ASSUME NEW x \in Fractions, NEW y \in Fractions, NEW z \in Fractions, Less(x, y), Less(y, z)
  PROVE  Less(x, z)
<1> SUFFICES ASSUME ~Less(x, z) PROVE FALSE
  OBVIOUS
<1>1. ~Less(y, x)
  BY LessTotal
<1>2. ~Less(y, z)
  BY <1>1, LessOrder
<1>3. QED  BY <1>2

LEMMA PrecedesIs ==
  ASSUME NEW x, NEW y, NEW z, x.id \in Nat \X Nat, y.id \in Nat \X Nat, z.id \in Nat \X Nat
  PROVE  /\ x.id = y.id \/ Precedes(x, y) \/ Precedes(y, x)
         /\ ~Precedes(x, x)
         /\ Precedes(x, y) /\ Precedes(y, z) => Precedes(x, z)
<1> DEFINE a == x.id[1]  b == x.id[2]  c == y.id[1]  d == y.id[2]  e == z.id[1]  f == z.id[2]
<1>1. {a, b, c, d, e, f} \subseteq Nat /\ x.id = <<a, b>> /\ y.id = <<c, d>>
  OBVIOUS
<1>2. /\ Precedes(x, y) <=> a < c \/ (a = c /\ b < d)
      /\ Precedes(y, x) <=> c < a \/ (c = a /\ d < b)
      /\ Precedes(y, z) <=> c < e \/ (c = e /\ d < f)
      /\ Precedes(x, z) <=> a < e \/ (a = e /\ b < f)
      /\ Precedes(x, x) <=> a < a \/ (a = a /\ b < b)
  BY DEF Precedes
<1> HIDE DEF a, b, c, d, e, f
<1>3. a \in Nat /\ b \in Nat /\ c \in Nat /\ d \in Nat /\ e \in Nat /\ f \in Nat
  BY <1>1
<1>4. x.id = y.id \/ Precedes(x, y) \/ Precedes(y, x)
  BY <1>1, <1>2, <1>3
<1>5. ~Precedes(x, x)
  BY <1>2, <1>3
<1>6. Precedes(x, y) /\ Precedes(y, z) => Precedes(x, z)
  BY <1>2, <1>3
<1>7. QED  BY <1>4, <1>5, <1>6

\* Things that can be told apart by their place in the store.
Stocked(D) == /\ IsFiniteSet(D) /\ \A c \in D : c.id \in Nat \X Nat
              /\ \A c, d \in D : c.id = d.id => c = d

\* Sorting by a score is putting in a row: no two are at the same place.
LEMMA SortedIsARow ==
  ASSUME NEW D, Stocked(D), NEW score \in [D -> Fractions], NEW came \in [D -> Fractions]
  PROVE  InARow(D, {p \in D \X D : Preferred(score, came, p[1], p[2])})
<1> DEFINE R == {p \in D \X D : Preferred(score, came, p[1], p[2])}
           P(x, y) == Preferred(score, came, x, y)
<1>1. \A x \in D, y \in D : <<x, y>> \in R <=> P(x, y)
  OBVIOUS
<1>2. \A x \in D, y \in D :
        P(x, y) <=> \/ Less(score[y], score[x])
                    \/ /\ score[y] = score[x]
                       /\ Less(came[y], came[x]) \/ (came[y] = came[x] /\ Precedes(x, y))
  BY DEF Preferred
<1>3. \A x \in D : score[x] \in Fractions /\ came[x] \in Fractions /\ x.id \in Nat \X Nat
  BY DEF Stocked
<1> HIDE DEF R, P
<1>4. ASSUME NEW x \in D, NEW y \in D PROVE x = y \/ P(x, y) \/ P(y, x)
  <2>1. Less(score[x], score[y]) \/ Less(score[y], score[x]) \/ score[x] = score[y]
    BY <1>3, LessTotal
  <2>2. Less(came[x], came[y]) \/ Less(came[y], came[x]) \/ came[x] = came[y]
    BY <1>3, LessTotal
  <2>3. x.id = y.id \/ Precedes(x, y) \/ Precedes(y, x)
    BY <1>3, PrecedesIs
  <2>4. x.id = y.id => x = y
    BY DEF Stocked
  <2>5. QED  BY <1>2, <2>1, <2>2, <2>3, <2>4
<1>5. ASSUME NEW x \in D PROVE ~P(x, x)
  <2>1. ~Less(score[x], score[x]) /\ ~Less(came[x], came[x]) /\ ~Precedes(x, x)
    BY <1>3, LessTotal, PrecedesIs
  <2>2. QED  BY <1>2, <2>1
<1>6. ASSUME NEW x \in D, NEW y \in D, NEW z \in D, P(x, y), P(y, z) PROVE P(x, z)
  <2>1. Less(score[z], score[y]) /\ Less(score[y], score[x]) => Less(score[z], score[x])
    BY <1>3, LessOn
  <2>2. Less(came[z], came[y]) /\ Less(came[y], came[x]) => Less(came[z], came[x])
    BY <1>3, LessOn
  <2>3. Precedes(x, y) /\ Precedes(y, z) => Precedes(x, z)
    BY <1>3, PrecedesIs
  <2>4. QED  BY <1>2, <1>6, <2>1, <2>2, <2>3
<1>7. InARow(D, R)
  BY <1>1, <1>4, <1>5, <1>6 DEF InARow
<1>8. QED  BY <1>7 DEF R

\* The best by a score: as many as asked for or there are, and none left out scores more.
LEMMA BestAre ==
  ASSUME NEW D, Stocked(D), NEW score \in [D -> Fractions], NEW came \in [D -> Fractions],
         NEW n \in Nat
  PROVE  /\ BestBy(score, came, n) \subseteq D
         /\ Cardinality(BestBy(score, came, n)) = IF n < Cardinality(D) THEN n ELSE Cardinality(D)
         /\ \A c \in BestBy(score, came, n), d \in D \ BestBy(score, came, n) :
              ~Less(score[c], score[d])
<1> DEFINE R == {p \in D \X D : Preferred(score, came, p[1], p[2])}
<1>1. InARow(D, R)
  BY SortedIsARow
<1>2. \A x \in D, y \in D : <<x, y>> \in R <=> Preferred(score, came, x, y)
  OBVIOUS
<1>3. DOMAIN score = D
  OBVIOUS
<1> HIDE DEF R
<1>4. ASSUME NEW c \in D
      PROVE  {d \in D : Preferred(score, came, d, c)} = {d \in D : <<d, c>> \in R}
  BY <1>2
<1>5. BestBy(score, came, n) = FirstOf(D, R, n)
  BY <1>3, <1>4 DEF BestBy, FirstOf
<1>6. IsFiniteSet(D)
  BY DEF Stocked
<1> DEFINE F == FirstOf(D, R, n)
<1>7. /\ Cardinality(F) = IF n < Cardinality(D) THEN n ELSE Cardinality(D)
      /\ \A x \in F, y \in D \ F : <<x, y>> \in R
  BY <1>1, <1>6, FirstAre
<1>8. F \subseteq D
  BY DEF FirstOf
<1> HIDE DEF F
<1>9. ASSUME NEW c \in F, NEW d \in D \ F PROVE ~Less(score[c], score[d])
  <2>1. c \in D /\ Preferred(score, came, c, d)
    BY <1>2, <1>7, <1>8
  <2>2. Less(score[d], score[c]) \/ score[d] = score[c]
    BY <2>1 DEF Preferred
  <2>3. score[c] \in Fractions /\ score[d] \in Fractions
    BY <2>1
  <2>4. QED  BY <2>2, <2>3, LessTotal
<1>10. QED  BY <1>5, <1>7, <1>8, <1>9 DEF F

-----------------------------------------------------------------------------
(* An answer *)

\* The best of the best: what the vector stage hands on, and what is taken of it.
LEMMA RetrievedIs ==
  ASSUME EvidenceAssumption, NEW q, SearchOf(q), q.top_k > 0, NEW D,
         D = {c \in Store(q.items) : OfSymbol(c, q.symbol) /\ q.source \in {Missing, c.source}}
  PROVE  /\ Retrieved(q) \subseteq D
         /\ Cardinality(Retrieved(q)) = IF q.top_k < Cardinality(D) THEN q.top_k ELSE Cardinality(D)
         /\ Cardinality(D) <= Overfetch =>
              \A c \in Retrieved(q), d \in D \ Retrieved(q) :
                ~Less(Fused(q.query, c), Fused(q.query, d))
<1> DEFINE k == q.top_k
           most == IF 4 * k > Overfetch THEN 4 * k ELSE Overfetch
           near == [c \in D |-> VectorScore(q.query, c)]
           C == Candidates(q)
           fused == [c \in C |-> Fused(q.query, c)]
           came == [c \in C |-> VectorScore(q.query, c)]
           A == Retrieved(q)
<1>1. k \in Nat /\ most \in Nat /\ k <= most /\ Overfetch <= most /\ q.query \in Seq(Words)
  BY EvidenceAssumption DEF EvidenceAssumption, SearchOf
<1>2. Stocked(D) /\ \A c \in D : ChunkShape(c)
  <2>1. /\ IsFiniteSet(Store(q.items)) /\ \A c \in Store(q.items) : ChunkShape(c)
        /\ \A c, d \in Store(q.items) : c.id = d.id => c = d
    BY StoreIs
  <2>2. D \subseteq Store(q.items)
    OBVIOUS
  <2>3. IsFiniteSet(D)
    BY <2>1, <2>2, FS_Subset
  <2>4. QED  BY <2>1, <2>2, <2>3 DEF Stocked, ChunkShape
<1>3. \A c \in D : VectorScore(q.query, c) \in Fractions /\ Fused(q.query, c) \in Fractions
  BY <1>1, <1>2, FusedIs DEF UnitShare
<1>4. C = BestBy(near, near, most)
  BY DEF Candidates
<1>5. A = BestBy(fused, came, k)
  BY DEF Retrieved
<1>6. near \in [D -> Fractions]
  BY <1>3
<1> HIDE DEF near, most, C
<1>7. C \subseteq D /\ Cardinality(C) = IF most < Cardinality(D) THEN most ELSE Cardinality(D)
  BY <1>1, <1>2, <1>4, <1>6, BestAre
<1>8. IsFiniteSet(D) /\ Cardinality(D) \in Nat
  BY <1>2, FS_CardinalityType DEF Stocked
<1>9. Stocked(C)
  <2>1. IsFiniteSet(C)
    BY <1>7, <1>8, FS_Subset
  <2>2. QED  BY <1>2, <1>7, <2>1 DEF Stocked
<1>10. fused \in [C -> Fractions] /\ came \in [C -> Fractions] /\ \A c \in C : fused[c] = Fused(q.query, c)
  BY <1>3, <1>7
<1> HIDE DEF fused, came, A, k
<1>11. /\ A \subseteq C
       /\ Cardinality(A) = IF k < Cardinality(C) THEN k ELSE Cardinality(C)
       /\ \A c \in A, d \in C \ A : ~Less(fused[c], fused[d])
  BY <1>1, <1>5, <1>9, <1>10, BestAre
<1>12. Cardinality(A) = IF k < Cardinality(D) THEN k ELSE Cardinality(D)
  BY <1>1, <1>7, <1>8, <1>11
<1>13. ASSUME Cardinality(D) <= Overfetch, NEW c \in A, NEW d \in D \ A
       PROVE  ~Less(Fused(q.query, c), Fused(q.query, d))
  <2>1. Cardinality(C) = Cardinality(D)
    BY <1>1, <1>7, <1>8, <1>13, EvidenceAssumption DEF EvidenceAssumption
  <2>2. C = D
    BY <1>7, <1>8, <2>1, FS_Subset
  <2>3. QED  BY <1>10, <1>11, <1>13, <2>2
<1>14. QED  BY <1>7, <1>11, <1>12, <1>13 DEF A, k

LEMMA AnswersAreBest ==
  ASSUME EvidenceAssumption, NEW q, SearchOf(q)
  PROVE  AnswerIsBest(q)
<1> DEFINE mine == {c \in Store(q.items) : q.symbol = Missing \/ q.symbol \in c.symbols}
           D == {c \in mine : q.source \in {Missing, c.source}}
           A == Search(q)
<1> SUFFICES ASSUME q.query # <<>>, q.top_k > 0
             PROVE  /\ A \subseteq D
                    /\ Cardinality(A) = Min({q.top_k, Cardinality(D)})
                    /\ Cardinality(D) <= Overfetch =>
                         \A c \in A, d \in D \ A : ~Less(Fused(q.query, c), Fused(q.query, d))
                    /\ \A c \in A : ConfidenceFor(q.query, c) = Blend(q.query, c)
                    /\ \A e \in EvidenceFor(q) : Less(Zero, e.confidence)
  BY DEF AnswerIsBest
<1>1. D = {c \in Store(q.items) : OfSymbol(c, q.symbol) /\ q.source \in {Missing, c.source}}
  BY DEF OfSymbol
<1>2. q.top_k \in Int /\ q.query \in Seq(Words)
  BY DEF SearchOf
<1>3. A = Retrieved(q)
  BY <1>2 DEF Search
<1>4. D \subseteq Store(q.items)
  OBVIOUS
<1> HIDE DEF D, A
<1>5. /\ A \subseteq D
      /\ Cardinality(A) = IF q.top_k < Cardinality(D) THEN q.top_k ELSE Cardinality(D)
      /\ Cardinality(D) <= Overfetch =>
           \A c \in A, d \in D \ A : ~Less(Fused(q.query, c), Fused(q.query, d))
  BY <1>1, <1>3, RetrievedIs
<1>6. IsFiniteSet(Store(q.items)) /\ \A c \in Store(q.items) : ChunkShape(c)
  BY StoreIs
<1>7. Cardinality(A) = Min({q.top_k, Cardinality(D)})
  <2> DEFINE a == q.top_k  b == Cardinality(D)  P == {a, b}
  <2>1. IsFiniteSet(D)
    BY <1>4, <1>6, FS_Subset
  <2>2. a \in Int /\ b \in Int
    BY <1>2, <2>1, FS_CardinalityType
  <2>3. Cardinality(A) = IF a < b THEN a ELSE b
    BY <1>5
  <2> HIDE DEF a, b
  <2>4. IsFiniteSet(P) /\ P # {} /\ P \subseteq Int
    <3>1. IsFiniteSet({}) /\ IsFiniteSet({b})
      BY FS_EmptySet, FS_Singleton
    <3>2. IsFiniteSet({b} \cup {a})
      BY <3>1, FS_AddElement
    <3>3. P = {b} \cup {a}
      OBVIOUS
    <3>4. QED  BY <2>2, <3>2, <3>3
  <2>5. Min(P) \in P /\ \A x \in P : Min(P) <= x
    BY <2>4, MinIs
  <2>6. Min(P) = IF a < b THEN a ELSE b
    BY <2>2, <2>5
  <2>7. QED  BY <2>3, <2>6 DEF a, b
<1>8. ASSUME NEW c \in A
      PROVE  ConfidenceFor(q.query, c) = Blend(q.query, c) /\ Less(Zero, ConfidenceFor(q.query, c))
  <2>1. ChunkShape(c)
    BY <1>4, <1>5, <1>6
  <2> DEFINE x == Blend(q.query, c)
  <2>2. UnitShare(x) /\ Less(Zero, x)
    BY <1>2, <2>1, BlendIs
  <2>3. ConfidenceFor(q.query, c) = Clipped(x)
    BY DEF ConfidenceFor
  <2> HIDE DEF x
  <2>4. Clipped(x) = x
    BY <2>2, ClippedIs
  <2>5. QED  BY <2>2, <2>3, <2>4 DEF x
<1>9. \A e \in EvidenceFor(q) : Less(Zero, e.confidence)
  <2> SUFFICES ASSUME NEW e \in EvidenceFor(q) PROVE Less(Zero, e.confidence)
    OBVIOUS
  <2>1. PICK c \in A :
          e = [claim |-> q.query, chunk |-> c.id, confidence |-> ConfidenceFor(q.query, c)]
    BY DEF EvidenceFor, A
  <2>2. e.confidence = ConfidenceFor(q.query, c)
    BY <2>1
  <2>3. QED  BY <1>8, <2>2
<1>10. QED  BY <1>5, <1>7, <1>8, <1>9

-----------------------------------------------------------------------------
(* Evidence (src/rag, src/evidence): whatever the texts, the limits and the question, a text is *)
(* cut without losing a character, the answer is the best there is, and every confidence it is  *)
(* given is a positive share that needs no cutting.                                             *)
THEOREM EvidenceIsWholeAndBest == EvidenceSpec => []EvidenceIsSound
<1> DEFINE OneOfThem == question \in [kind : {"evidence"}, of : Searches]
<1>1. EvidenceInit => OneOfThem
  BY DEF EvidenceInit
<1>2. OneOfThem /\ [UNCHANGED question]_question => OneOfThem'
  OBVIOUS
<1>3. OneOfThem => EvidenceIsSound
  <2> SUFFICES ASSUME OneOfThem PROVE EvidenceIsSound
    OBVIOUS
  <2>1. SearchOf(question.of)
    BY EvidenceAssumption DEF EvidenceAssumption
  <2>2. ASSUME NEW item \in question.of.items PROVE ChunksCover(item.text)
    <3>1. NewsItem(item)
      BY <2>1 DEF SearchOf
    <3>2. Text(item.text)
      BY <3>1, TextIs DEF NewsItem
    <3>3. QED  BY <3>2, EvidenceAssumption, NothingIsCutAway
  <2>3. AnswerIsBest(question.of)
    BY <2>1, EvidenceAssumption, AnswersAreBest
  <2>4. QED  BY <2>2, <2>3 DEF EvidenceIsSound
<1>4. QED  BY <1>1, <1>2, <1>3, PTL DEF EvidenceSpec, Stays

=============================================================================
