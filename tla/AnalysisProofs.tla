----------------------------- MODULE AnalysisProofs -----------------------------
(***************************************************************************)
(* What the Analysis run composes that keeps state, the call of a vendor   *)
(* adapter and the strategy job with its commands by hand, and what the    *)
(* adapters make of the vendors' answers.                                  *)
(*                                                                         *)
(*  NothingIsLeftOut         a call that returns has every row listed in   *)
(*                           its window, once                              *)
(*  NothingIsSeenEarly       the look-ahead rule                           *)
(*  FeaturesAgreeWithScores  stored features and stored scores agree       *)
(*  MailsKeepUp              a reader of the mails knows the newest grades *)
(*  AdaptersAreHonest        a bar is what was printed, splits or not      *)
(*                                                                         *)
(* Each is for every value of the constants, hence for every market,       *)
(* universe, configuration, page size, number of retries and of commands.  *)
(***************************************************************************)
EXTENDS VendorFetch, StrategyJob, VendorRows, WellFoundedInduction, FiniteSetTheorems, SequenceTheorems,
        TLAPS

-----------------------------------------------------------------------------
(* Lemmas: multiples, and finite sets listed by sequences *)

\* A number less its remainder is a multiple, no larger.
LEMMA LessRemainder ==
  ASSUME NEW m \in Nat \ {0}, NEW x \in Nat
  PROVE  x % m \in 0 .. m - 1 /\ x % m <= x /\ (x - (x % m)) % m = 0
<1> DEFINE y == x - (x % m)
<1>1. x % m \in 0 .. m - 1 /\ x % m <= x
  OBVIOUS
<1>2. PICK q \in Int : x = m * q + (x % m)
  <2>1. x = m * (x \div m) + (x % m) /\ x \div m \in Int
    OBVIOUS
  <2>2. QED  BY <2>1
<1>3. y \in Nat
  BY <1>1
<1>4. PICK k \in Int : y = m * k + (y % m)
  <2>1. y = m * (y \div m) + (y % m) /\ y \div m \in Int
    BY <1>3
  <2>2. QED  BY <2>1
<1>5. y % m \in 0 .. m - 1
  BY <1>3
<1>6. y = m * q
  <2> DEFINE r == x % m  a == m * q
  <2>1. x = a + r /\ r \in Int /\ a \in Int
    BY <1>1, <1>2
  <2> HIDE DEF r, a
  <2>2. x - r = a
    BY <2>1
  <2>3. QED  BY <2>2 DEF r, a
<1> DEFINE z == y % m
<1>7. m * (q - k) = z
  <2> DEFINE a == m * q  b == m * k  c == m * (q - k)
  <2>1. a = b + z
    BY <1>4, <1>6
  <2>2. z \in Int /\ a \in Int /\ b \in Int
    BY <1>5
  <2>3. c = a - b
    OBVIOUS
  <2> HIDE DEF a, b, c, z
  <2>4. c = z
    BY <2>1, <2>2, <2>3
  <2>5. QED  BY <2>4 DEF c
<1> HIDE DEF y, z
<1>8. q - k \in Int /\ z \in 0 .. m - 1
  BY <1>5 DEF z
<1>9. q - k = 0
  <2>1. CASE q - k >= 1
    <3>1. m * (q - k) >= m
      BY <2>1
    <3>2. QED  BY <1>7, <1>8, <3>1
  <2>2. CASE q - k <= -1
    <3>1. m * (q - k) <= -m
      BY <2>2
    <3>2. QED  BY <1>7, <1>8, <3>1
  <2>3. QED  BY <2>1, <2>2
<1>10. z = 0
  BY <1>7, <1>9
<1>11. QED BY <1>1, <1>10 DEF y, z

\* Every day is in the sub-window that starts at the last multiple before it.
LEMMA SubWindowOf ==
  ASSUME NEW d \in 1 .. WindowEnd
  PROVE  \E w \in SubWindows(1, WindowEnd) : d \in w[1] .. w[2]
<1> DEFINE m == ChunkDays + 1  r == (d - 1) % m  s == d - r  e == Min2(s + ChunkDays, WindowEnd)
<1>1. m \in Nat \ {0} /\ d - 1 \in Nat /\ d \in Nat /\ WindowEnd \in Nat /\ ChunkDays \in Nat
  BY FetchAssumption
<1>2. r \in 0 .. m - 1 /\ r <= d - 1 /\ ((d - 1) - r) % m = 0
  BY <1>1, LessRemainder
<1> HIDE DEF r
<1>3. s \in 1 .. WindowEnd /\ (s - 1) % (ChunkDays + 1) = 0
  <2>1. s - 1 = (d - 1) - r /\ s \in 1 .. WindowEnd
    BY <1>1, <1>2
  <2>2. QED  BY <1>2, <2>1
<1>4. d \in s .. e
  BY <1>1, <1>2 DEF Min2
<1>5. <<s, e>> \in SubWindows(1, WindowEnd)
  BY <1>3 DEF SubWindows
<1>6. QED  BY <1>4, <1>5

\* SetToSeq lists a finite set, each member once.
LEMMA Listing ==
  ASSUME NEW S, IsFiniteSet(S)
  PROVE  /\ SetToSeq(S) \in Seq(S) /\ Len(SetToSeq(S)) = Cardinality(S)
         /\ ToSet(SetToSeq(S)) = S /\ IsInjective(SetToSeq(S))
<1> DEFINE n == Cardinality(S)
<1>1. n \in Nat /\ ExistsBijection(1 .. n, S)
  <2>1. PICK k \in Nat : ExistsBijection(1 .. k, S)
    BY FS_NatBijection
  <2>2. QED  BY <2>1, FS_CountingElements
<1>2. PICK f \in [1 .. n -> S] : IsInjective(f)
  BY <1>1 DEF ExistsBijection, Bijection, Injection
<1> DEFINE g == SetToSeq(S)
<1>3. g \in [1 .. n -> S] /\ IsInjective(g)
  BY <1>2 DEF SetToSeq
<1>4. g \in Seq(S) /\ Len(g) = n /\ DOMAIN g = 1 .. n
  BY <1>1, <1>3
<1>5. ToSet(g) = S
  <2>1. IsFiniteSet(1 .. n) /\ Cardinality(1 .. n) = n
    BY <1>1, FS_Interval
  <2>2. g \in Injection(1 .. n, S)
    BY <1>3 DEF Injection
  <2>3. g \in Surjection(1 .. n, S)
    BY <2>1, <2>2, FS_Injection
  <2>4. QED  BY <1>3, <2>3 DEF Surjection, ToSet
<1>6. QED  BY <1>3, <1>4, <1>5

\* As many positions as members: a sequence that names nothing twice.
LEMMA Counted ==
  ASSUME NEW S, NEW q \in Seq(S), ToSet(q) = S, IsInjective(q)
  PROVE  Len(q) = Cardinality(S)
<1>1. Len(q) \in Nat /\ q \in [1 .. Len(q) -> S] /\ DOMAIN q = 1 .. Len(q)
  OBVIOUS
<1>2. q \in Bijection(1 .. Len(q), S)
  BY <1>1 DEF Bijection, Injection, Surjection, ToSet
<1>3. QED  BY <1>1, <1>2, FS_CountingElements DEF ExistsBijection

-----------------------------------------------------------------------------
(* What a call asks for *)

\* The windows cover every day.
LEMMA WindowsKnown ==
  /\ Windows \subseteq (1 .. WindowEnd) \X (1 .. WindowEnd) /\ IsFiniteSet(Windows)
  /\ \A d \in 1 .. WindowEnd : \E w \in Windows : d \in w[1] .. w[2]
<1>1. ASSUME NEW s \in 1 .. WindowEnd PROVE Min2(s + ChunkDays, WindowEnd) \in 1 .. WindowEnd
  BY FetchAssumption DEF Min2
<1>2. SubWindows(1, WindowEnd) \subseteq (1 .. WindowEnd) \X (1 .. WindowEnd)
  BY <1>1 DEF SubWindows
<1>3. Windows \subseteq (1 .. WindowEnd) \X (1 .. WindowEnd)
  BY <1>2, FetchAssumption DEF Windows
<1>4. IsFiniteSet(Windows)
  <2>1. IsFiniteSet(1 .. WindowEnd)
    BY FS_Interval, FetchAssumption
  <2>2. IsFiniteSet((1 .. WindowEnd) \X (1 .. WindowEnd))
    BY <2>1, FS_Product
  <2>3. QED  BY <1>3, <2>2, FS_Subset
<1>5. ASSUME NEW d \in 1 .. WindowEnd PROVE \E w \in Windows : d \in w[1] .. w[2]
  <2>1. CASE vendor = "ssi_index"
    BY <2>1, SubWindowOf DEF Windows
  <2>2. CASE vendor # "ssi_index"
    BY <2>2 DEF Windows
  <2>3. QED  BY <2>1, <2>2
<1>6. QED  BY <1>3, <1>4, <1>5

\* A call makes finitely many requests.
LEMMA AsksFinite == IsFiniteSet(Asks)
<1>1. CASE vendor = "rss"
  <2> DEFINE q == [who |-> Tickers, from |-> 1, to |-> WindowEnd]
  <2>1. Asks = {q}
    BY <1>1 DEF Asks
  <2>2. QED  BY <2>1, FS_Singleton
<1>2. CASE vendor # "rss"
  <2> DEFINE f == [p \in Tickers \X Windows |-> [who |-> {p[1]}, from |-> p[2][1], to |-> p[2][2]]]
  <2>1. IsFiniteSet(Tickers \X Windows)
    BY FetchAssumption, WindowsKnown, FS_Product
  <2>2. \A q \in Asks : \E p \in Tickers \X Windows : f[p] = q
    <3> SUFFICES ASSUME NEW q \in Asks PROVE \E p \in Tickers \X Windows : f[p] = q
      OBVIOUS
    <3>1. PICK t \in Tickers, w \in Windows : q = [who |-> {t}, from |-> w[1], to |-> w[2]]
      BY <1>2 DEF Asks
    <3>2. f[<<t, w>>] = q
      BY <3>1
    <3>3. QED  BY <3>2
  <2>3. ASSUME NEW p \in Tickers \X Windows PROVE f[p] \in Asks
    <3>1. p[1] \in Tickers /\ p[2] \in Windows
      OBVIOUS
    <3>2. f[p] = [who |-> {p[1]}, from |-> p[2][1], to |-> p[2][2]]
      OBVIOUS
    <3>3. PICK t \in Tickers, w \in Windows : t = p[1] /\ w = p[2]
      BY <3>1
    <3>4. f[p] = [who |-> {t}, from |-> w[1], to |-> w[2]]
      BY <3>2, <3>3
    <3>5. ASSUME NEW q, q = [who |-> {t}, from |-> w[1], to |-> w[2]] PROVE q \in Asks
      <4>1. q \in {[who |-> {u}, from |-> v[1], to |-> v[2]] : u \in Tickers, v \in Windows}
        <5> DEFINE Ask(u, v) == [who |-> {u}, from |-> v[1], to |-> v[2]]
        <5>1. q = Ask(t, w)
          BY <3>5
        <5> HIDE DEF Ask
        <5>2. q \in {Ask(u, v) : u \in Tickers, v \in Windows}
          BY <5>1
        <5>3. QED  BY <5>2 DEF Ask
      <4>2. QED  BY <1>2, <4>1 DEF Asks
    <3> HIDE DEF f
    <3>6. QED  BY <3>4, <3>5
  <2> HIDE DEF f
  <2>4. f \in Surjection(Tickers \X Windows, Asks)
    <3>1. f \in [Tickers \X Windows -> Asks]
      BY <2>3 DEF f
    <3>2. QED  BY <2>2, <3>1 DEF Surjection
  <2>5. QED  BY <2>1, <2>4, FS_Surjection
<1>3. QED  BY <1>1, <1>2

-----------------------------------------------------------------------------
(* What is left to read *)

Taken(m, first, last) == {m[j] : j \in first .. last}
Unread(q, off) == LET m == SetToSeq(RowsFor(q)) IN Taken(m, off + 1, Len(m))
Done(i) == IF i = 1 THEN (page - 1) * PageSize ELSE 0
Left(i) == {r \in listed : \E q, off : q = todo[i] /\ off = Done(i) /\ r \in Unread(q, off)}
FullPage(r) == vendor = "finfo" /\ Cardinality({s \in ToSet(got) : s[1] = r[1]}) = PageSize
AllLeft ==
  \A r \in listed : r \in ToSet(got) \/ (\E i \in 1 .. Len(todo) : r \in Left(i)) \/ FullPage(r)
OnceLeft ==
  /\ IsInjective(got) /\ \A i \in 1 .. Len(todo) : Left(i) \cap ToSet(got) = {}
  /\ \A i, j \in 1 .. Len(todo) : \A q, s :
       i # j /\ q = todo[i] /\ s = todo[j] => RowsFor(q) \cap RowsFor(s) = {}

FetchInv ==
  /\ listed \in Listings /\ todo \in Seq(Asks) /\ got \in Seq(listed) /\ page \in Nat \ {0}
  /\ ~Paged => page = 1
  /\ call = "idle" => got = <<>> /\ page = 1 /\ ~sending
  /\ call = "running" /\ sending => todo # <<>>
  /\ call = "running" => AllLeft /\ (Cardinality(Windows) > 1 \/ OnceLeft)
  /\ CompleteOrError

\* What a vendor lists is finite.
LEMMA ListedFinite == ASSUME FetchInv PROVE IsFiniteSet(listed) /\ \A q : IsFiniteSet(RowsFor(q))
<1>1. IsFiniteSet(1 .. WindowEnd)
  BY FS_Interval, FetchAssumption
<1>2. IsFiniteSet(Tickers \X (1 .. WindowEnd))
  BY <1>1, FS_Product, FetchAssumption
<1>3. listed \subseteq Tickers \X (1 .. WindowEnd)
  BY FetchAssumption DEF FetchInv
<1>4. IsFiniteSet(listed)
  BY <1>2, <1>3, FS_Subset
<1>5. ASSUME NEW q PROVE IsFiniteSet(RowsFor(q))
  <2>1. RowsFor(q) \subseteq listed
    BY DEF RowsFor
  <2>2. QED  BY <1>4, <2>1, FS_Subset
<1>6. QED  BY <1>4, <1>5

\* Before its first page all rows of a request are unread, and later only such rows.
LEMMA UnreadIs ==
  ASSUME FetchInv, NEW q
  PROVE  /\ Unread(q, 0) = RowsFor(q)
         /\ \A off \in Nat : Unread(q, off) \subseteq RowsFor(q)
<1> DEFINE m == SetToSeq(RowsFor(q))
<1>1. m \in Seq(RowsFor(q)) /\ ToSet(m) = RowsFor(q)
  BY ListedFinite, Listing
<1> HIDE DEF m
<1>2. DOMAIN m = 1 .. Len(m) /\ Len(m) \in Nat /\ \A j \in 1 .. Len(m) : m[j] \in RowsFor(q)
  BY <1>1
<1>3. \A off : Unread(q, off) = {m[j] : j \in off + 1 .. Len(m)}
  BY DEF Unread, Taken, m
<1>4. {m[j] : j \in 0 + 1 .. Len(m)} = RowsFor(q)
  BY <1>1, <1>2 DEF ToSet
<1>5. ASSUME NEW off \in Nat PROVE \A j \in off + 1 .. Len(m) : m[j] \in RowsFor(q)
  BY <1>2
<1>6. Unread(q, 0) = RowsFor(q)
  BY <1>3, <1>4
<1>7. ASSUME NEW off \in Nat PROVE Unread(q, off) \subseteq RowsFor(q)
  BY <1>3, <1>5
<1>8. QED  BY <1>6, <1>7

\* A page: some of the rows, each once, in the order the vendor keeps.
LEMMA PageIs ==
  ASSUME NEW m \in Seq(listed), IsInjective(m), NEW first \in Nat \ {0}, NEW last \in Nat,
         last <= Len(m)
  PROVE  /\ SubSeq(m, first, last) \in Seq(listed) /\ IsInjective(SubSeq(m, first, last))
         /\ Len(SubSeq(m, first, last)) = IF first <= last THEN last - first + 1 ELSE 0
         /\ ToSet(SubSeq(m, first, last)) = Taken(m, first, last)
<1>1. PICK n \in Nat : n = Len(m) /\ DOMAIN m = 1 .. n /\ \A j \in 1 .. n : m[j] \in listed
  OBVIOUS
<1>2. PICK rows : rows = SubSeq(m, first, last)
  OBVIOUS
<1>3. CASE first <= last
  <2> DEFINE k == last - first + 1
  <2>1. Len(rows) = k /\ \A i \in 1 .. k : rows[i] = m[first + i - 1]
    BY <1>1, <1>2, <1>3
  <2>2. rows \in Seq(listed) /\ DOMAIN rows = 1 .. k /\ k \in Nat
    BY <1>1, <1>2, <1>3
  <2>3. IsInjective(rows)
    <3> SUFFICES ASSUME NEW a \in 1 .. k, NEW b \in 1 .. k, rows[a] = rows[b]
                 PROVE  a = b
      BY <2>2 DEF IsInjective
    <3>1. first + a - 1 \in 1 .. n /\ first + b - 1 \in 1 .. n /\ m[first + a - 1] = m[first + b - 1]
      BY <1>1, <1>3, <2>1
    <3>2. first + a - 1 = first + b - 1
      BY <1>1, <3>1 DEF IsInjective
    <3>3. QED  BY <3>2
  <2>4. ToSet(rows) = Taken(m, first, last)
    <3>1. ASSUME NEW i \in 1 .. k PROVE \E j \in first .. last : rows[i] = m[j]
      <4>1. first + i - 1 \in first .. last
        BY <1>3
      <4>2. QED  BY <2>1, <4>1
    <3>2. ASSUME NEW j \in first .. last PROVE \E i \in 1 .. k : rows[i] = m[j]
      <4>1. j - first + 1 \in 1 .. k /\ first + (j - first + 1) - 1 = j
        BY <1>3
      <4>2. QED  BY <2>1, <4>1
    <3>3. ToSet(rows) = {rows[i] : i \in 1 .. k}
      BY <2>2 DEF ToSet
    <3>4. {rows[i] : i \in 1 .. k} \subseteq {m[j] : j \in first .. last}
      BY <3>1
    <3>5. {m[j] : j \in first .. last} \subseteq {rows[i] : i \in 1 .. k}
      BY <3>2
    <3>6. QED  BY <3>3, <3>4, <3>5 DEF Taken
  <2>5. QED  BY <1>2, <1>3, <2>1, <2>2, <2>3, <2>4
<1>4. CASE ~(first <= last)
  <2>1. rows = <<>>
    BY <1>2, <1>4
  <2>2. first .. last = {} /\ DOMAIN rows = {} /\ Len(rows) = 0 /\ rows \in Seq(listed)
    BY <1>4, <2>1
  <2>3. ToSet(rows) = {} /\ Taken(m, first, last) = {} /\ IsInjective(rows)
    BY <2>2 DEF IsInjective, ToSet, Taken
  <2>4. QED  BY <1>2, <1>4, <2>2, <2>3
<1>5. QED  BY <1>3, <1>4

\* A page that is taken for the last has all the rest, another one does not overlap the rest.
LEMMA LastPageIs ==
  ASSUME NEW m \in Seq(listed), IsInjective(m), NEW first \in Nat \ {0}, NEW end \in Nat,
         end - first = PageSize - 1, NEW next, next - end = 1, next \in Nat
  PROVE  LET rows == SubSeq(m, first, Min2(end, Len(m)))
             rest == Taken(m, first, Len(m))
             after == Taken(m, next, Len(m))
         IN /\ rows \in Seq(listed) /\ IsInjective(rows) /\ ToSet(rows) \subseteq rest
            /\ Len(rows) <= PageSize
            /\ Len(rows) = 0 \/ end >= Len(m) \/ Len(rows) < PageSize => rest \subseteq ToSet(rows)
            /\ Len(rows) >= PageSize => rest = ToSet(rows) \cup after /\ ToSet(rows) \cap after = {}
<1>1. PICK n \in Nat : n = Len(m) /\ DOMAIN m = 1 .. n
  OBVIOUS
<1>2. PICK last : last = Min2(end, Len(m))
  OBVIOUS
<1>3. PICK rows : rows = SubSeq(m, first, last)
  OBVIOUS
<1>4. last = (IF end < n THEN end ELSE n) /\ last \in Nat /\ last <= n /\ PageSize \in Nat \ {0}
  BY <1>1, <1>2, FetchAssumption DEF Min2
<1>5. /\ rows \in Seq(listed) /\ IsInjective(rows)
      /\ Len(rows) = IF first <= last THEN last - first + 1 ELSE 0
      /\ ToSet(rows) = Taken(m, first, last)
  <2>1. last <= Len(m) /\ last \in Nat
    BY <1>1, <1>4
  <2>2. QED  BY <1>3, <2>1, PageIs
<1>6. PICK k : k = Len(rows) /\ k \in Nat /\ k = IF first <= last THEN last - first + 1 ELSE 0
  <2>1. Len(rows) \in Nat
    BY <1>5
  <2>2. QED  BY <1>5, <2>1
<1>7. ToSet(rows) \subseteq Taken(m, first, n)
  <2>1. first .. last \subseteq first .. n
    BY <1>4
  <2>2. QED  BY <1>5, <2>1 DEF Taken
<1>8. ASSUME k = 0 \/ end >= n \/ k < PageSize PROVE Taken(m, first, n) \subseteq ToSet(rows)
  <2>1. last = n \/ n < first
    BY <1>4, <1>6, <1>8
  <2>2. first .. n \subseteq first .. last
    BY <2>1
  <2>3. QED  BY <1>5, <2>2 DEF Taken
<1>9. ASSUME k >= PageSize
      PROVE  /\ Taken(m, first, n) = ToSet(rows) \cup Taken(m, next, n)
             /\ ToSet(rows) \cap Taken(m, next, n) = {}
  <2>1. last = end /\ end <= n
    BY <1>4, <1>6, <1>9
  <2>2. first .. n = (first .. last) \cup (next .. n) /\ (first .. last) \cap (next .. n) = {}
    BY <1>4, <2>1
  <2>3. first .. last \subseteq DOMAIN m /\ next .. n \subseteq DOMAIN m
    BY <1>1, <2>1
  <2>4. Taken(m, first, n) = ToSet(rows) \cup Taken(m, next, n)
    BY <1>5, <2>2 DEF Taken
  <2>5. ASSUME NEW i \in first .. last, NEW j \in next .. n PROVE m[i] # m[j]
    <3>1. i \in DOMAIN m /\ j \in DOMAIN m /\ i # j
      BY <2>2, <2>3
    <3>2. QED  BY <3>1 DEF IsInjective
  <2>6. ToSet(rows) \cap Taken(m, next, n) = {}
    BY <1>5, <2>5 DEF Taken
  <2>7. QED  BY <2>4, <2>6
<1>10. k <= PageSize
  BY <1>4, <1>6
<1>11. QED  BY <1>1, <1>2, <1>3, <1>5, <1>6, <1>7, <1>8, <1>9, <1>10

\* What an answer hands over, and what it leaves of the request.
LEMMA AnswerIs ==
  ASSUME FetchInv, todo # <<>>, NEW total \in {-1, Len(Matching)}
  PROVE  LET rows == PageOf(Matching)
         IN /\ rows \in Seq(listed) /\ IsInjective(rows) /\ ToSet(rows) \subseteq Left(1)
            /\ LastPage(rows, total) =>
                 \/ Left(1) \subseteq ToSet(rows)
                 \/ vendor = "finfo" /\ Len(rows) = PageSize
            /\ ~LastPage(rows, total) =>
                 /\ Paged /\ Left(1) = ToSet(rows) \cup Unread(todo[1], page * PageSize)
                 /\ ToSet(rows) \cap Unread(todo[1], page * PageSize) = {}
<1>1. PICK m : m = Matching
  OBVIOUS
<1>2. PICK first, end, next : /\ first = (page - 1) * PageSize + 1 /\ end = page * PageSize
                             /\ next = page * PageSize + 1
  OBVIOUS
<1>3. PICK rows : rows = PageOf(m)
  OBVIOUS
<1>4. /\ m \in Seq(listed) /\ IsInjective(m) /\ m = SetToSeq(RowsFor(todo[1]))
  <2>1. Head(todo) = todo[1]
    BY DEF FetchInv
  <2>2. RowsFor(todo[1]) \subseteq listed
    BY DEF RowsFor
  <2>3. m = SetToSeq(RowsFor(todo[1]))
    BY <1>1, <2>1 DEF Matching, Request
  <2>4. m \in Seq(RowsFor(todo[1])) /\ IsInjective(m)
    BY <2>3, ListedFinite, Listing
  <2>5. QED  BY <2>2, <2>3, <2>4
<1>5. /\ first \in Nat \ {0} /\ end \in Nat /\ next \in Nat /\ PageSize \in Nat \ {0}
      /\ end - first = PageSize - 1 /\ next - end = 1
  <2>1. page \in Nat \ {0} /\ PageSize \in Nat \ {0}
    BY FetchAssumption DEF FetchInv
  <2>2. PICK off \in Nat : off = (page - 1) * PageSize
    BY <2>1
  <2>3. off + PageSize = page * PageSize
    BY <2>1, <2>2
  <2>4. end = off + PageSize /\ first = off + 1 /\ next = off + PageSize + 1
    BY <1>2, <2>2, <2>3
  <2>5. QED  BY <2>1, <2>4
<1>6. /\ Left(1) = Taken(m, first, Len(m))
      /\ Unread(todo[1], page * PageSize) = Taken(m, next, Len(m))
  <2>1. Unread(todo[1], (page - 1) * PageSize) = Taken(m, first, Len(m))
    BY <1>2, <1>4 DEF Unread
  <2>2. Taken(m, first, Len(m)) \subseteq listed
    BY <1>4, <1>5 DEF Taken
  <2>3. Left(1) = Unread(todo[1], (page - 1) * PageSize)
    BY <2>1, <2>2 DEF Left, Done
  <2>4. Unread(todo[1], page * PageSize) = Taken(m, next, Len(m))
    BY <1>2, <1>4 DEF Unread
  <2>5. QED  BY <2>1, <2>3, <2>4
<1>7. LastPage(rows, total) <=>
        ~Paged \/ rows = <<>> \/ (total # -1 /\ end >= total) \/ Len(rows) < PageSize
  BY <1>2 DEF LastPage
<1>8. CASE ~Sized
  <2>1. rows = m /\ first = 1
    <3>1. page = 1
      BY <1>8 DEF FetchInv, Sized
    <3>2. QED  BY <1>2, <1>3, <1>5, <1>8, <3>1 DEF PageOf
  <2>2. ToSet(m) = Taken(m, 1, Len(m))
    BY <1>4 DEF ToSet, Taken
  <2>3. ToSet(rows) = Left(1) /\ LastPage(rows, total)
    BY <1>6, <1>7, <1>8, <2>1, <2>2 DEF Sized
  <2>4. QED  BY <1>1, <1>3, <1>4, <2>1, <2>3
<1>9. CASE Sized
  <2>1. rows = SubSeq(m, first, Min2(end, Len(m)))
    BY <1>2, <1>3, <1>9 DEF PageOf
  <2>2. /\ rows \in Seq(listed) /\ IsInjective(rows) /\ ToSet(rows) \subseteq Taken(m, first, Len(m))
        /\ Len(rows) <= PageSize
        /\ Len(rows) = 0 \/ end >= Len(m) \/ Len(rows) < PageSize =>
             Taken(m, first, Len(m)) \subseteq ToSet(rows)
        /\ Len(rows) >= PageSize =>
             /\ Taken(m, first, Len(m)) = ToSet(rows) \cup Taken(m, next, Len(m))
             /\ ToSet(rows) \cap Taken(m, next, Len(m)) = {}
    <3>1. m \in Seq(listed) /\ IsInjective(m)
      BY <1>4
    <3> DEFINE P(rs) ==
          /\ rs \in Seq(listed) /\ IsInjective(rs) /\ ToSet(rs) \subseteq Taken(m, first, Len(m))
          /\ Len(rs) <= PageSize
          /\ Len(rs) = 0 \/ end >= Len(m) \/ Len(rs) < PageSize =>
               Taken(m, first, Len(m)) \subseteq ToSet(rs)
          /\ Len(rs) >= PageSize =>
               /\ Taken(m, first, Len(m)) = ToSet(rs) \cup Taken(m, next, Len(m))
               /\ ToSet(rs) \cap Taken(m, next, Len(m)) = {}
    <3>2. P(SubSeq(m, first, Min2(end, Len(m))))
      BY <1>5, <3>1, LastPageIs, ZenonT(40)
    <3> HIDE DEF P
    <3>3. P(rows)
      BY <2>1, <3>2
    <3>4. QED  BY <3>3 DEF P
  <2>3. Len(rows) \in Nat /\ (rows = <<>> <=> Len(rows) = 0)
    BY <2>2
  <2>4. total # -1 => total = Len(m)
    BY <1>1
  <2>5. LastPage(rows, total) =>
          \/ Len(rows) = 0 \/ end >= Len(m) \/ Len(rows) < PageSize
          \/ vendor = "finfo" /\ Len(rows) = PageSize
    <3>1. Len(rows) < PageSize \/ Len(rows) = PageSize
      BY <1>5, <2>2, <2>3
    <3>2. Paged \/ vendor = "finfo"
      BY <1>9 DEF Sized
    <3>3. QED  BY <1>7, <2>3, <2>4, <3>1, <3>2
  <2>6. ~LastPage(rows, total) => Paged /\ Len(rows) >= PageSize
    BY <1>5, <1>7, <2>3
  <2>7. QED  BY <1>1, <1>3, <1>6, <1>9, <2>2, <2>5, <2>6
<1>10. QED  BY <1>8, <1>9

-----------------------------------------------------------------------------
(* The steps of a call *)

\* What the vendor has stays as it is.
LEMMA VendorStays ==
  ASSUME UNCHANGED origin
  PROVE  /\ listed' = listed /\ vendor' = vendor /\ Asks' = Asks /\ Windows' = Windows
         /\ Paged' = Paged
         /\ \A q : RowsFor(q)' = RowsFor(q)
         /\ \A q, off : Unread(q, off)' = Unread(q, off)
<1>1. listed' = listed /\ vendor' = vendor
  BY DEF origin
<1>2. Windows' = Windows /\ Paged' = Paged
  BY <1>1 DEF Windows, Paged
<1>3. Asks' = Asks
  BY <1>1, <1>2 DEF Asks
<1>4. \A q : RowsFor(q)' = RowsFor(q)
  BY <1>1 DEF RowsFor
<1>5. \A q, off : Unread(q, off)' = Unread(q, off)
  BY <1>4 DEF Unread
<1>6. QED  BY <1>1, <1>2, <1>3, <1>4, <1>5

\* Steps between a request and its answer read nothing.
LEMMA NothingRead ==
  ASSUME FetchInv, UNCHANGED <<origin, call, todo, page, got>>,
         call = "running" /\ sending' => todo # <<>>, call # "idle"
  PROVE  FetchInv'
<1>1. /\ listed' = listed /\ vendor' = vendor /\ Asks' = Asks /\ Windows' = Windows
      /\ Paged' = Paged
      /\ \A q : RowsFor(q)' = RowsFor(q)
      /\ \A q, off : Unread(q, off)' = Unread(q, off)
  BY VendorStays
<1>2. \A i : Left(i)' = Left(i)
  BY <1>1 DEF Left, Done
<1>3. AllLeft' = AllLeft
  BY <1>1, <1>2 DEF AllLeft, FullPage
<1>4. OnceLeft => OnceLeft'
  <2> SUFFICES ASSUME OnceLeft PROVE OnceLeft'
    OBVIOUS
  <2>1. IsInjective(got)'
    BY DEF OnceLeft, IsInjective
  <2>2. \A i \in 1 .. Len(todo') : Left(i)' \cap ToSet(got)' = {}
    BY <1>2 DEF OnceLeft, ToSet
  <2>3. \A i, j \in 1 .. Len(todo') : \A q, s :
          i # j /\ q = todo'[i] /\ s = todo'[j] => RowsFor(q)' \cap RowsFor(s)' = {}
    BY <1>1 DEF OnceLeft
  <2>4. QED  BY <2>1, <2>2, <2>3 DEF OnceLeft
<1>5. CompleteOrError'
  BY <1>1 DEF CompleteOrError, FetchInv
<1>6. QED  BY <1>1, <1>3, <1>4, <1>5 DEF FetchInv

\* An error returns no rows.
LEMMA Raised == ASSUME FetchInv, UNCHANGED origin, Raise PROVE FetchInv'
<1>1. /\ listed' = listed /\ Asks' = Asks /\ Paged' = Paged
  BY VendorStays
<1>2. call' = "error" /\ got' = <<>> /\ todo' = todo /\ page' = page
  BY DEF Raise
<1>3. got' \in Seq(listed') /\ CompleteOrError'
  BY <1>2 DEF CompleteOrError
<1>4. QED  BY <1>1, <1>2, <1>3 DEF FetchInv

\* Every row is asked for.
LEMMA RowsAsked ==
  ASSUME NEW r \in Tickers \X (1 .. WindowEnd), r \in listed
  PROVE  \E q \in Asks : r \in RowsFor(q)
<1>1. r[1] \in Tickers /\ r[2] \in 1 .. WindowEnd
  OBVIOUS
<1>2. CASE vendor = "rss"
  <2>1. PICK q \in Asks : q = [who |-> Tickers, from |-> 1, to |-> WindowEnd]
    BY <1>2 DEF Asks
  <2>2. r \in RowsFor(q)
    BY <1>1, <2>1 DEF RowsFor
  <2>3. QED  BY <2>2
<1>3. CASE vendor # "rss"
  <2>1. PICK w \in Windows : r[2] \in w[1] .. w[2]
    BY <1>1, WindowsKnown
  <2>2. PICK q : q = [who |-> {r[1]}, from |-> w[1], to |-> w[2]]
    OBVIOUS
  <2>3. q \in Asks
    <3> DEFINE Ask(t, v) == [who |-> {t}, from |-> v[1], to |-> v[2]]
    <3>1. q = Ask(r[1], w) /\ Asks = {Ask(t, v) : t \in Tickers, v \in Windows}
      BY <1>3, <2>2 DEF Asks
    <3> HIDE DEF Ask
    <3>2. QED  BY <1>1, <3>1
  <2>4. r \in RowsFor(q)
    BY <2>1, <2>2 DEF RowsFor
  <2>5. QED  BY <2>3, <2>4
<1>4. QED  BY <1>2, <1>3

\* With a single window two requests ask for different tickers.
LEMMA AskedOnce ==
  ASSUME ~(Cardinality(Windows) > 1), NEW q \in Asks, NEW s \in Asks, q # s
  PROVE  RowsFor(q) \cap RowsFor(s) = {}
<1>1. vendor # "rss"
  BY DEF Asks
<1>2. PICK t \in Tickers, v \in Windows : q = [who |-> {t}, from |-> v[1], to |-> v[2]]
  BY <1>1 DEF Asks
<1>3. PICK u \in Tickers, w \in Windows : s = [who |-> {u}, from |-> w[1], to |-> w[2]]
  BY <1>1 DEF Asks
<1>4. v = w
  <2>1. IsFiniteSet(Windows)
    BY WindowsKnown
  <2>2. Cardinality(Windows) \in Nat /\ Cardinality(Windows) # 0
    BY <2>1, <1>2, FS_CardinalityType, FS_EmptySet
  <2>3. Cardinality(Windows) = 1
    BY <2>2
  <2>4. PICK x : Windows = {x}
    BY <2>1, <2>3, FS_Singleton
  <2>5. QED  BY <2>4
<1>5. t # u
  BY <1>2, <1>3, <1>4
<1>6. QED  BY <1>2, <1>3, <1>5 DEF RowsFor

\* A call starts with every listed row left to read.
LEMMA Begun == ASSUME FetchInv, Fetch PROVE FetchInv'
<1>1. /\ call = "idle" /\ call' = "running" /\ todo' = Requests
      /\ UNCHANGED <<origin, page, sending, got>>
  BY DEF Fetch
<1>2. /\ listed' = listed /\ vendor' = vendor /\ Asks' = Asks /\ Windows' = Windows
      /\ Paged' = Paged
      /\ \A q : RowsFor(q)' = RowsFor(q)
      /\ \A q, off : Unread(q, off)' = Unread(q, off)
  BY <1>1, VendorStays
<1>3. got' = <<>> /\ page' = 1 /\ ~sending' /\ listed \in Listings
  BY <1>1 DEF FetchInv
<1>4. PICK n \in Nat : n = Len(todo') /\ DOMAIN todo' = 1 .. n
  <2>1. Requests \in Seq(Asks)
    BY AsksFinite, Listing DEF Requests
  <2>2. QED  BY <1>1, <2>1
<1>5. todo' \in Seq(Asks) /\ ToSet(todo') = Asks /\ IsInjective(todo')
  BY <1>1, AsksFinite, Listing DEF Requests
<1>6. \A i \in 1 .. n : todo'[i] \in Asks
  BY <1>4, <1>5 DEF ToSet
<1>7. \A i \in 1 .. n : Left(i)' = RowsFor(todo'[i])
  <2> SUFFICES ASSUME NEW i \in 1 .. n PROVE Left(i)' = RowsFor(todo'[i])
    OBVIOUS
  <2>1. Done(i)' = 0
    BY <1>3, FetchAssumption DEF Done
  <2>2. PICK q : q = todo'[i]
    OBVIOUS
  <2>3. Unread(q, 0) = RowsFor(q) /\ RowsFor(q) \subseteq listed
    BY UnreadIs DEF RowsFor
  <2>4. QED  BY <1>2, <2>1, <2>2, <2>3 DEF Left
<1>8. AllLeft'
  <2> SUFFICES ASSUME NEW r \in listed PROVE \E i \in 1 .. n : r \in Left(i)'
    BY <1>2, <1>4 DEF AllLeft
  <2>1. PICK q \in Asks : r \in RowsFor(q)
    BY <1>3, RowsAsked, FetchAssumption
  <2>2. PICK i \in 1 .. n : todo'[i] = q
    BY <1>4, <1>5 DEF ToSet
  <2>3. QED  BY <1>7, <2>1, <2>2
<1>9. ASSUME ~(Cardinality(Windows) > 1) PROVE OnceLeft'
  <2>1. IsInjective(got') /\ ToSet(got') = {}
    BY <1>3 DEF IsInjective, ToSet
  <2>2. ASSUME NEW i \in 1 .. n, NEW j \in 1 .. n, NEW q, NEW s,
               i # j, q = todo'[i], s = todo'[j]
        PROVE  RowsFor(q) \cap RowsFor(s) = {}
    <3>1. q \in Asks /\ s \in Asks /\ q # s
      BY <1>4, <1>5, <1>6, <2>2 DEF IsInjective
    <3>2. QED  BY <1>9, <3>1, AskedOnce
  <2>3. QED  BY <1>2, <1>4, <2>1, <2>2 DEF OnceLeft
<1>10. got' \in Seq(listed') /\ CompleteOrError'
  BY <1>1, <1>3 DEF CompleteOrError
<1>11. QED  BY <1>1, <1>2, <1>3, <1>5, <1>8, <1>9, <1>10 DEF FetchInv

\* The members of two sequences put together.
LEMMA JoinedSets ==
  ASSUME NEW S, NEW f \in Seq(S), NEW g \in Seq(S)
  PROVE  f \o g \in Seq(S) /\ ToSet(f \o g) = ToSet(f) \cup ToSet(g)
<1>1. PICK m, n, h : /\ m = Len(f) /\ n = Len(g) /\ h = f \o g
  OBVIOUS
<1>2. /\ m \in Nat /\ n \in Nat /\ DOMAIN f = 1 .. m /\ DOMAIN g = 1 .. n
      /\ h \in Seq(S) /\ Len(h) = m + n /\ DOMAIN h = 1 .. m + n
  BY <1>1
<1>3. \A i \in 1 .. m + n : h[i] = IF i <= m THEN f[i] ELSE g[i - m]
  BY <1>1, <1>2
<1>4. ToSet(h) = ToSet(f) \cup ToSet(g)
  <2>1. ASSUME NEW i \in 1 .. m + n PROVE h[i] \in ToSet(f) \cup ToSet(g)
    <3>1. CASE i <= m
      <4>1. i \in 1 .. m /\ h[i] = f[i]
        BY <1>2, <1>3, <3>1
      <4>2. QED  BY <1>2, <4>1 DEF ToSet
    <3>2. CASE ~(i <= m)
      <4>1. i - m \in 1 .. n
        BY <1>2, <3>2
      <4>2. QED  BY <1>2, <1>3, <3>2, <4>1 DEF ToSet
    <3>3. QED  BY <3>1, <3>2
  <2>2. ASSUME NEW i \in 1 .. m PROVE f[i] \in ToSet(h)
    <3>1. i \in 1 .. m + n /\ i <= m
      BY <1>2
    <3>2. QED  BY <1>2, <1>3, <3>1 DEF ToSet
  <2>3. ASSUME NEW i \in 1 .. n PROVE g[i] \in ToSet(h)
    <3>1. i + m \in 1 .. m + n /\ ~(i + m <= m) /\ (i + m) - m = i
      BY <1>2
    <3>2. h[i + m] = g[i]
      BY <1>3, <3>1
    <3>3. QED  BY <1>2, <3>1, <3>2 DEF ToSet
  <2>4. QED  BY <1>2, <2>1, <2>2, <2>3 DEF ToSet
<1>5. QED  BY <1>1, <1>2, <1>4

\* Two sequences that share nothing and name nothing twice.
LEMMA Joined ==
  ASSUME NEW S, NEW f \in Seq(S), NEW g \in Seq(S), IsInjective(f), IsInjective(g),
         ToSet(f) \cap ToSet(g) = {}
  PROVE  IsInjective(f \o g)
<1>1. PICK m, n, h : /\ m = Len(f) /\ n = Len(g) /\ h = f \o g
  OBVIOUS
<1>2. /\ m \in Nat /\ n \in Nat /\ DOMAIN f = 1 .. m /\ DOMAIN g = 1 .. n
      /\ h \in Seq(S) /\ Len(h) = m + n /\ DOMAIN h = 1 .. m + n
  BY <1>1
<1>3. \A i \in 1 .. m + n : h[i] = IF i <= m THEN f[i] ELSE g[i - m]
  BY <1>1, <1>2
<1>5. ASSUME NEW i \in 1 .. m + n, NEW j \in 1 .. m + n, h[i] = h[j] PROVE i = j
  <2>1. CASE i <= m /\ j <= m
    <3>1. i \in 1 .. m /\ j \in 1 .. m /\ f[i] = f[j]
      BY <1>2, <1>3, <1>5, <2>1
    <3>2. QED  BY <1>2, <3>1 DEF IsInjective
  <2>2. CASE ~(i <= m) /\ ~(j <= m)
    <3>1. i - m \in 1 .. n /\ j - m \in 1 .. n /\ g[i - m] = g[j - m]
      BY <1>2, <1>3, <1>5, <2>2
    <3>2. i - m = j - m
      BY <1>2, <3>1 DEF IsInjective
    <3>3. QED  BY <1>2, <3>2
  <2>3. ASSUME NEW x \in 1 .. m + n, NEW y \in 1 .. m + n, x <= m, ~(y <= m), h[x] = h[y]
        PROVE  FALSE
    <3>1. x \in 1 .. m /\ y - m \in 1 .. n /\ f[x] = g[y - m]
      BY <1>2, <1>3, <2>3
    <3>2. f[x] \in ToSet(f) /\ g[y - m] \in ToSet(g)
      BY <1>2, <3>1 DEF ToSet
    <3>3. QED  BY <3>1, <3>2
  <2>4. QED  BY <1>5, <2>1, <2>2, <2>3
<1>6. IsInjective(h)
  BY <1>2, <1>5 DEF IsInjective
<1>7. QED  BY <1>1, <1>6

\* Of CafeF and VNDirect a ticker is read in one request: its rows, and those of no other
\* ticker, are what that request is answered with.
LEMMA FirstPageIs ==
  ASSUME FetchInv, call = "running", todo # <<>>, vendor = "finfo", NEW r \in listed,
         NEW rows \in Seq(listed), ToSet(rows) \subseteq Left(1)
  PROVE  /\ r \in Left(1) =>
              {s \in ToSet(got) \cup ToSet(rows) : s[1] = r[1]} = ToSet(rows)
         /\ Cardinality({s \in ToSet(got) : s[1] = r[1]}) = PageSize =>
              {s \in ToSet(got) \cup ToSet(rows) : s[1] = r[1]} = {s \in ToSet(got) : s[1] = r[1]}
<1>1. Windows = {<<1, WindowEnd>>} /\ ~Paged
  BY DEF Windows, Paged, Ssi
<1>2. page = 1 /\ OnceLeft /\ todo \in Seq(Asks) /\ listed \in Listings /\ got \in Seq(listed)
  <2>1. Cardinality(Windows) = 1
    BY <1>1, FS_Singleton
  <2>2. ~(Cardinality(Windows) > 1)
    BY <2>1
  <2>3. QED  BY <1>1, <2>2 DEF FetchInv
<1>3. 1 \in 1 .. Len(todo) /\ todo[1] \in Asks
  BY <1>2
<1>4. PICK t \in Tickers, w \in Windows : todo[1] = [who |-> {t}, from |-> w[1], to |-> w[2]]
  <2>1. vendor # "rss"
    OBVIOUS
  <2>2. PICK q \in Asks : q = todo[1]
    BY <1>3
  <2>3. PICK t \in Tickers, w \in Windows : q = [who |-> {t}, from |-> w[1], to |-> w[2]]
    BY <2>1 DEF Asks
  <2>4. QED  BY <2>2, <2>3
<1>5. todo[1].who = {t} /\ todo[1].from = 1 /\ todo[1].to = WindowEnd
  BY <1>1, <1>4
<1>6. RowsFor(todo[1]) = {s \in listed : s[1] = t}
  <2>1. \A s \in listed : s[2] \in 1 .. WindowEnd
    BY <1>2, FetchAssumption
  <2>2. QED  BY <1>5, <2>1 DEF RowsFor
<1>7. Left(1) = {s \in listed : s[1] = t}
  <2>1. Done(1) = 0
    BY <1>2, FetchAssumption DEF Done
  <2>2. Unread(todo[1], 0) = RowsFor(todo[1])
    BY UnreadIs
  <2>3. QED  BY <1>6, <2>1, <2>2 DEF Left
<1>8. ToSet(got) \subseteq listed /\ \A s \in ToSet(got) : s[1] # t
  <2>1. ToSet(got) \subseteq listed
    BY <1>2 DEF ToSet
  <2>2. Left(1) \cap ToSet(got) = {}
    BY <1>2, <1>3 DEF OnceLeft
  <2>3. QED  BY <1>7, <2>1, <2>2
<1>9. \A s \in ToSet(rows) : s[1] = t
  BY <1>7
<1>10. ASSUME r \in Left(1)
       PROVE  {s \in ToSet(got) \cup ToSet(rows) : s[1] = r[1]} = ToSet(rows)
  <2>1. r[1] = t
    BY <1>7, <1>10
  <2>2. QED  BY <1>8, <1>9, <2>1
<1>11. ASSUME Cardinality({s \in ToSet(got) : s[1] = r[1]}) = PageSize
       PROVE  {s \in ToSet(got) \cup ToSet(rows) : s[1] = r[1]} = {s \in ToSet(got) : s[1] = r[1]}
  <2>1. {s \in ToSet(got) : s[1] = r[1]} # {}
    BY <1>11, FS_EmptySet, FetchAssumption
  <2>2. r[1] # t
    BY <1>8, <2>1
  <2>3. QED  BY <1>9, <2>2
<1>12. QED  BY <1>10, <1>11

\* An answer moves the rows of its page from what is left to what was got.
LEMMA Answered == ASSUME FetchInv, Answer PROVE FetchInv'
<1>1. /\ call = "running" /\ sending /\ UNCHANGED <<origin, call>> /\ ~sending'
      /\ got' = got \o PageOf(Matching)
      /\ \E total \in {-1, Len(Matching)} :
           IF LastPage(PageOf(Matching), total) THEN todo' = Tail(todo) /\ page' = 1
           ELSE todo' = todo /\ page' = page + 1
  BY DEF Answer
<1>2. /\ listed' = listed /\ vendor' = vendor /\ Asks' = Asks /\ Windows' = Windows
      /\ Paged' = Paged
      /\ \A q : RowsFor(q)' = RowsFor(q)
      /\ \A q, off : Unread(q, off)' = Unread(q, off)
  BY <1>1, VendorStays
<1>3. PICK rows : rows = PageOf(Matching)
  OBVIOUS
<1>4. PICK total \in {-1, Len(Matching)} :
           IF LastPage(rows, total) THEN todo' = Tail(todo) /\ page' = 1
           ELSE todo' = todo /\ page' = page + 1
  BY <1>1, <1>3
<1>5. /\ todo # <<>> /\ got \in Seq(listed) /\ todo \in Seq(Asks) /\ page \in Nat \ {0}
      /\ AllLeft /\ (Cardinality(Windows) > 1 \/ OnceLeft) /\ listed \in Listings
      /\ ~Paged => page = 1
  BY <1>1 DEF FetchInv
<1>6. PICK n \in Nat \ {0} : n = Len(todo) /\ DOMAIN todo = 1 .. n
  BY <1>5
<1>7. /\ rows \in Seq(listed) /\ IsInjective(rows) /\ ToSet(rows) \subseteq Left(1)
      /\ LastPage(rows, total) =>
           Left(1) \subseteq ToSet(rows) \/ (vendor = "finfo" /\ Len(rows) = PageSize)
      /\ ~LastPage(rows, total) =>
           /\ Paged /\ Left(1) = ToSet(rows) \cup Unread(todo[1], page * PageSize)
           /\ ToSet(rows) \cap Unread(todo[1], page * PageSize) = {}
  BY <1>3, <1>5, AnswerIs
<1>8. got' \in Seq(listed) /\ ToSet(got') = ToSet(got) \cup ToSet(rows)
  BY <1>1, <1>3, <1>5, <1>7, JoinedSets
<1>9. ASSUME OnceLeft PROVE IsInjective(got')
  <2>1. ToSet(got) \cap ToSet(rows) = {} /\ IsInjective(got)
    BY <1>6, <1>7, <1>9 DEF OnceLeft
  <2>2. QED  BY <1>1, <1>3, <1>5, <1>7, <2>1, Joined
<1>10. \A i \in 2 .. n : Left(i) = RowsFor(todo[i])
  <2> SUFFICES ASSUME NEW i \in 2 .. n PROVE Left(i) = RowsFor(todo[i])
    OBVIOUS
  <2>1. Done(i) = 0
    BY DEF Done
  <2>2. Unread(todo[i], 0) = RowsFor(todo[i]) /\ RowsFor(todo[i]) \subseteq listed
    BY UnreadIs DEF RowsFor
  <2>3. QED  BY <2>1, <2>2 DEF Left
<1>11. Left(1) \subseteq RowsFor(todo[1])
  <2>1. Done(1) \in Nat
    BY <1>5, FetchAssumption DEF Done
  <2>2. Unread(todo[1], Done(1)) \subseteq RowsFor(todo[1])
    BY <2>1, UnreadIs
  <2>3. QED  BY <2>2 DEF Left
<1>12. ~sending' /\ CompleteOrError' /\ (call' = "idle" => FALSE)
  BY <1>1 DEF CompleteOrError
<1>13. CASE LastPage(rows, total)
  <2>1. /\ todo' = Tail(todo) /\ page' = 1
        /\ Left(1) \subseteq ToSet(rows) \/ (vendor = "finfo" /\ Len(rows) = PageSize)
    BY <1>4, <1>7, <1>13
  <2>2. /\ todo' \in Seq(Asks) /\ Len(todo') = n - 1
        /\ \A i \in 1 .. n - 1 : todo'[i] = todo[i + 1]
    BY <1>5, <1>6, <2>1
  <2>3. \A i \in 1 .. n - 1 : Left(i)' = Left(i + 1)
    <3> SUFFICES ASSUME NEW i \in 1 .. n - 1 PROVE Left(i)' = Left(i + 1)
      OBVIOUS
    <3>1. Done(i)' = 0
      BY <2>1, FetchAssumption DEF Done
    <3>2. PICK q : q = todo'[i] /\ q = todo[i + 1]
      BY <2>2
    <3>3. Unread(q, 0) = RowsFor(q) /\ RowsFor(q) \subseteq listed
      BY UnreadIs DEF RowsFor
    <3>4. Left(i)' = RowsFor(q)
      BY <1>2, <3>1, <3>2, <3>3 DEF Left
    <3>5. i + 1 \in 2 .. n
      BY <1>6
    <3>6. QED  BY <1>10, <3>2, <3>4, <3>5
  <2>4. AllLeft'
    <3> SUFFICES ASSUME NEW r \in listed, r \notin ToSet(got')
                 PROVE  (\E i \in 1 .. n - 1 : r \in Left(i)') \/ FullPage(r)'
      BY <1>2, <2>2 DEF AllLeft
    <3>1. ASSUME NEW i \in 1 .. n, r \in Left(i), i # 1
          PROVE  \E j \in 1 .. n - 1 : r \in Left(j)'
      <4>1. i - 1 \in 1 .. n - 1 /\ (i - 1) + 1 = i
        BY <1>6, <3>1
      <4>2. QED  BY <2>3, <3>1, <4>1
    <3>2. ASSUME r \in Left(1) PROVE FullPage(r)'
      <4>1. vendor = "finfo" /\ Len(rows) = PageSize
        BY <1>8, <2>1, <3>2
      <4>2. {s \in ToSet(got') : s[1] = r[1]} = ToSet(rows)
        <5>1. {s \in ToSet(got) \cup ToSet(rows) : s[1] = r[1]} = ToSet(rows)
          BY <1>1, <1>5, <1>7, <3>2, <4>1, FirstPageIs
        <5>2. QED  BY <1>8, <5>1
      <4>3. Cardinality(ToSet(rows)) = PageSize
        <5>1. rows \in Seq(ToSet(rows))
          BY <1>7 DEF ToSet
        <5>2. QED  BY <1>7, <4>1, <5>1, Counted
      <4>4. QED  BY <1>2, <4>1, <4>2, <4>3 DEF FullPage
    <3>3. ASSUME FullPage(r) PROVE FullPage(r)'
      <4>1. {s \in ToSet(got') : s[1] = r[1]} = {s \in ToSet(got) : s[1] = r[1]}
        <5>1. {s \in ToSet(got) \cup ToSet(rows) : s[1] = r[1]} = {s \in ToSet(got) : s[1] = r[1]}
          BY <1>1, <1>5, <1>7, <3>3, FirstPageIs DEF FullPage
        <5>2. QED  BY <1>8, <5>1
      <4>2. QED  BY <1>2, <3>3, <4>1 DEF FullPage
    <3>4. QED  BY <1>5, <1>6, <1>8, <3>1, <3>2, <3>3 DEF AllLeft
  <2>5. ASSUME OnceLeft PROVE OnceLeft'
    <3>1. ASSUME NEW i \in 1 .. n - 1 PROVE Left(i)' \cap ToSet(got') = {}
      <4>1. i + 1 \in 2 .. n /\ i + 1 \in 1 .. n /\ 1 \in 1 .. n /\ i + 1 # 1
        BY <1>6
      <4>2. Left(i + 1) \cap ToSet(got) = {}
        BY <1>6, <2>5, <4>1 DEF OnceLeft
      <4>3. RowsFor(todo[i + 1]) \cap RowsFor(todo[1]) = {}
        BY <1>6, <2>5, <4>1 DEF OnceLeft
      <4>4. Left(i + 1) \cap ToSet(rows) = {}
        BY <1>7, <1>10, <1>11, <4>1, <4>3
      <4>5. QED  BY <1>8, <2>3, <4>2, <4>4
    <3>2. ASSUME NEW i \in 1 .. n - 1, NEW j \in 1 .. n - 1, NEW q, NEW s,
                 i # j, q = todo'[i], s = todo'[j]
          PROVE  RowsFor(q) \cap RowsFor(s) = {}
      <4>1. i + 1 \in 1 .. n /\ j + 1 \in 1 .. n /\ i + 1 # j + 1
        BY <1>6, <3>2
      <4>2. q = todo[i + 1] /\ s = todo[j + 1]
        BY <2>2, <3>2
      <4>3. QED  BY <1>6, <2>5, <4>1, <4>2 DEF OnceLeft
    <3>3. QED  BY <1>2, <1>9, <2>2, <2>5, <3>1, <3>2 DEF OnceLeft
  <2>6. QED  BY <1>1, <1>2, <1>5, <1>8, <1>12, <2>1, <2>2, <2>4, <2>5 DEF FetchInv
<1>14. CASE ~LastPage(rows, total)
  <2>1. /\ todo' = todo /\ page' = page + 1 /\ Paged
        /\ Left(1) = ToSet(rows) \cup Unread(todo[1], page * PageSize)
        /\ ToSet(rows) \cap Unread(todo[1], page * PageSize) = {}
    BY <1>4, <1>7, <1>14
  <2>2. Left(1)' = Unread(todo[1], page * PageSize)
    <3>1. Done(1)' = page * PageSize
      BY <1>5, <2>1 DEF Done
    <3>2. PICK q, off : q = todo[1] /\ off = page * PageSize
      OBVIOUS
    <3>3. Unread(q, off) \subseteq listed
      <4>1. Left(1) \subseteq listed
        BY DEF Left
      <4>2. QED  BY <2>1, <3>2, <4>1
    <3>4. Left(1)' = {r \in listed : r \in Unread(q, off)}
      BY <1>2, <2>1, <3>1, <3>2 DEF Left
    <3>5. QED  BY <3>2, <3>3, <3>4
  <2>3. \A i \in 2 .. n : Left(i)' = Left(i)
    <3> SUFFICES ASSUME NEW i \in 2 .. n PROVE Left(i)' = Left(i)
      OBVIOUS
    <3>1. Done(i)' = 0 /\ Done(i) = 0
      BY DEF Done
    <3>2. QED  BY <1>2, <2>1, <3>1 DEF Left
  <2>4. AllLeft'
    <3> SUFFICES ASSUME NEW r \in listed, r \notin ToSet(got') PROVE \E i \in 1 .. n : r \in Left(i)'
      BY <1>2, <1>6, <2>1 DEF AllLeft
    <3>1. PICK i \in 1 .. n : r \in Left(i)
      <4>1. ~FullPage(r)
        BY <2>1 DEF FullPage, Paged, Ssi
      <4>2. QED  BY <1>5, <1>6, <1>8, <4>1 DEF AllLeft
    <3>2. CASE i = 1
      BY <1>6, <1>8, <2>1, <2>2, <3>1, <3>2
    <3>3. CASE i # 1
      BY <1>6, <2>3, <3>1, <3>3
    <3>4. QED  BY <3>2, <3>3
  <2>5. ASSUME OnceLeft PROVE OnceLeft'
    <3>1. ASSUME NEW i \in 1 .. n PROVE Left(i)' \cap ToSet(got') = {}
      <4>1. CASE i = 1
        <5>1. Left(1) \cap ToSet(got) = {}
          BY <1>6, <2>5 DEF OnceLeft
        <5>2. QED  BY <1>8, <2>1, <2>2, <4>1, <5>1
      <4>2. CASE i # 1
        <5>1. i \in 2 .. n /\ 1 \in 1 .. n
          BY <1>6, <4>2
        <5>2. Left(i) \cap ToSet(got) = {}
          BY <1>6, <2>5 DEF OnceLeft
        <5>3. RowsFor(todo[i]) \cap RowsFor(todo[1]) = {}
          BY <1>6, <2>5, <4>2, <5>1 DEF OnceLeft
        <5>4. Left(i) \cap ToSet(rows) = {}
          BY <1>7, <1>10, <1>11, <5>1, <5>3
        <5>5. QED  BY <1>8, <2>3, <5>1, <5>2, <5>4
      <4>3. QED  BY <4>1, <4>2
    <3>2. Len(todo') = n /\ \A i \in 1 .. n : todo'[i] = todo[i]
      BY <1>6, <2>1
    <3>3. ASSUME NEW i \in 1 .. n, NEW j \in 1 .. n, NEW q, NEW s, i # j, q = todo'[i], s = todo'[j]
          PROVE  RowsFor(q) \cap RowsFor(s) = {}
      <4>1. q = todo[i] /\ s = todo[j]
        BY <3>2, <3>3
      <4>2. QED  BY <1>6, <2>5, <3>3, <4>1 DEF OnceLeft
    <3>4. IsInjective(got')
      BY <1>9, <2>5
    <3>5. \A i \in 1 .. Len(todo') : Left(i)' \cap ToSet(got') = {}
      BY <3>1, <3>2
    <3>6. \A i, j \in 1 .. Len(todo') : \A q, s :
            i # j /\ q = todo'[i] /\ s = todo'[j] => RowsFor(q)' \cap RowsFor(s)' = {}
      BY <1>2, <3>2, <3>3
    <3>7. QED  BY <3>4, <3>5, <3>6 DEF OnceLeft
  <2>6. page' \in Nat \ {0}
    BY <1>5, <2>1
  <2>7. QED  BY <1>1, <1>2, <1>5, <1>8, <1>12, <2>1, <2>4, <2>5, <2>6 DEF FetchInv
<1>15. QED  BY <1>13, <1>14

\* When nothing is left, what was got is what is listed.
LEMMA Returned == ASSUME FetchInv, Return PROVE FetchInv'
<1>1. /\ call = "running" /\ todo = <<>> /\ call' = "ok"
      /\ got' = IF Cardinality(Windows) > 1 THEN SetToSeq(ToSet(got)) ELSE got
      /\ UNCHANGED <<origin, todo, page, sending>>
  BY DEF Return
<1>2. /\ listed' = listed /\ vendor' = vendor /\ Asks' = Asks /\ Paged' = Paged
  BY <1>1, VendorStays
<1>3. got \in Seq(listed) /\ AllLeft /\ (Cardinality(Windows) > 1 \/ OnceLeft)
  BY <1>1 DEF FetchInv
<1>4. /\ ToSet(got) \subseteq listed
      /\ \A r \in listed \ ToSet(got) : FullPage(r)
  <2>1. ToSet(got) \subseteq listed
    BY <1>3 DEF ToSet
  <2>2. \A r \in listed \ ToSet(got) : FullPage(r)
    BY <1>1, <1>3 DEF AllLeft
  <2>3. QED  BY <2>1, <2>2
<1>5. got' \in Seq(listed) /\ ToSet(got') = ToSet(got) /\ Len(got') = Cardinality(ToSet(got))
  <2>1. CASE Cardinality(Windows) > 1
    <3>1. got' = SetToSeq(ToSet(got))
      BY <1>1, <2>1
    <3>2. IsFiniteSet(ToSet(got))
      BY <1>4, ListedFinite, FS_Subset
    <3>3. got' \in Seq(ToSet(got)) /\ ToSet(got') = ToSet(got) /\ Len(got') = Cardinality(ToSet(got))
      BY <3>1, <3>2, Listing
    <3>4. QED  BY <1>4, <3>3
  <2>2. CASE ~(Cardinality(Windows) > 1)
    <3>1. got' = got /\ IsInjective(got)
      BY <1>1, <1>3, <2>2 DEF OnceLeft
    <3>2. got \in Seq(ToSet(got))
      BY <1>3 DEF ToSet
    <3>3. QED  BY <1>3, <3>1, <3>2, Counted
  <2>3. QED  BY <2>1, <2>2
<1>6. CompleteOrError'
  BY <1>2, <1>4, <1>5 DEF CompleteOrError, FullPage
<1>7. QED  BY <1>1, <1>2, <1>5, <1>6 DEF FetchInv

\* The invariant holds before the call.
LEMMA FetchFirst == ASSUME FetchInit PROVE FetchInv
<1>1. /\ call = "idle" /\ todo = <<>> /\ page = 1 /\ ~sending /\ got = <<>> /\ listed \in Listings
  BY DEF FetchInit
<1>2. todo \in Seq(Asks) /\ got \in Seq(listed)
  BY <1>1
<1>3. QED  BY <1>1, <1>2 DEF FetchInv, CompleteOrError

\* Every step of a call, of the clock or of the vendor keeps the invariant.
LEMMA FetchStep == ASSUME FetchInv, [FetchNext]_fetchVars PROVE FetchInv'
<1>1. ASSUME UNCHANGED <<origin, call, todo, page, got>>, call # "idle",
             sending' => sending \/ todo # <<>>
      PROVE  FetchInv'
  BY <1>1, NothingRead DEF FetchInv
<1>2. ASSUME UNCHANGED origin, Raise PROVE FetchInv'
  BY <1>2, Raised
<1>3. CASE Fetch
  BY <1>3, Begun
<1>4. CASE GetAccessToken
  BY <1>1, <1>2, <1>4 DEF GetAccessToken, Send
<1>5. CASE RequestFails
  BY <1>1, <1>2, <1>5 DEF RequestFails, Retry
<1>6. CASE Unauthorized
  BY <1>1, <1>2, <1>6 DEF Unauthorized
<1>7. CASE Answer
  BY <1>7, Answered
<1>8. CASE Unmappable
  BY <1>2, <1>8 DEF Unmappable
<1>9. CASE Return
  BY <1>9, Returned
<1>10. CASE call = "running" /\ (Age \/ Revoke)
  BY <1>1, <1>10 DEF Age, Revoke, progress
<1>11. CASE UNCHANGED fetchVars
  <2>1. CASE call = "idle"
    <3>1. /\ listed' = listed /\ vendor' = vendor /\ Asks' = Asks /\ Paged' = Paged
      BY <1>11, VendorStays DEF fetchVars
    <3>2. UNCHANGED <<call, todo, page, sending, got>>
      BY <1>11 DEF fetchVars, progress
    <3>3. QED  BY <2>1, <3>1, <3>2 DEF FetchInv, CompleteOrError
  <2>2. CASE call # "idle"
    BY <1>1, <1>11, <2>2 DEF fetchVars, progress
  <2>3. QED  BY <2>1, <2>2
<1>12. QED
  BY <1>3, <1>4, <1>5, <1>6, <1>7, <1>8, <1>9, <1>10, <1>11 DEF FetchNext, FetchSteps

\* A call of an adapter that returns has every row the vendor lists for the window, each
\* once, whatever pages, sub-windows, retries and tokens it took; of a ticker CafeF and
\* VNDirect have more than one page of it has one full page (SsiProvider.fetch_eod,
\* fetch_index, HttpJsonProvider, the feeds, IMF and the two financial vendors).
THEOREM NothingIsLeftOut == FetchSpec => []CompleteOrError
<1>1. FetchInit => FetchInv
  BY FetchFirst
<1>2. FetchInv /\ [FetchNext]_fetchVars => FetchInv'
  BY FetchStep
<1>3. FetchInv => CompleteOrError
  BY DEF FetchInv
<1>4. QED  BY <1>1, <1>2, <1>3, PTL DEF FetchSpec

-----------------------------------------------------------------------------
(* Nothing of the future: every line in the tables is a filing *)

LinesInv ==
  /\ DOMAIN market = {"bars", "lines", "events"}
  /\ market.lines \subseteq Filings

\* Filings are the only lines at the start.
LEMMA LinesFirst == StrategyInit => LinesInv
BY FiledInTime, SMTT(30) DEF StrategyInit, LinesInv, Filings

\* Whatever arrives, commits or fails, every line is a filing.
LEMMA LinesStep == LinesInv /\ [StrategyNext]_strategyVars => LinesInv'
<1> SUFFICES ASSUME LinesInv, [StrategyNext]_strategyVars PROVE LinesInv'
  OBVIOUS
<1>1. CASE UNCHANGED market
  BY <1>1 DEF LinesInv
<1>2. CASE Arrive
  <2>1. PICK a \in Arrivals :
          \/ market' = [market EXCEPT !.bars = market'.bars]
          \/ market' = [market EXCEPT !.events = market'.events]
          \/ /\ a.kind = "line"
             /\ market' = [market EXCEPT !.lines = market'.lines]
             /\ market'.lines \subseteq market.lines \cup {a.row}
    BY <1>2 DEF Arrive, LinesInv
  <2>2. CASE market' = [market EXCEPT !.bars = market'.bars]
    BY <2>2 DEF LinesInv
  <2>3. CASE market' = [market EXCEPT !.events = market'.events]
    BY <2>3 DEF LinesInv
  <2>4. CASE a.kind = "line" /\ market' = [market EXCEPT !.lines = market'.lines]
             /\ market'.lines \subseteq market.lines \cup {a.row}
    BY <2>4 DEF LinesInv, Filings
  <2>5. QED  BY <2>1, <2>2, <2>3, <2>4
<1>3. QED
  BY <1>1, <1>2 DEF StrategyNext, strategyVars, NextDay, StartJob, StartHand, ReadPrices, ReadLines,
     StoreFeatures, StoreScores, ReadLatest, SendAlert, Fail

\* A run as of a day sees nothing that was public later only, whatever order ingestion
\* commits in and however late the run is (compute_snapshots, _usable_from).
THEOREM NothingIsSeenEarly == StrategySpec => []NothingTooEarly
<1>1. LinesInv => NothingTooEarly
  <2> SUFFICES ASSUME LinesInv, NEW s \in Symbols, NEW d \in 0 .. LastDay
               PROVE  AsOf(market, s, d) = AsOf(PublicBy(d), s, d)
    BY DEF NothingTooEarly
  <2> DEFINE v == PublicBy(d)
  <2>1. /\ v.bars = {b \in market.bars : b.day <= d}
        /\ v.events = {e \in market.events : e.day <= d}
        /\ v.lines = {l \in market.lines : l.public <= d \/ (l.restated /\ l.published = Missing)}
    BY DEF PublicBy, LinesInv
  <2> HIDE DEF v
  <2>2. \A x : Series(v.bars, x, d) = Series(market.bars, x, d)
    BY <2>1 DEF Series
  <2>3. {e \in v.events : e.symbol = s /\ e.day <= d /\ e.day >= d - DividendDays}
        = {e \in market.events : e.symbol = s /\ e.day <= d /\ e.day >= d - DividendDays}
    BY <2>1
  <2>4. ASSUME NEW l \in market.lines, UsableFrom(l) <= d
        PROVE  l.public <= d \/ (l.restated /\ l.published = Missing)
    <3>1. l \in Filings /\ d \in Int
      BY DEF LinesInv
    <3>2. QED  BY <2>4, <3>1, FiledInTime, LagsAreDays DEF UsableFrom
  <2>5. {l \in v.lines : l.symbol = s /\ UsableFrom(l) <= d}
        = {l \in market.lines : l.symbol = s /\ UsableFrom(l) <= d}
    BY <2>1, <2>4
  <2>6. QED  BY <2>2, <2>3, <2>5 DEF AsOf, v
<1>2. QED  BY <1>1, LinesFirst, LinesStep, PTL DEF StrategySpec

-----------------------------------------------------------------------------
(* Features and scores of one basis agree *)

Written(from, d) == ComputeGroups(from.view, from.who, d)

BasisInv ==
  /\ DOMAIN features = Symbols \X Days /\ DOMAIN basis = Symbols \X Days
  /\ \A k \in Symbols \X Days :
       /\ basis[k].features # Missing =>
            \A w \in Written(basis[k].features, k[2]) : w[1] = k[1] => w[2] \subseteq features[k]
       /\ \A p \in Profiles : basis[k].scores[p] # Missing =>
            /\ <<k[1], k[2], p>> \in DOMAIN scores
            /\ \E w \in Written(basis[k].scores[p], k[2]) :
                 w[1] = k[1] /\ scores[<<k[1], k[2], p>>].groups = w[2]

\* The tables are empty at the start.
LEMMA BasisFirst == StrategyInit => BasisInv
BY DEF StrategyInit, BasisInv

\* The features of a transaction and what they were computed from are noted together.
LEMMA StoreFeaturesKeepsBasis ==
  ASSUME BasisInv, NEW p \in Procs2, StoreFeatures(p) PROVE BasisInv'
<1> DEFINE day == run[p].asOf  written == Written(run[p], day)
           new(k) == UNION {w[2] : w \in {w \in written : k = <<w[1], day>>}}
<1>1. /\ features' = [k \in DOMAIN features |-> Merge(features[k], new(k))]
      /\ basis' = [k \in DOMAIN basis |->
           IF \E w \in written : k = <<w[1], day>>
           THEN [features |-> Basis(p), scores |-> basis[k].scores] ELSE basis[k]]
      /\ scores' = scores
  BY DEF StoreFeatures, Written
<1>2. Written(Basis(p), day) = written
  BY DEF Basis, Written
<1> HIDE DEF written
<1>3. ASSUME NEW k \in Symbols \X Days, \E w \in written : k = <<w[1], day>>
      PROVE  \A w \in Written(basis'[k].features, k[2]) : w[1] = k[1] => w[2] \subseteq features'[k]
  <2>1. basis'[k].features = Basis(p) /\ k[2] = day
    BY <1>1, <1>3 DEF BasisInv
  <2>2. ASSUME NEW w \in written, w[1] = k[1] PROVE w[2] \subseteq features'[k]
    <3>1. k = <<w[1], day>>
      BY <2>1, <2>2
    <3>2. w[2] \subseteq new(k)
      BY <3>1
    <3>3. features'[k] = Merge(features[k], new(k))
      BY <1>1 DEF BasisInv
    <3> HIDE DEF new
    <3>4. QED  BY <3>2, <3>3 DEF Merge
  <2>3. QED  BY <1>2, <2>1, <2>2
<1>4. ASSUME NEW k \in Symbols \X Days, ~ \E w \in written : k = <<w[1], day>>
      PROVE  features'[k] = features[k] /\ basis'[k] = basis[k]
  <2>1. new(k) = {}
    BY <1>4
  <2>2. features'[k] = Merge(features[k], new(k)) /\ basis'[k] = basis[k]
    BY <1>1, <1>4 DEF BasisInv
  <2> HIDE DEF new
  <2>3. QED  BY <2>1, <2>2 DEF Merge, Named
<1>5. \A k \in Symbols \X Days : basis'[k].scores = basis[k].scores
  BY <1>1 DEF BasisInv
<1>6. DOMAIN features' = Symbols \X Days /\ DOMAIN basis' = Symbols \X Days
  BY <1>1 DEF BasisInv
<1>7. ASSUME NEW k \in Symbols \X Days, basis'[k].features # Missing
      PROVE  \A w \in Written(basis'[k].features, k[2]) : w[1] = k[1] => w[2] \subseteq features'[k]
  BY <1>3, <1>4, <1>7 DEF BasisInv
<1>8. QED  BY <1>1, <1>5, <1>6, <1>7, ZenonT(40) DEF BasisInv

\* A score row has the groups its reads give.
LEMMA RowsOfScores ==
  ASSUME NEW view, NEW who, NEW day, NEW r \in ScoreRows(view, who, day)
  PROVE  \E w \in ComputeGroups(view, who, day), p \in Profiles :
           r.key = <<w[1], day, p>> /\ r.groups = w[2]
BY DEF ScoreRows

\* The scores of a transaction and what they were computed from are noted together.
LEMMA StoreScoresKeepsBasis ==
  ASSUME BasisInv, NEW p \in Procs2, StoreScores(p) PROVE BasisInv'
<1> DEFINE day == run[p].asOf  written == ScoreRows(run[p].view, run[p].who, day)
           keys == {r.key : r \in written}
<1>1. /\ scores' = [k \in DOMAIN scores \cup keys |->
               IF k \in keys THEN CHOOSE r \in written : r.key = k ELSE scores[k]]
      /\ basis' = [k \in DOMAIN basis |->
           [features |-> basis[k].features,
            scores |-> [pr \in Profiles |-> IF <<k[1], k[2], pr>> \in keys THEN Basis(p)
                                            ELSE basis[k].scores[pr]]]]
      /\ features' = features
  BY DEF StoreScores
<1>2. \A r \in written : \E w \in Written(Basis(p), day), pr \in Profiles :
        r.key = <<w[1], day, pr>> /\ r.groups = w[2]
  BY RowsOfScores DEF Written, Basis
<1> HIDE DEF written
<1>3. \A k \in keys : scores'[k] \in written /\ scores'[k].key = k
  BY <1>1
<1>4. DOMAIN basis' = Symbols \X Days /\ DOMAIN features' = Symbols \X Days
      /\ \A k \in Symbols \X Days : basis'[k].features = basis[k].features
  BY <1>1 DEF BasisInv
<1>5. ASSUME NEW k \in Symbols \X Days, NEW pr \in Profiles, basis'[k].scores[pr] # Missing
      PROVE  /\ <<k[1], k[2], pr>> \in DOMAIN scores'
             /\ \E w \in Written(basis'[k].scores[pr], k[2]) :
                  w[1] = k[1] /\ scores'[<<k[1], k[2], pr>>].groups = w[2]
  <2> DEFINE key == <<k[1], k[2], pr>>
  <2>1. CASE key \in keys
    <3>1. basis'[k].scores[pr] = Basis(p) /\ key \in DOMAIN scores'
      BY <1>1, <2>1 DEF BasisInv
    <3>2. PICK w \in Written(Basis(p), day), q \in Profiles :
            scores'[key].key = <<w[1], day, q>> /\ scores'[key].groups = w[2]
      BY <1>2, <1>3, <2>1
    <3>3. scores'[key].key = key
      BY <1>3, <2>1
    <3>4. w[1] = k[1] /\ day = k[2]
      BY <3>2, <3>3
    <3>5. QED  BY <3>1, <3>2, <3>4
  <2>2. CASE key \notin keys
    <3>1. basis'[k].scores[pr] = basis[k].scores[pr]
      BY <1>1, <2>2 DEF BasisInv
    <3>2. key \in DOMAIN scores
      BY <1>5, <3>1 DEF BasisInv
    <3>3. key \in DOMAIN scores' /\ scores'[key] = scores[key]
      BY <1>1, <2>2, <3>2
    <3>4. QED  BY <1>5, <3>1, <3>3 DEF BasisInv
  <2>3. QED  BY <2>1, <2>2
<1>6. \A k \in Symbols \X Days : basis'[k].features # Missing =>
         \A w \in Written(basis'[k].features, k[2]) : w[1] = k[1] => w[2] \subseteq features'[k]
  BY <1>1, <1>4, SMTT(30) DEF BasisInv
<1>7. QED  BY <1>4, <1>5, <1>6 DEF BasisInv

\* Every step keeps what rows and scores were computed from.
LEMMA BasisStep == BasisInv /\ [StrategyNext]_strategyVars => BasisInv'
<1> SUFFICES ASSUME BasisInv, [StrategyNext]_strategyVars PROVE BasisInv'
  OBVIOUS
<1>1. CASE UNCHANGED tables
  BY <1>1 DEF BasisInv, tables
<1>2. ASSUME NEW p \in Procs2, StoreFeatures(p) PROVE BasisInv'
  BY <1>2, StoreFeaturesKeepsBasis
<1>3. ASSUME NEW p \in Procs2, StoreScores(p) PROVE BasisInv'
  BY <1>3, StoreScoresKeepsBasis
<1>4. QED
  BY <1>1, <1>2, <1>3 DEF StrategyNext, strategyVars, Arrive, NextDay, StartJob, StartHand,
     ReadPrices, ReadLines, ReadLatest, SendAlert, Fail

\* The group scores shown with a strategy score are those of the feature rows of the day,
\* when both were computed from the same reads, whatever runs wrote between them
\* (compute_and_store_features, compute_and_store_strategy_scores).
THEOREM FeaturesAgreeWithScores == StrategySpec => []FeaturesMatchScores
<1>1. BasisInv => FeaturesMatchScores
  <2> SUFFICES ASSUME BasisInv, NEW k \in Symbols \X Days, NEW p \in Profiles,
                      basis[k].features # Missing, basis[k].features = basis[k].scores[p]
               PROVE  scores[<<k[1], k[2], p>>].groups \subseteq features[k]
    BY DEF FeaturesMatchScores
  <2>1. PICK w \in Written(basis[k].features, k[2]) :
          w[1] = k[1] /\ scores[<<k[1], k[2], p>>].groups = w[2]
    BY DEF BasisInv
  <2>2. w[2] \subseteq features[k]
    BY <2>1 DEF BasisInv
  <2>3. QED  BY <2>1, <2>2
<1>2. QED  BY <1>1, BasisFirst, BasisStep, PTL DEF StrategySpec

-----------------------------------------------------------------------------
(* The mails: what a reader of them knows *)

RunFields == {"step", "asOf", "who", "view", "latest", "before", "now"}

Has(k, d) == <<k[1], d, k[2]>> \in DOMAIN scores
GradeOf(k, d) == scores[<<k[1], d, k[2]>>].grade
IsLast(d) == d \in ScoredDays /\ \A e \in ScoredDays : e <= d
IsNew(k, g) == \E d \in Days : IsLast(d) /\ Has(k, d) /\ GradeOf(k, d) = g
IsBefore(d) == d \in ScoredDays /\ d < today /\ \A e \in ScoredDays : e < today => e <= d

\* What is known of a key while it needs no excuse: its newest grade, or, until the job has
\* mailed, the one the job compares with.
Right(k, g) ==
  \/ IsNew(k, g)
  \/ run["job"].step = "latest" /\ \A d \in Days : IsBefore(d) /\ Has(k, d) => g = GradeOf(k, d)
  \/ /\ run["job"].step = "compare"
     /\ \A b, n : b = run["job"].before /\ k \in DOMAIN run["job"].now /\ n = run["job"].now[k]
                  /\ Has(k, b) => IsNew(k, n) /\ g = GradeOf(k, b)
Told(k) == \A g : g = known[k] /\ g # Missing /\ k \notin untold => Right(k, g)

RunsTyped ==
  /\ today \in Days /\ ScoredDays \subseteq 1 .. today
  /\ DOMAIN run = Procs2 /\ DOMAIN known = RowKeys
  /\ \A p \in Procs2 : /\ DOMAIN run[p] = RunFields
                       /\ run[p].step # "idle" => run[p].asOf \in 1 .. today
  /\ run["job"].step # "idle" => run["job"].asOf = today
  /\ run["job"].step \in {"latest", "compare"} => today \in ScoredDays
KnownIsScored ==
  /\ \A k \in RowKeys : known[k] # Missing => \E d \in Days : Has(k, d)
  /\ \A p \in Procs2 : run[p].step = "compare" =>
       \A k \in DOMAIN run[p].now : k \in RowKeys /\ \E d \in Days : Has(k, d)

MailInv == RunsTyped /\ KnownIsScored /\ \A k \in RowKeys : Told(k)

\* A non-empty set of days has a largest one.
LEMMA LargestDay ==
  ASSUME NEW n \in Nat, NEW T, T \subseteq 1 .. n, T # {}
  PROVE  Max(T) \in T /\ \A y \in T : y <= Max(T)
<1> DEFINE U == {n - x : x \in T}  R == OpToRel(<, Nat)
<1>1. IsWellFoundedOn(R, Nat)
  BY NatLessThanWellFounded
<1>2. \A a, b \in Nat : a < b => <<a, b>> \in R
  BY DEF OpToRel
<1>3. U \subseteq Nat /\ U # {}
  <2>1. \A x \in T : n - x \in Nat
    OBVIOUS
  <2>2. QED  BY <2>1
<1> HIDE DEF R
<1>4. PICK u \in U : \A y \in U : ~(<<y, u>> \in R)
  <2> HIDE DEF U
  <2>1. \E x \in U : \A y \in U : ~(<<y, x>> \in R)
    BY <1>1, <1>3, WFMin
  <2>2. QED  BY <2>1
<1>5. PICK m \in T : u = n - m
  OBVIOUS
<1>6. \A y \in T : y <= m
  <2> SUFFICES ASSUME NEW y \in T, ~(y <= m) PROVE FALSE
    OBVIOUS
  <2>1. n - y \in U /\ n - y \in Nat /\ u \in Nat /\ n - y < u
    BY <1>5
  <2>2. QED  BY <1>2, <1>4, <2>1
<1>7. QED  BY <1>6 DEF Max

\* The grades of a day are those of its rows.
LEMMA GradesAre ==
  \A d : /\ DOMAIN Grades(d) = {k \in RowKeys : Has(k, d)}
         /\ \A k \in RowKeys : Has(k, d) => Grades(d)[k] = GradeOf(k, d)
BY DEF Grades, Has, GradeOf

\* A key with a row has its day among the scored ones.
LEMMA HasDay == \A k, d : Has(k, d) => d \in ScoredDays
BY DEF Has, ScoredDays

\* A key with a row has a newest one: that of the last scored day it appears in.
LEMMA NewestIs ==
  ASSUME RunsTyped, NEW k \in RowKeys, \E d \in Days : Has(k, d)
  PROVE  \A g : IsNewest(k, g) <=> IsNew(k, g)
<1>1. ScoredDays # {} /\ today \in Nat /\ ScoredDays \subseteq 1 .. today /\ 1 .. today \subseteq Days
  BY HasDay, AtLeastOneDay DEF RunsTyped, Days
<1>2. Max(ScoredDays) \in ScoredDays /\ \A y \in ScoredDays : y <= Max(ScoredDays)
  BY <1>1, LargestDay
<1>3. IsLast(Max(ScoredDays)) /\ Max(ScoredDays) \in Days
  BY <1>1, <1>2 DEF IsLast
<1>4. \A d : IsLast(d) => d = Max(ScoredDays)
  <2> SUFFICES ASSUME NEW d, IsLast(d) PROVE d = Max(ScoredDays)
    OBVIOUS
  <2>1. d \in ScoredDays /\ Max(ScoredDays) <= d
    BY <1>2 DEF IsLast
  <2> DEFINE m == Max(ScoredDays)
  <2>2. m \in 1 .. today /\ d \in 1 .. today
    BY <1>1, <1>2, <2>1
  <2>3. d <= m /\ m <= d
    BY <1>2, <2>1
  <2> HIDE DEF m
  <2>4. d = m
    BY <1>1, <2>2, <2>3
  <2>5. QED  BY <2>4 DEF m
<1>5. QED  BY <1>3, <1>4, GradesAre DEF IsNewest, Newest, IsNew

-----------------------------------------------------------------------------
(* What the steps of the job and of a command change *)

\* A process begins a step and the other one stays where it is.
LEMMA Begins ==
  ASSUME NEW p \in Procs2, NEW step, NEW asOf, NEW who, Begin(p, step, asOf, who), DOMAIN run = Procs2
  PROVE  /\ DOMAIN run' = Procs2 /\ DOMAIN run'[p] = RunFields
         /\ run'[p].step = step /\ run'[p].asOf = asOf
         /\ \A q \in Procs2 : q # p => run'[q] = run[q]
BY DEF Begin, Idle, RunFields

\* A process ends and the other one stays where it is.
LEMMA Finishes ==
  ASSUME NEW p \in Procs2, Finish(p), DOMAIN run = Procs2
  PROVE  /\ DOMAIN run' = Procs2 /\ DOMAIN run'[p] = RunFields /\ run'[p].step = "idle"
         /\ \A q \in Procs2 : q # p => run'[q] = run[q]
BY DEF Finish, Idle, RunFields

\* A process reads and the other one stays where it is.
LEMMA Reads ==
  ASSUME NEW p \in Procs2, NEW step, NEW view, Read(p, step, view), DOMAIN run = Procs2,
         DOMAIN run[p] = RunFields
  PROVE  /\ DOMAIN run' = Procs2 /\ DOMAIN run'[p] = RunFields
         /\ run'[p].step = step /\ run'[p].asOf = run[p].asOf
         /\ \A q \in Procs2 : q # p => run'[q] = run[q]
BY DEF Read, RunFields

\* Steps that touch neither scores nor mails, and leave the job where it is.
LEMMA MailsStay ==
  ASSUME MailInv, RunsTyped', UNCHANGED <<scores, known>>, today' = today, untold \subseteq untold',
         \/ run'["job"] = run["job"]
         \/ run["job"].step \notin {"latest", "compare"},
         \A q \in Procs2 : run'[q].step = "compare" => run'[q] = run[q]
  PROVE  MailInv'
<1>1. \A k, d : Has(k, d)' = Has(k, d) /\ GradeOf(k, d)' = GradeOf(k, d)
  BY DEF Has, GradeOf
<1>2. KnownIsScored'
  BY <1>1 DEF MailInv, KnownIsScored
<1>3. \A d : IsLast(d)' = IsLast(d) /\ IsBefore(d)' = IsBefore(d)
  BY DEF IsLast, IsBefore, ScoredDays
<1>4. \A k, g : IsNew(k, g)' = IsNew(k, g)
  BY <1>1, <1>3 DEF IsNew
<1>5. ASSUME NEW k, NEW g, Right(k, g) PROVE Right(k, g)'
  BY <1>1, <1>3, <1>4, <1>5 DEF Right
<1>6. ASSUME NEW k \in RowKeys PROVE Told(k)'
  BY <1>5 DEF Told, MailInv
<1>7. QED  BY <1>2, <1>6 DEF MailInv

\* Midnight waits for the job, and moves no mail.
LEMMA NextDayMails == ASSUME MailInv, NextDay PROVE MailInv'
<1>1. UNCHANGED <<scores, known, untold, run>> /\ today' = today + 1 /\ today < LastDay
      /\ run["job"].step = "idle"
  BY DEF NextDay, tables, mails
<1>2. RunsTyped'
  <2>1. today \in Nat \ {0} /\ today' \in Days /\ ScoredDays \subseteq 1 .. today' /\ 1 .. today \subseteq 1 .. today'
    BY <1>1, AtLeastOneDay DEF MailInv, RunsTyped, Days
  <2>2. ScoredDays' = ScoredDays
    BY <1>1 DEF ScoredDays
  <2>3. QED  BY <1>1, <2>1, <2>2 DEF MailInv, RunsTyped
<1>3. \A k, d : Has(k, d)' = Has(k, d) /\ GradeOf(k, d)' = GradeOf(k, d)
  BY <1>1 DEF Has, GradeOf
<1>4. KnownIsScored'
  BY <1>1, <1>3 DEF MailInv, KnownIsScored
<1>5. \A d : IsLast(d)' = IsLast(d)
  BY <1>1 DEF IsLast, ScoredDays
<1>6. \A k, g : Right(k, g) => IsNew(k, g)' /\ Right(k, g)'
  BY <1>1, <1>3, <1>5 DEF IsNew, Right
<1>7. ASSUME NEW k \in RowKeys PROVE Told(k)'
  BY <1>1, <1>6 DEF Told, MailInv
<1>8. QED  BY <1>2, <1>4, <1>7 DEF MailInv

\* A move that stores no score keeps the types.
LEMMA RunsStay ==
  ASSUME RunsTyped, NEW p \in Procs2, UNCHANGED <<today, scores>>, DOMAIN known' = RowKeys,
         DOMAIN run' = Procs2, DOMAIN run'[p] = RunFields,
         \A q \in Procs2 : q # p => run'[q] = run[q],
         run'[p].step # "idle" => run'[p].asOf \in 1 .. today,
         p = "job" => /\ run'[p].step # "idle" => run'[p].asOf = today
                      /\ run'[p].step \in {"latest", "compare"} => today \in ScoredDays
  PROVE  RunsTyped'
<1>1. ScoredDays' = ScoredDays
  BY DEF ScoredDays
<1>2. \A q \in Procs2 : DOMAIN run'[q] = RunFields /\ (run'[q].step # "idle" => run'[q].asOf \in 1 .. today)
  BY DEF RunsTyped
<1>3. /\ run'["job"].step # "idle" => run'["job"].asOf = today
      /\ run'["job"].step \in {"latest", "compare"} => today \in ScoredDays
  BY DEF RunsTyped, Procs2
<1>4. QED  BY <1>1, <1>2, <1>3 DEF RunsTyped

\* A process goes on reading, begins or ends; the job neither begins nor ends its mail.
LEMMA ProcessMoves ==
  ASSUME MailInv, NEW p \in Procs2, UNCHANGED <<today, scores, known>>, untold \subseteq untold',
         DOMAIN run' = Procs2, DOMAIN run'[p] = RunFields,
         \A q \in Procs2 : q # p => run'[q] = run[q],
         run'[p].step # "idle" => run'[p].asOf \in 1 .. today,
         run'[p].step # "compare",
         p = "job" => /\ run'[p].step # "idle" => run'[p].asOf = today
                      /\ {run[p].step, run'[p].step} \cap {"latest", "compare"} = {}
  PROVE  MailInv'
<1>1. DOMAIN known' = RowKeys /\ RunsTyped
  BY DEF MailInv, RunsTyped
<1>2. RunsTyped'
  BY <1>1, RunsStay
<1>3. run'["job"] = run["job"] \/ run["job"].step \notin {"latest", "compare"}
  BY DEF Procs2
<1>4. \A q \in Procs2 : run'[q].step = "compare" => run'[q] = run[q]
  OBVIOUS
<1>5. QED  BY <1>2, <1>3, <1>4, MailsStay

\* A job or a command starts with nothing to mail.
LEMMA StartMails == ASSUME MailInv, StartJob \/ StartHand PROVE MailInv'
<1>1. UNCHANGED <<scores, known, untold, today>> /\ today \in 1 .. today
  BY AtLeastOneDay DEF StartJob, StartHand, tables, mails, MailInv, RunsTyped, Days
<1>2. DOMAIN run = Procs2
  BY DEF MailInv, RunsTyped
<1>3. CASE StartJob
  <2>1. Begin("job", "features", today, Symbols) /\ run["job"].step = "idle" /\ "job" \in Procs2
    BY <1>3 DEF StartJob, Procs2
  <2>2. QED  BY <1>1, <1>2, <2>1, Begins, ProcessMoves
<1>4. CASE StartHand
  <2>1. PICK step, asOf, who :
          /\ step \in {"features", "scores", "latest"} /\ asOf \in 1 .. today
          /\ Begin("hand", step, asOf, who)
    BY <1>1, <1>4 DEF StartHand
  <2>2. "hand" \in Procs2 /\ "hand" # "job"
    BY DEF Procs2
  <2>3. QED  BY <1>1, <1>2, <2>1, <2>2, Begins, ProcessMoves
<1>5. QED  BY <1>3, <1>4

\* Reads of prices and lines.
LEMMA ReadMails ==
  ASSUME MailInv, NEW p \in Procs2, ReadPrices(p) \/ ReadLines(p) PROVE MailInv'
<1>1. UNCHANGED <<scores, known, untold, today>>
  BY DEF ReadPrices, ReadLines, tables, mails
<1>2. PICK step, view : /\ Read(p, step, view)
                        /\ step \in {"features_lines", "scores_lines", "features_store", "scores_store"}
                        /\ run[p].step \notin {"idle", "latest", "compare"}
  BY DEF ReadPrices, ReadLines
<1>3. /\ DOMAIN run = Procs2 /\ DOMAIN run[p] = RunFields /\ run[p].asOf \in 1 .. today
      /\ p = "job" => run[p].asOf = today
  BY <1>2 DEF MailInv, RunsTyped
<1>4. QED  BY <1>1, <1>2, <1>3, Reads, ProcessMoves

\* Storing features stores no grade.
LEMMA StoreFeaturesMails ==
  ASSUME MailInv, NEW p \in Procs2, StoreFeatures(p) PROVE MailInv'
<1>1. UNCHANGED <<scores, known, untold, today>> /\ run[p].step = "features_store"
      /\ IF p = "job" THEN Begin(p, "scores", run[p].asOf, run[p].who) ELSE Finish(p)
  BY DEF StoreFeatures, mails
<1>2. /\ DOMAIN run = Procs2 /\ run[p].asOf \in 1 .. today
      /\ p = "job" => run[p].asOf = today
  BY <1>1 DEF MailInv, RunsTyped
<1>3. QED  BY <1>1, <1>2, Begins, Finishes, ProcessMoves

\* A run that fails between its scores and its mail leaves every key untold.
LEMMA FailMails ==
  ASSUME MailInv, NEW p \in Procs2, Fail(p) PROVE MailInv'
<1>1. /\ UNCHANGED <<scores, known, today>> /\ Finish(p)
      /\ untold' = untold \cup (IF p = "job" /\ run[p].step \in {"latest", "compare"} THEN RowKeys ELSE {})
  BY DEF Fail, tables
<1>2. DOMAIN run = Procs2
  BY DEF MailInv, RunsTyped
<1>3. CASE p = "job" /\ run[p].step \in {"latest", "compare"}
  <2>1. \A k \in RowKeys : Told(k)'
    BY <1>1, <1>3 DEF Told
  <2>2. RunsTyped'
    BY <1>1, <1>2, Finishes, RunsStay DEF MailInv, RunsTyped
  <2>3. KnownIsScored'
    BY <1>1, <1>2, Finishes DEF MailInv, KnownIsScored, Has
  <2>4. QED  BY <2>1, <2>2, <2>3 DEF MailInv
<1>4. CASE ~(p = "job" /\ run[p].step \in {"latest", "compare"})
  BY <1>1, <1>2, <1>4, Finishes, ProcessMoves
<1>5. QED  BY <1>3, <1>4

\* What a transaction of scores does to the rows.
LEMMA RowsStored ==
  ASSUME MailInv, NEW p \in Procs2, StoreScores(p)
  PROVE  \E keys : 
           LET d == run[p].asOf
           IN /\ DOMAIN scores' = DOMAIN scores \cup keys
              /\ \A key \in DOMAIN scores \ keys : scores'[key] = scores[key]
              /\ \A key \in keys : key[2] = d
              /\ \A k \in RowKeys : <<k[1], d, k[2]>> \in keys /\ (p = "hand" \/ Has(k, d)) => k \in untold'
              /\ p = "hand" /\ keys # {} => RowKeys \ untold' \subseteq DOMAIN Newest'
              /\ \/ p = "job" /\ keys # {} /\ Begin(p, "latest", d, {})
                 \/ (p = "hand" \/ keys = {}) /\ Finish(p)
<1> DEFINE d == run[p].asOf  written == ScoreRows(run[p].view, run[p].who, d)
           keys == {r.key : r \in written}
           again == {k \in RowKeys : <<k[1], d, k[2]>> \in keys /\ (p = "hand" \/ k \in DOMAIN Grades(d))}
<1>1. /\ scores' = [k \in DOMAIN scores \cup keys |->
               IF k \in keys THEN CHOOSE r \in written : r.key = k ELSE scores[k]]
      /\ untold' = untold \cup again \cup
           (IF p = "hand" /\ written # {} THEN RowKeys \ DOMAIN Newest' ELSE {})
      /\ IF p = "job" /\ written # {} THEN Begin(p, "latest", d, {}) ELSE Finish(p)
  BY DEF StoreScores
<1>2. \A key \in keys : key[2] = d
  BY RowsOfScores
<1> HIDE DEF written
<1>3. keys = {} <=> written = {}
  OBVIOUS
<1>4. \A k \in RowKeys : <<k[1], d, k[2]>> \in keys /\ (p = "hand" \/ Has(k, d)) => k \in again
  BY GradesAre
<1> HIDE DEF keys, again
<1>5. DOMAIN scores' = DOMAIN scores \cup keys /\ \A key \in DOMAIN scores \ keys : scores'[key] = scores[key]
  BY <1>1
<1>6. p = "hand" /\ keys # {} => RowKeys \ untold' \subseteq DOMAIN Newest'
  BY <1>1, <1>3
<1>7. \/ p = "job" /\ keys # {} /\ Begin(p, "latest", d, {})
      \/ (p = "hand" \/ keys = {}) /\ Finish(p)
  BY <1>1, <1>3 DEF Procs2
<1>8. QED  BY <1>1, <1>2, <1>4, <1>5, <1>6, <1>7

\* Scores stored by hand, or over a day that had some, make their keys untold.
LEMMA StoreScoresMails ==
  ASSUME MailInv, NEW p \in Procs2, StoreScores(p) PROVE MailInv'
<1> DEFINE d == run[p].asOf
<1>1. PICK keys :
        /\ DOMAIN scores' = DOMAIN scores \cup keys
        /\ \A key \in DOMAIN scores \ keys : scores'[key] = scores[key]
        /\ \A key \in keys : key[2] = d
        /\ \A k \in RowKeys : <<k[1], d, k[2]>> \in keys /\ (p = "hand" \/ Has(k, d)) => k \in untold'
        /\ p = "hand" /\ keys # {} => RowKeys \ untold' \subseteq DOMAIN Newest'
        /\ \/ p = "job" /\ keys # {} /\ Begin(p, "latest", d, {})
           \/ (p = "hand" \/ keys = {}) /\ Finish(p)
  BY RowsStored
<1>2. UNCHANGED <<today, known>> /\ run[p].step = "scores_store" /\ untold \subseteq untold'
  BY DEF StoreScores
<1>3. /\ RunsTyped /\ KnownIsScored /\ DOMAIN run = Procs2 /\ d \in 1 .. today /\ today \in Days
      /\ p = "job" => d = today
      /\ today \in Nat /\ 1 .. today \subseteq Days /\ ScoredDays \subseteq 1 .. today
  BY <1>2, AtLeastOneDay DEF MailInv, RunsTyped, Days
<1>4. ScoredDays' = IF keys = {} THEN ScoredDays ELSE ScoredDays \cup {d}
  BY <1>1 DEF ScoredDays
<1>5. /\ DOMAIN run' = Procs2 /\ DOMAIN run'[p] = RunFields
      /\ \A q \in Procs2 : q # p => run'[q] = run[q]
      /\ run'[p].step # "idle" => run'[p].asOf = d
      /\ \/ p = "job" /\ keys # {} /\ run'[p].step = "latest"
         \/ (p = "hand" \/ keys = {}) /\ run'[p].step = "idle"
  BY <1>1, <1>3, Begins, Finishes
<1> HIDE DEF d
<1>6. RunsTyped'
  <2>1. ScoredDays' \subseteq 1 .. today
    BY <1>3, <1>4
  <2>2. run'["job"].step \in {"latest", "compare"} => today \in ScoredDays'
    BY <1>3, <1>4, <1>5 DEF RunsTyped, Procs2
  <2>3. run'["job"].step # "idle" => run'["job"].asOf = today
    BY <1>3, <1>5 DEF RunsTyped, Procs2
  <2>4. \A q \in Procs2 : DOMAIN run'[q] = RunFields /\ (run'[q].step # "idle" => run'[q].asOf \in 1 .. today)
    BY <1>3, <1>5 DEF RunsTyped
  <2>5. DOMAIN known' = RowKeys
    BY <1>2, <1>3 DEF RunsTyped
  <2>6. QED  BY <1>2, <1>3, <1>5, <2>1, <2>2, <2>3, <2>4, <2>5 DEF RunsTyped
<1>7. \A k, e : Has(k, e) => Has(k, e)'
  BY <1>1 DEF Has
<1>8. KnownIsScored'
  BY <1>2, <1>3, <1>5, <1>7 DEF KnownIsScored
<1>9. ASSUME NEW k \in RowKeys, <<k[1], d, k[2]>> \notin keys
      PROVE  \A e : Has(k, e)' = Has(k, e) /\ (Has(k, e) => GradeOf(k, e)' = GradeOf(k, e))
  <2> SUFFICES ASSUME NEW e
               PROVE  Has(k, e)' = Has(k, e) /\ (Has(k, e) => GradeOf(k, e)' = GradeOf(k, e))
    OBVIOUS
  <2>1. <<k[1], e, k[2]>> \notin keys
    BY <1>1, <1>9
  <2>2. QED  BY <1>1, <2>1 DEF Has, GradeOf
<1>10. ASSUME NEW k \in RowKeys, k \notin untold', p = "hand" PROVE <<k[1], d, k[2]>> \notin keys
  BY <1>1, <1>10
<1>11. ASSUME NEW k \in RowKeys, k \notin untold', p = "hand", NEW g, IsNew(k, g) PROVE IsNew(k, g)'
  <2>1. PICK m \in Days : IsLast(m) /\ Has(k, m) /\ GradeOf(k, m) = g
    BY <1>11 DEF IsNew
  <2>2. Has(k, m)' /\ GradeOf(k, m)' = g
    BY <1>9, <1>10, <1>11, <2>1
  <2>3. CASE keys = {}
    <3>1. IsLast(m)'
      BY <1>4, <2>1, <2>3 DEF IsLast
    <3>2. QED  BY <2>2, <3>1 DEF IsNew
  <2>4. CASE keys # {}
    <3>1. k \in DOMAIN Newest'
      BY <1>1, <1>11, <2>4
    <3>2. PICK x : x = Max(ScoredDays')
      OBVIOUS
    <3>3. Has(k, x)'
      <4>1. \A y : DOMAIN Grades(y)' = {q \in RowKeys : Has(q, y)'}
        BY DEF Grades, Has
      <4>2. Newest' = Grades(x)'
        BY <3>2 DEF Newest, Grades
      <4>3. QED  BY <3>1, <4>1, <4>2
    <3>4. x \in ScoredDays' /\ \A y \in ScoredDays' : y <= x
      <4>1. ScoredDays' \subseteq 1 .. today /\ ScoredDays' # {}
        BY <1>3, <1>4, <2>4
      <4>2. QED  BY <1>3, <3>2, <4>1, LargestDay
    <3>5. Has(k, x) /\ x \in ScoredDays
      BY <1>9, <1>10, <1>11, <3>3, HasDay
    <3>6. x <= m /\ m \in ScoredDays /\ m \in ScoredDays'
      BY <1>4, <2>1, <3>5 DEF IsLast
    <3>7. m <= x /\ x \in Int /\ m \in Int
      BY <1>3, <3>4, <3>5, <3>6
    <3>8. x = m
      BY <3>6, <3>7
    <3>9. IsLast(m)'
      BY <3>4, <3>8 DEF IsLast
    <3>10. QED  BY <2>2, <3>9 DEF IsNew
  <2>5. QED  BY <2>3, <2>4
<1>12. ASSUME NEW e, IsBefore(e)', e \in ScoredDays PROVE IsBefore(e)
  BY <1>2, <1>4, <1>12 DEF IsBefore
<1>13. ASSUME NEW k \in RowKeys PROVE Told(k)'
  <2> SUFFICES ASSUME NEW g, g = known[k], g # Missing, k \notin untold' PROVE Right(k, g)'
    BY <1>2 DEF Told
  <2>1. Right(k, g)
    BY <1>2, <1>13 DEF Told, MailInv
  <2>2. CASE p = "hand"
    <3>1. run'["job"] = run["job"]
      BY <1>5, <2>2 DEF Procs2
    <3>2. \A h : IsNew(k, h) => IsNew(k, h)'
      BY <1>11, <2>2
    <3>3. \A e : Has(k, e)' = Has(k, e) /\ (Has(k, e) => GradeOf(k, e)' = GradeOf(k, e))
      BY <1>9, <1>10, <2>2
    <3>4. \A e : IsBefore(e)' /\ Has(k, e)' => IsBefore(e) /\ Has(k, e)
      BY <1>12, <3>3, HasDay
    <3>5. CASE IsNew(k, g)
      BY <3>2, <3>5 DEF Right
    <3>6. CASE run["job"].step = "latest" /\ \A e \in Days : IsBefore(e) /\ Has(k, e) => g = GradeOf(k, e)
      BY <3>1, <3>3, <3>4, <3>6 DEF Right
    <3>7. CASE /\ run["job"].step = "compare"
               /\ \A b, n : b = run["job"].before /\ k \in DOMAIN run["job"].now /\ n = run["job"].now[k]
                            /\ Has(k, b) => IsNew(k, n) /\ g = GradeOf(k, b)
      BY <3>1, <3>2, <3>3, <3>7 DEF Right
    <3>8. QED  BY <2>1, <3>5, <3>6, <3>7 DEF Right
  <2>3. CASE p = "job"
    <3>1. PICK m \in Days : IsLast(m) /\ Has(k, m) /\ GradeOf(k, m) = g
      BY <1>2, <2>1, <2>3 DEF Right, IsNew
    <3>2. m \in ScoredDays /\ m \in Int /\ m <= today /\ d = today
      BY <1>3, <2>3, <3>1 DEF IsLast
    <3>3. CASE <<k[1], d, k[2]>> \notin keys /\ (m = today \/ keys = {})
      <4>1. IsLast(m)'
        BY <1>4, <3>1, <3>2, <3>3 DEF IsLast
      <4>2. Has(k, m)' /\ GradeOf(k, m)' = g
        BY <1>9, <3>1, <3>3
      <4>3. QED  BY <4>1, <4>2 DEF Right, IsNew
    <3>4. CASE keys # {} /\ m # today
      <4>1. run'["job"].step = "latest"
        BY <1>5, <2>3, <3>4
      <4>2. ASSUME NEW e \in Days, IsBefore(e)', Has(k, e)' PROVE g = GradeOf(k, e)'
        <5>1. e \in ScoredDays' /\ e < today /\ m < today
          <6>1. e \in ScoredDays' /\ e < today
            BY <1>2, <4>2 DEF IsBefore
          <6>2. m < today
            BY <1>3, <3>2, <3>4
          <6>3. QED  BY <6>1, <6>2
        <5>2. e \in ScoredDays /\ e \in Int
          BY <1>3, <1>4, <3>2, <5>1
        <5>3. e <= m
          BY <3>1, <5>2 DEF IsLast
        <5>4. m <= e
          BY <1>2, <1>4, <3>2, <4>2, <5>1 DEF IsBefore
        <5>5. e = m
          BY <3>2, <5>2, <5>3, <5>4
        <5>6. <<k[1], m, k[2]>> \notin keys
          BY <1>1, <3>2, <3>4
        <5>7. GradeOf(k, m)' = GradeOf(k, m)
          BY <1>1, <3>1, <5>6 DEF Has, GradeOf
        <5>8. QED  BY <3>1, <5>5, <5>7
      <4>3. QED  BY <4>1, <4>2 DEF Right
    <3>5. CASE <<k[1], d, k[2]>> \in keys /\ m = today
      BY <1>1, <3>1, <3>2, <3>5
    <3>6. QED  BY <3>3, <3>4, <3>5
  <2>4. QED  BY <2>2, <2>3 DEF Procs2
<1>14. QED  BY <1>6, <1>8, <1>13 DEF MailInv

\* The two newest days.
LEMMA TwoNewest ==
  ASSUME RunsTyped, NEW d, d = Max(ScoredDays), ScoredDays # {}, ScoredDays \ {d} # {}, today \in ScoredDays
  PROVE  /\ d = today /\ Max(ScoredDays \ {d}) \in Days
         /\ IsBefore(Max(ScoredDays \ {d}))
<1>1. ScoredDays \subseteq 1 .. today /\ today \in Nat /\ 1 .. today \subseteq Days
  BY AtLeastOneDay DEF RunsTyped, Days
<1>2. d \in ScoredDays /\ \A y \in ScoredDays : y <= d
  BY <1>1, LargestDay
<1>3. d = today
  BY <1>1, <1>2
<1> DEFINE b == Max(ScoredDays \ {d})
<1>4. b \in ScoredDays \ {d} /\ \A y \in ScoredDays \ {d} : y <= b
  BY <1>1, LargestDay
<1> HIDE DEF b
<1>5. b \in ScoredDays /\ b < today /\ \A e \in ScoredDays : e < today => e <= b
  <2>1. b \in 1 .. today /\ b # today
    BY <1>1, <1>3, <1>4
  <2>2. b < today
    BY <1>1, <2>1
  <2>3. ASSUME NEW e \in ScoredDays, e < today PROVE e <= b
    BY <1>1, <1>3, <1>4, <2>3
  <2>4. QED  BY <1>4, <2>2, <2>3
<1>6. QED  BY <1>1, <1>3, <1>5 DEF IsBefore, b

\* The comparison takes the two newest days of the table as it is now.
LEMMA ReadLatestMails ==
  ASSUME MailInv, NEW p \in Procs2, ReadLatest(p) PROVE MailInv'
<1> DEFINE latest == Max(ScoredDays)  before == ScoredDays \ {latest}
           alone == Cardinality(ScoredDays) = 1
<1>1. /\ UNCHANGED <<scores, untold, today>> /\ run[p].step = "latest"
      /\ IF ScoredDays = {} \/ before = {} THEN Finish(p)
         ELSE run' = [run EXCEPT ![p].step = "compare", ![p].latest = latest,
                                 ![p].before = Max(before), ![p].now = Grades(latest)]
      /\ known' = IF alone
                  THEN [k \in RowKeys |-> IF k \in DOMAIN Newest THEN Newest[k] ELSE known[k]]
                  ELSE known
  BY DEF ReadLatest, tables
<1>2. /\ RunsTyped /\ KnownIsScored /\ DOMAIN run = Procs2 /\ DOMAIN run[p] = RunFields
      /\ run[p].asOf \in 1 .. today /\ DOMAIN known = RowKeys
      /\ p = "job" => run[p].asOf = today /\ today \in ScoredDays
  BY <1>1 DEF MailInv, RunsTyped
<1>3. alone => ScoredDays # {} /\ before = {}
  <2>1. ASSUME alone PROVE \E x : ScoredDays = {x}
    <3>1. today \in Nat /\ ScoredDays \subseteq 1 .. today
      BY <1>2, AtLeastOneDay DEF RunsTyped, Days
    <3>2. IsFiniteSet(ScoredDays)
      <4>1. IsFiniteSet(1 .. today)
        BY <3>1, FS_Interval
      <4>2. QED  BY <3>1, <4>1, FS_Subset
    <3>3. QED  BY <2>1, <3>2, FS_Singleton
  <2>2. ASSUME alone PROVE ScoredDays # {} /\ before = {}
    <3>1. PICK x : ScoredDays = {x}
      BY <2>1, <2>2
    <3>2. today \in Nat /\ ScoredDays \subseteq 1 .. today
      BY <1>2, AtLeastOneDay DEF RunsTyped, Days
    <3>3. latest \in ScoredDays
      BY <3>1, <3>2, LargestDay
    <3>4. QED  BY <3>1, <3>3
  <2>3. QED  BY <2>2
<1>4. ScoredDays # {} /\ before = {} => alone
  <2>1. ASSUME ScoredDays # {}, before = {} PROVE ScoredDays = {latest}
    BY <2>1
  <2>2. QED  BY <2>1, FS_Singleton
<1>5. \A k, e : Has(k, e)' = Has(k, e) /\ GradeOf(k, e)' = GradeOf(k, e)
  BY <1>1 DEF Has, GradeOf
<1>6. \A e : IsLast(e)' = IsLast(e) /\ IsBefore(e)' = IsBefore(e)
  BY <1>1 DEF IsLast, IsBefore, ScoredDays
<1>7. \A k, g : IsNew(k, g)' = IsNew(k, g)
  BY <1>5, <1>6 DEF IsNew
<1>8. DOMAIN known' = RowKeys
  BY <1>1, <1>2
<1>9. CASE ScoredDays = {} \/ before = {}
  <2>1. Finish(p)
    BY <1>1, <1>9
  <2>2. /\ DOMAIN run' = Procs2 /\ DOMAIN run'[p] = RunFields /\ run'[p].step = "idle"
        /\ \A q \in Procs2 : q # p => run'[q] = run[q]
    BY <1>2, <2>1, Finishes
  <2>3. RunsTyped'
    BY <1>1, <1>2, <1>8, <2>2, RunsStay
  <2>4. ASSUME NEW k \in RowKeys, known'[k] # Missing PROVE IsNew(k, known'[k])
    <3>1. \E e \in Days : Has(k, e)
      <4>1. known[k] # Missing \/ (alone /\ k \in DOMAIN Newest)
        BY <1>1, <2>4
      <4>2. alone /\ k \in DOMAIN Newest => \E e \in Days : Has(k, e)
        <5>1. ScoredDays \subseteq Days
          BY <1>2, AtLeastOneDay DEF RunsTyped, Days
        <5>2. QED  BY <5>1, GradesAre, HasDay DEF Newest
      <4>3. QED  BY <1>2, <4>1, <4>2 DEF KnownIsScored
    <3>2. ScoredDays # {} /\ alone
      BY <1>4, <1>9, <3>1, HasDay
    <3>3. PICK e \in Days : Has(k, e)
      BY <3>1
    <3>4. e = latest
      BY <1>3, <3>2, <3>3, HasDay
    <3>5. k \in DOMAIN Newest
      BY <3>3, <3>4, GradesAre DEF Newest
    <3>6. known'[k] = Newest[k]
      BY <1>1, <3>2, <3>5
    <3>7. IsNewest(k, known'[k])
      BY <3>5, <3>6 DEF IsNewest
    <3>8. QED  BY <1>2, <3>1, <3>7, NewestIs
  <2>5. KnownIsScored'
    <3>1. \A k \in RowKeys : known'[k] # Missing => \E e \in Days : Has(k, e)'
      BY <1>5, <2>4 DEF IsNew
    <3>2. \A q \in Procs2 : run'[q].step = "compare" => run'[q] = run[q]
      BY <2>2
    <3>3. QED  BY <1>2, <1>5, <3>1, <3>2 DEF KnownIsScored
  <2>6. ASSUME NEW k \in RowKeys PROVE Told(k)'
    BY <1>7, <2>4 DEF Told, Right
  <2>7. QED  BY <2>3, <2>5, <2>6 DEF MailInv
<1>10. CASE ~(ScoredDays = {} \/ before = {})
  <2> DEFINE b == Max(before)  now == Grades(latest)
  <2>1. run' = [run EXCEPT ![p].step = "compare", ![p].latest = latest, ![p].before = b, ![p].now = now]
        /\ known' = known
    BY <1>1, <1>3, <1>10
  <2> HIDE DEF b, now, latest, before
  <2>2. /\ DOMAIN run' = Procs2 /\ DOMAIN run'[p] = RunFields /\ run'[p].step = "compare"
        /\ run'[p].asOf = run[p].asOf /\ run'[p].before = b /\ run'[p].now = now
        /\ \A q \in Procs2 : q # p => run'[q] = run[q]
    BY <1>2, <2>1 DEF RunFields
  <2>3. RunsTyped'
    BY <1>1, <1>2, <1>8, <2>2, RunsStay
  <2>4. DOMAIN now = {k \in RowKeys : Has(k, latest)} /\ \A k \in DOMAIN now : now[k] = GradeOf(k, latest)
    BY GradesAre DEF now
  <2>5. latest \in Days
    <3>1. today \in Nat /\ ScoredDays \subseteq 1 .. today /\ 1 .. today \subseteq Days
      BY <1>2, AtLeastOneDay DEF RunsTyped, Days
    <3>2. QED  BY <1>10, <3>1, LargestDay DEF latest
  <2>6. KnownIsScored'
    <3>1. \A k \in RowKeys : known'[k] # Missing => \E e \in Days : Has(k, e)'
      BY <1>2, <1>5, <2>1 DEF KnownIsScored
    <3>2. \A k \in DOMAIN now : k \in RowKeys /\ \E e \in Days : Has(k, e)'
      BY <1>5, <2>4, <2>5
    <3>3. \A q \in Procs2 \ {p} : run'[q].step = "compare" =>
            \A k \in DOMAIN run'[q].now : k \in RowKeys /\ \E e \in Days : Has(k, e)'
      BY <1>2, <1>5, <2>2 DEF KnownIsScored
    <3>4. QED  BY <2>2, <3>1, <3>2, <3>3 DEF KnownIsScored
  <2>7. ASSUME NEW k \in RowKeys PROVE Told(k)'
    <3> SUFFICES ASSUME NEW g, g = known[k], g # Missing, k \notin untold PROVE Right(k, g)'
      BY <1>1, <2>1 DEF Told
    <3>1. Right(k, g)
      BY DEF Told, MailInv
    <3>2. CASE p = "hand"
      <4>1. run'["job"] = run["job"]
        BY <2>2, <3>2 DEF Procs2
      <4>2. QED  BY <1>5, <1>6, <1>7, <3>1, <4>1 DEF Right
    <3>3. CASE p = "job"
      <4>1. latest = today /\ b \in Days /\ IsBefore(b)
        BY <1>2, <1>10, <3>3, TwoNewest DEF latest, before, b
      <4>2. CASE IsNew(k, g)
        BY <1>7, <4>2 DEF Right
      <4>3. CASE \A e \in Days : IsBefore(e) /\ Has(k, e) => g = GradeOf(k, e)
        <5>1. ASSUME NEW n, k \in DOMAIN now, n = now[k], Has(k, b)
              PROVE  IsNew(k, n) /\ g = GradeOf(k, b)
          <6>1. Has(k, today) /\ n = GradeOf(k, today)
            BY <2>4, <4>1, <5>1
          <6>2. IsLast(today) /\ today \in Days
            <7>1. today \in ScoredDays /\ today \in Days /\ ScoredDays \subseteq 1 .. today
              BY <1>2, <3>3 DEF RunsTyped
            <7>2. QED  BY <7>1 DEF IsLast
          <6>3. QED  BY <4>1, <4>3, <5>1, <6>1, <6>2 DEF IsNew
        <5>2. QED  BY <1>5, <1>7, <2>2, <3>3, <5>1 DEF Right
      <4>4. QED  BY <1>1, <3>1, <3>3, <4>2, <4>3 DEF Right
    <3>4. QED  BY <3>2, <3>3 DEF Procs2
  <2>8. QED  BY <2>3, <2>6, <2>7 DEF MailInv
<1>11. QED  BY <1>9, <1>10

\* A mail tells every change of the comparison, or is lost and leaves them untold.
LEMMA SendAlertMails ==
  ASSUME MailInv, NEW p \in Procs2, SendAlert(p) PROVE MailInv'
<1> DEFINE now == run[p].now  old == Grades(run[p].before)  changed == ChangedKeys(now, old)
           news == {k \in DOMAIN now : known[k] = Missing}
<1>1. /\ run[p].step = "compare" /\ Finish(p) /\ UNCHANGED <<scores, today>>
      /\ \E told \in {changed, {}} :
           /\ known' = [k \in RowKeys |-> IF k \in told \cup news THEN now[k] ELSE known[k]]
           /\ untold' = (untold \ told) \cup (changed \ told)
                          \cup {k \in told \cup news : ~IsNewest(k, now[k])}
                          \cup (RowKeys \ (DOMAIN now \cap DOMAIN old))
  BY DEF SendAlert, tables
<1>2. PICK told \in {changed, {}} :
           /\ known' = [k \in RowKeys |-> IF k \in told \cup news THEN now[k] ELSE known[k]]
           /\ untold' = (untold \ told) \cup (changed \ told)
                          \cup {k \in told \cup news : ~IsNewest(k, now[k])}
                          \cup (RowKeys \ (DOMAIN now \cap DOMAIN old))
  BY <1>1
<1>3. /\ RunsTyped /\ KnownIsScored /\ DOMAIN run = Procs2
      /\ \A k \in DOMAIN now : k \in RowKeys /\ \E e \in Days : Has(k, e)
  BY <1>1 DEF MailInv, RunsTyped, KnownIsScored
<1>4. /\ DOMAIN run' = Procs2 /\ DOMAIN run'[p] = RunFields /\ run'[p].step = "idle"
      /\ \A q \in Procs2 : q # p => run'[q] = run[q]
  BY <1>1, <1>3, Finishes
<1>5. \A k \in DOMAIN now \cap DOMAIN old : k \notin changed => now[k] = old[k]
  BY DEF ChangedKeys
<1>6. told \subseteq DOMAIN now
  BY DEF ChangedKeys
<1>7. \A k \in DOMAIN old : k \in RowKeys /\ Has(k, run[p].before) /\ old[k] = GradeOf(k, run[p].before)
  BY GradesAre
<1> HIDE DEF changed, old, now
<1>8. \A k, e : Has(k, e)' = Has(k, e) /\ GradeOf(k, e)' = GradeOf(k, e)
  BY <1>1 DEF Has, GradeOf
<1>9. \A k, g : IsNew(k, g)' = IsNew(k, g)
  <2>1. \A e : IsLast(e)' = IsLast(e)
    BY <1>1 DEF IsLast, ScoredDays
  <2>2. QED  BY <1>8, <2>1 DEF IsNew
<1>10. RunsTyped'
  BY <1>1, <1>2, <1>3, <1>4, RunsStay
<1>11. KnownIsScored'
  <2>1. \A k \in RowKeys : known'[k] # Missing => \E e \in Days : Has(k, e)'
    <3> SUFFICES ASSUME NEW k \in RowKeys, known'[k] # Missing PROVE \E e \in Days : Has(k, e)
      BY <1>8
    <3>1. CASE k \in told \cup news
      BY <1>3, <1>6, <3>1
    <3>2. CASE k \notin told \cup news
      <4>1. known[k] # Missing
        BY <1>2, <3>2
      <4>2. QED  BY <1>3, <4>1 DEF KnownIsScored
    <3>3. QED  BY <3>1, <3>2
  <2>2. \A q \in Procs2 : run'[q].step = "compare" => run'[q] = run[q]
    BY <1>4
  <2>3. QED  BY <1>3, <1>8, <2>1, <2>2 DEF KnownIsScored
<1>12. ASSUME NEW k \in RowKeys PROVE Told(k)'
  <2> SUFFICES ASSUME NEW g, g = known'[k], g # Missing, k \notin untold' PROVE Right(k, g)'
    BY DEF Told
  <2>1. k \in DOMAIN now /\ k \in DOMAIN old
    BY <1>2
  <2>2. CASE k \in told \cup news
    <3>1. IsNewest(k, g)
      BY <1>2, <2>2
    <3>2. IsNew(k, g)
      BY <1>3, <2>1, <3>1, NewestIs
    <3>3. QED  BY <1>9, <3>2 DEF Right
  <2>3. CASE k \notin told \cup news
    <3>1. g = known[k] /\ k \notin untold /\ k \notin changed
      BY <1>2, <2>3
    <3>2. Right(k, g)
      BY <3>1 DEF MailInv, Told
    <3>3. CASE p = "hand"
      <4>1. run'["job"] = run["job"]
        BY <1>4, <3>3 DEF Procs2
      <4>2. \A e : IsBefore(e)' = IsBefore(e)
        BY <1>1 DEF IsBefore, ScoredDays
      <4>3. QED  BY <1>8, <1>9, <3>2, <4>1, <4>2 DEF Right
    <3>4. CASE p = "job"
      <4>1. IsNew(k, g)
        <5>1. CASE IsNew(k, g)
          BY <5>1
        <5>2. CASE \A b, n : b = run["job"].before /\ k \in DOMAIN run["job"].now /\ n = run["job"].now[k]
                              /\ Has(k, b) => IsNew(k, n) /\ g = GradeOf(k, b)
          <6>1. IsNew(k, now[k]) /\ g = GradeOf(k, run[p].before)
            BY <1>7, <2>1, <3>4, <5>2 DEF now
          <6>2. g = now[k]
            BY <1>5, <1>7, <2>1, <3>1, <6>1
          <6>3. QED  BY <6>1, <6>2
        <5>3. QED  BY <1>1, <3>2, <3>4, <5>1, <5>2 DEF Right
      <4>2. QED  BY <1>9, <4>1 DEF Right
    <3>5. QED  BY <3>3, <3>4 DEF Procs2
  <2>4. QED  BY <2>2, <2>3
<1>13. QED  BY <1>10, <1>11, <1>12 DEF MailInv

\* Nothing is known of an empty table.
LEMMA MailFirst == ASSUME StrategyInit PROVE MailInv
<1>1. today \in Days /\ ScoredDays = {}
  BY AtLeastOneDay DEF StrategyInit, ScoredDays, Days
<1>2. DOMAIN known = RowKeys /\ \A k \in RowKeys : known[k] = Missing
  BY DEF StrategyInit
<1>3. /\ DOMAIN run = Procs2
      /\ \A p \in Procs2 : DOMAIN run[p] = RunFields /\ run[p].step = "idle"
  BY DEF StrategyInit, Idle, RunFields
<1>4. "job" \in Procs2
  BY DEF Procs2
<1>5. RunsTyped
  BY <1>1, <1>2, <1>3, <1>4 DEF RunsTyped
<1>6. KnownIsScored
  BY <1>2, <1>3 DEF KnownIsScored
<1>7. QED  BY <1>2, <1>5, <1>6 DEF MailInv, Told

\* Every step keeps what a reader of the mails knows.
LEMMA MailStep == ASSUME MailInv, [StrategyNext]_strategyVars PROVE MailInv'
<1>1. ASSUME UNCHANGED <<scores, known, untold, today, run>> PROVE MailInv'
  <2>1. RunsTyped'
    BY <1>1 DEF MailInv, RunsTyped, ScoredDays
  <2>2. QED  BY <1>1, <2>1, MailsStay
<1>2. CASE Arrive
  BY <1>1, <1>2 DEF Arrive, tables, mails
<1>3. CASE UNCHANGED strategyVars
  BY <1>1, <1>3 DEF strategyVars, tables, mails
<1>4. CASE NextDay
  BY <1>4, NextDayMails
<1>5. CASE StartJob \/ StartHand
  BY <1>5, StartMails
<1>6. ASSUME NEW p \in Procs2,
             \/ ReadPrices(p) \/ ReadLines(p) \/ StoreFeatures(p) \/ StoreScores(p)
             \/ ReadLatest(p) \/ SendAlert(p) \/ Fail(p)
      PROVE  MailInv'
  BY <1>6, ReadMails, StoreFeaturesMails, StoreScoresMails, ReadLatestMails, SendAlertMails,
     FailMails
<1>7. QED  BY <1>2, <1>3, <1>4, <1>5, <1>6 DEF StrategyNext

\* A reader who keeps to the mails of signal changes knows the newest grade of every key but
\* the ones the property names, whatever the commands by hand store or mail meanwhile
\* (detect_strategy_signal_changes, the mail of the 17:00 job).
THEOREM MailsKeepUp == StrategySpec => []AlertsKeepUp
<1>1. StrategyInit => MailInv
  BY MailFirst
<1>2. MailInv /\ [StrategyNext]_strategyVars => MailInv'
  BY MailStep
<1>3. MailInv => AlertsKeepUp
  <2> SUFFICES ASSUME MailInv, NEW k \in RowKeys, run["job"].step \notin {"latest", "compare"},
                      known[k] # Missing, k \notin untold
               PROVE  IsNewest(k, known[k])
    BY DEF AlertsKeepUp
  <2>1. IsNew(k, known[k])
    BY DEF MailInv, Told, Right
  <2>2. RunsTyped /\ \E d \in Days : Has(k, d)
    BY DEF MailInv, KnownIsScored
  <2>3. QED  BY <2>1, <2>2, NewestIs
<1>4. QED  BY <1>1, <1>2, <1>3, PTL DEF StrategySpec

-----------------------------------------------------------------------------
(* The adapters: what they hand on is what the vendor reported *)

\* What holds of 0, and of n + 1 when it holds of n, holds of every natural number.
LEMMA CountingUp ==
  ASSUME NEW G, 0 \in G, \A n \in Nat : n \in G => n + 1 \in G
  PROVE  Nat \subseteq G
<1> DEFINE R == OpToRel(<, Nat)
           B == {n \in Nat : n \notin G}
<1>1. IsWellFoundedOn(R, Nat)
  BY NatLessThanWellFounded
<1>2. \A a, b \in Nat : a < b => <<a, b>> \in R
  BY DEF OpToRel
<1> HIDE DEF R
<1> SUFFICES ASSUME B # {} PROVE FALSE
  OBVIOUS
<1>3. B \subseteq Nat
  OBVIOUS
<1>4. \E n \in B : \A m \in B : ~(<<m, n>> \in R)
  <2> HIDE DEF B
  <2>1. QED  BY <1>1, <1>3, WFMin
<1>5. PICK n \in B : \A m \in B : ~(<<m, n>> \in R)
  BY <1>4
<1>6. n # 0 /\ n \in Nat
  OBVIOUS
<1>7. n - 1 \in Nat /\ n - 1 < n /\ (n - 1) + 1 = n
  BY <1>6
<1>8. n - 1 \notin B
  BY <1>2, <1>5, <1>6, <1>7
<1>9. QED  BY <1>7, <1>8

\* What holds of the empty set, and of a set when it holds of it without any one of its
\* elements, holds of every subset of a finite set.
LEMMA Growing ==
  ASSUME NEW D, IsFiniteSet(D), NEW G, {} \in G,
         \A s \in SUBSET D : s # {} /\ (\A x \in s : s \ {x} \in G) => s \in G
  PROVE  SUBSET D \subseteq G
<1> DEFINE B == {s \in SUBSET D : s \notin G}
<1> SUFFICES ASSUME B # {} PROVE FALSE
  OBVIOUS
<1>1. IsWellFoundedOn(StrictSubsetOrdering(D), FiniteSubsetsOf(D))
  BY FS_StrictSubsetOrderingWellFounded
<1>2. B \subseteq FiniteSubsetsOf(D)
  BY FS_Subset DEF FiniteSubsetsOf
<1>3. \E s \in B : \A t \in B : ~(<<t, s>> \in StrictSubsetOrdering(D))
  <2> HIDE DEF B
  <2>1. QED  BY <1>1, <1>2, WFMin
<1>4. PICK s \in B : \A t \in B : ~(<<t, s>> \in StrictSubsetOrdering(D))
  BY <1>3
<1>5. s \in SUBSET D /\ s # {} /\ s \notin G
  OBVIOUS
<1>6. ASSUME NEW x \in s PROVE s \ {x} \in G
  <2>1. <<s \ {x}, s>> \in StrictSubsetOrdering(D)
    BY <1>5 DEF StrictSubsetOrdering
  <2>2. QED  BY <1>4, <1>5, <2>1
<1>7. QED  BY <1>5, <1>6

Pick(s) == CHOOSE x \in s : TRUE

\* h is defined by recursion on the subsets of D.
Recursion(h, g, base, D, V) ==
  /\ h \in [SUBSET D -> V] /\ h[{}] = base
  /\ \A s \in SUBSET D : s # {} => h[s] = g[<<Pick(s), h[s \ {Pick(s)}]>>]

\* A recursion on finite sets has a solution: it is extended from sets of n elements.
LEMMA FoldExists ==
  ASSUME NEW D, IsFiniteSet(D), NEW V, NEW base \in V, NEW g \in [D \X V -> V]
  PROVE  \E h : Recursion(h, g, base, D, V)
<1> DEFINE Upto(h, n) ==
             /\ h \in [SUBSET D -> V] /\ h[{}] = base
             /\ \A s \in SUBSET D : s # {} /\ Cardinality(s) <= n =>
                  h[s] = g[<<Pick(s), h[s \ {Pick(s)}]>>]
           G == {n \in Nat : \E h : Upto(h, n)}
<1>1. \A s \in SUBSET D : s # {} => Pick(s) \in s
  BY DEF Pick
<1>2. \A s \in SUBSET D : IsFiniteSet(s) /\ Cardinality(s) \in Nat
  BY FS_Subset, FS_CardinalityType
<1>3. \A s \in SUBSET D : s # {} => Cardinality(s \ {Pick(s)}) = Cardinality(s) - 1
  BY <1>1, <1>2, FS_RemoveElement
<1>4. \A s \in SUBSET D : s # {} => Cardinality(s) > 0
  BY <1>2, FS_EmptySet
<1>5. 0 \in G
  <2> DEFINE z == [s \in SUBSET D |-> base]
  <2>1. Upto(z, 0)
    BY <1>2, <1>4
  <2>2. QED  BY <2>1, ZenonT(40)
<1>6. ASSUME NEW n \in Nat, n \in G PROVE n + 1 \in G
  <2>1. PICK h : Upto(h, n)
    BY <1>6
  <2> DEFINE k == [s \in SUBSET D |-> IF Cardinality(s) <= n THEN h[s]
                                      ELSE g[<<Pick(s), h[s \ {Pick(s)}]>>]]
  <2>2. k \in [SUBSET D -> V]
    <3>1. \A s \in SUBSET D : ~(Cardinality(s) <= n) => s # {}
      BY FS_EmptySet
    <3>2. \A s \in SUBSET D : s # {} => <<Pick(s), h[s \ {Pick(s)}]>> \in D \X V
      BY <1>1, <2>1
    <3>3. QED  BY <2>1, <3>1, <3>2
  <2>3. k[{}] = base
    BY <2>1, FS_EmptySet
  <2>4. ASSUME NEW s \in SUBSET D, s # {}, Cardinality(s) <= n + 1
        PROVE  k[s] = g[<<Pick(s), k[s \ {Pick(s)}]>>]
    <3>1. Cardinality(s \ {Pick(s)}) <= n /\ s \ {Pick(s)} \in SUBSET D
      BY <1>2, <1>3, <2>4
    <3>2. k[s \ {Pick(s)}] = h[s \ {Pick(s)}]
      BY <3>1
    <3>3. k[s] = g[<<Pick(s), h[s \ {Pick(s)}]>>]
      BY <2>1, <2>4
    <3>4. QED  BY <3>2, <3>3
  <2> HIDE DEF k
  <2>5. Upto(k, n + 1)
    BY <2>2, <2>3, <2>4
  <2>6. n + 1 \in Nat
    OBVIOUS
  <2>7. QED  BY <2>5, <2>6
<1> HIDE DEF G
<1>7. Nat \subseteq G
  BY <1>5, <1>6, CountingUp
<1>8. Cardinality(D) \in G
  BY <1>2, <1>7
<1>9. PICK h : Upto(h, Cardinality(D))
  BY <1>8 DEF G
<1>10. \A s \in SUBSET D : Cardinality(s) <= Cardinality(D)
  BY FS_Subset
<1>11. QED  BY <1>9, <1>10 DEF Recursion

\* A product over a finite set of splits, defined by recursion, is a positive number.
LEMMA ProductPositive ==
  ASSUME NEW D, IsFiniteSet(D), NEW f \in [D -> Nat \ {0}], NEW it,
         it = [s \in SUBSET D |-> IF s = {} THEN 1 ELSE f[Pick(s)] * it[s \ {Pick(s)}]]
  PROVE  it[D] \in Nat \ {0}
<1> DEFINE G == {s \in SUBSET D : it[s] \in Nat \ {0}}
<1>1. it[{}] = 1
  OBVIOUS
<1>2. ASSUME NEW s \in SUBSET D, s # {}, \A x \in s : s \ {x} \in G PROVE s \in G
  <2>1. Pick(s) \in s
    BY <1>2 DEF Pick
  <2>2. it[s] = f[Pick(s)] * it[s \ {Pick(s)}]
    BY <1>2
  <2>3. f[Pick(s)] \in Nat \ {0} /\ it[s \ {Pick(s)}] \in Nat \ {0}
    BY <1>2, <2>1
  <2>4. \A a, b \in Nat \ {0} : a * b \in Nat \ {0}
    OBVIOUS
  <2>5. QED  BY <2>2, <2>3, <2>4
<1>3. {} \in G
  BY <1>1
<1> HIDE DEF G
<1>4. SUBSET D \subseteq G
  BY <1>2, <1>3, Growing
<1>5. QED  BY <1>4 DEF G

\* So are the products of the ratios' numerators and denominators.
LEMMA NumPositive ==
  ASSUME NEW D, IsFiniteSet(D), \A s \in D : s.num \in Nat \ {0}
  PROVE  Num(D) \in Nat \ {0}
<1> DEFINE f == [s \in D |-> s.num]
           g == [p \in D \X (Nat \ {0}) |-> p[1].num * p[2]]
           P(h) == h = [s \in SUBSET D |-> IF s = {} THEN 1
                          ELSE (CHOOSE x \in s : TRUE).num * h[s \ {CHOOSE x \in s : TRUE}]]
           it == CHOOSE h : P(h)
<1>1. Num(D) = it[D]
  BY DEF Num, FoldSet, MapThenFoldSet
<1>2. g \in [D \X (Nat \ {0}) -> Nat \ {0}]
  <2>1. \A a, b \in Nat \ {0} : a * b \in Nat \ {0}
    OBVIOUS
  <2>2. QED  BY <2>1
<1>3. PICK h : Recursion(h, g, 1, D, Nat \ {0})
  <2>1. 1 \in Nat \ {0}
    OBVIOUS
  <2> HIDE DEF g
  <2>2. QED  BY <1>2, <2>1, FoldExists
<1>4. P(h)
  BY <1>3 DEF Pick, Recursion
<1>5. P(it)
  BY <1>4
<1> HIDE DEF it
<1>6. it = [s \in SUBSET D |-> IF s = {} THEN 1 ELSE f[Pick(s)] * it[s \ {Pick(s)}]]
  BY <1>5 DEF Pick
<1>7. f \in [D -> Nat \ {0}]
  OBVIOUS
<1> HIDE DEF f
<1>8. it[D] \in Nat \ {0}
  BY <1>6, <1>7, ProductPositive
<1>9. QED  BY <1>1, <1>8

LEMMA DenPositive ==
  ASSUME NEW D, IsFiniteSet(D), \A s \in D : s.den \in Nat \ {0}
  PROVE  Den(D) \in Nat \ {0}
<1> DEFINE f == [s \in D |-> s.den]
           g == [p \in D \X (Nat \ {0}) |-> p[1].den * p[2]]
           P(h) == h = [s \in SUBSET D |-> IF s = {} THEN 1
                          ELSE (CHOOSE x \in s : TRUE).den * h[s \ {CHOOSE x \in s : TRUE}]]
           it == CHOOSE h : P(h)
<1>1. Den(D) = it[D]
  BY DEF Den, FoldSet, MapThenFoldSet
<1>2. g \in [D \X (Nat \ {0}) -> Nat \ {0}]
  <2>1. \A a, b \in Nat \ {0} : a * b \in Nat \ {0}
    OBVIOUS
  <2>2. QED  BY <2>1
<1>3. PICK h : Recursion(h, g, 1, D, Nat \ {0})
  <2>1. 1 \in Nat \ {0}
    OBVIOUS
  <2> HIDE DEF g
  <2>2. QED  BY <1>2, <2>1, FoldExists
<1>4. P(h)
  BY <1>3 DEF Pick, Recursion
<1>5. P(it)
  BY <1>4
<1> HIDE DEF it
<1>6. it = [s \in SUBSET D |-> IF s = {} THEN 1 ELSE f[Pick(s)] * it[s \ {Pick(s)}]]
  BY <1>5 DEF Pick
<1>7. f \in [D -> Nat \ {0}]
  OBVIOUS
<1> HIDE DEF f
<1>8. it[D] \in Nat \ {0}
  BY <1>6, <1>7, ProductPositive
<1>9. QED  BY <1>1, <1>8

\* The quotient is determined by its bounds.
LEMMA QuotientIs ==
  ASSUME NEW a \in Int, NEW b \in Nat \ {0}, NEW q \in Int, b * q <= a, a < b * q + b
  PROVE  a \div b = q
<1> DEFINE k == a \div b
<1>1. k \in Int /\ b * k <= a /\ a < b * k + b
  OBVIOUS
<1> HIDE DEF k
<1>2. \A x, y \in Int : x < y => b * x + b <= b * y
  <2> SUFFICES ASSUME NEW x \in Int, NEW y \in Int, x < y PROVE b * x + b <= b * y
    OBVIOUS
  <2>1. b * (y - x - 1) >= 0
    OBVIOUS
  <2>2. b * (y - x - 1) = b * y - b * x - b
    OBVIOUS
  <2>3. QED  BY <2>1, <2>2
<1>3. ~(k < q) /\ ~(q < k)
  <2>1. b * k \in Int /\ b * q \in Int
    BY <1>1
  <2> DEFINE bk == b * k  bq == b * q
  <2>2. (k < q => bk + b <= bq) /\ (q < k => bq + b <= bk)
    BY <1>1, <1>2
  <2>3. bk <= a /\ a < bk + b /\ bq <= a /\ a < bq + b
    BY <1>1
  <2>4. bk \in Int /\ bq \in Int
    BY <2>1
  <2> HIDE DEF bk, bq
  <2>5. QED  BY <2>2, <2>3, <2>4
<1>4. QED  BY <1>1, <1>3 DEF k

\* Rounding half up stays within half of the unit rounded to, and what is within it is it.
LEMMA HalfIs ==
  ASSUME NEW n \in Int, NEW d \in Nat \ {0}, NEW r \in Int,
         2 * (d * r) <= 2 * n + d, 2 * n < 2 * (d * r) + d
  PROVE  Half(n, d) = r
<1>1. (2 * d) * r = 2 * (d * r) /\ d * r \in Int /\ 2 * d \in Nat \ {0}
  OBVIOUS
<1>2. (2 * d) * r <= 2 * n + d /\ 2 * n + d < (2 * d) * r + 2 * d
  BY <1>1
<1>3. QED  BY <1>1, <1>2, QuotientIs DEF Half

LEMMA HalfBounds ==
  ASSUME NEW n \in Int, NEW d \in Nat \ {0}
  PROVE  /\ Half(n, d) \in Int
         /\ 2 * (d * Half(n, d)) <= 2 * n + d /\ 2 * n < 2 * (d * Half(n, d)) + d
<1> DEFINE a == 2 * n + d  b == 2 * d  q == a \div b
<1>1. a \in Int /\ b \in Nat \ {0}
  OBVIOUS
<1>2. q \in Int /\ b * q <= a /\ a < b * q + b
  <2> HIDE DEF a, b
  <2>1. QED  BY <1>1
<1>3. Half(n, d) = q
  BY DEF Half
<1> HIDE DEF q
<1>4. b * q = 2 * (d * q) /\ d * q \in Int
  BY <1>2
<1>5. QED  BY <1>2, <1>3, <1>4

\* A price printed in hundredths of the adjusted one comes back, unless a cent was worth half
\* a dong: the ratios multiply to less than 100.
LEMMA PriceComesBack ==
  ASSUME NEW raw \in Nat, NEW n \in Nat \ {0}, NEW d \in Nat \ {0}, n < 100 * d
  PROVE  Half(Half(100 * raw * d, n) * n, 100 * d) = raw
<1> DEFINE x == 100 * raw * d
           p == Half(x, n)
           y == p * n
           e == 100 * d
<1>1. x \in Int /\ e \in Nat \ {0}
  OBVIOUS
<1>2. p \in Int /\ 2 * (n * p) <= 2 * x + n /\ 2 * x < 2 * (n * p) + n
  BY <1>1, HalfBounds
<1>3. e * raw = x
  OBVIOUS
<1> HIDE DEF x, p
<1>4. y \in Int /\ y = n * p
  BY <1>2
<1>5. n < e
  OBVIOUS
<1> HIDE DEF e, y
<1>6. 2 * (e * raw) <= 2 * y + e /\ 2 * y < 2 * (e * raw) + e
  BY <1>1, <1>2, <1>3, <1>4, <1>5
<1>7. Half(y, e) = raw
  BY <1>1, <1>4, <1>6, HalfIs
<1>8. QED  BY <1>7 DEF x, p, y, e

LEMMA HalfOfMultiple ==
  ASSUME NEW k \in Int, NEW d \in Nat \ {0}
  PROVE  Half(k * d, d) = k
<1>1. k * d \in Int /\ d * k = k * d
  OBVIOUS
<1> DEFINE m == k * d
<1>2. 2 * (d * k) <= 2 * m + d /\ 2 * m < 2 * (d * k) + d /\ m \in Int
  BY <1>1
<1> HIDE DEF m
<1>3. Half(m, d) = k
  BY <1>2, HalfIs
<1>4. QED  BY <1>3 DEF m

\* A volume is divided by the ratios exactly, so it comes back.
LEMMA VolumeComesBack ==
  ASSUME NEW raw \in Nat, NEW n \in Nat \ {0}, NEW d \in Nat \ {0}, (Lot * n) % d = 0
  PROVE  Half(Half(Lot * raw * n, d) * d, n) = Lot * raw
<1> DEFINE q == (Lot * n) \div d
<1>1. Lot * n = q * d /\ q \in Int
  <2> DEFINE a == Lot * n
  <2>1. a \in Int
    BY DEF Lot
  <2>2. a = d * (a \div d) + (a % d) /\ a \div d \in Int
    <3> HIDE DEF a
    <3>1. QED  BY <2>1
  <2>3. QED  BY <2>2
<1> HIDE DEF q
<1>2. Lot * raw * n = (raw * q) * d
  <2>1. Lot * raw * n = raw * (Lot * n) /\ raw * (q * d) = (raw * q) * d
    BY <1>1 DEF Lot
  <2>2. QED  BY <1>1, <2>1
<1>3. Half(Lot * raw * n, d) = raw * q
  <2>1. raw * q \in Int
    BY <1>1
  <2>2. QED  BY <1>2, <2>1, HalfOfMultiple
<1>4. (raw * q) * d = (Lot * raw) * n
  BY <1>2
<1>5. Half((Lot * raw) * n, n) = Lot * raw
  <2>1. Lot * raw \in Int
    BY DEF Lot
  <2>2. QED  BY <2>1, HalfOfMultiple
<1>6. QED  BY <1>3, <1>4, <1>5

\* The splits the adapter sees after a day of the window are all there were: it asks up to today.
LEMMA SameSplits ==
  ASSUME RowsConstants, answer \in Yahoo, NEW d \in answer.start .. Today
  PROVE  {s \in SplitsSeen : s.day > d} = {s \in answer.splits : s.day > d}
<1>1. /\ answer.splits \subseteq Splits /\ answer.start \in Int /\ answer.end \in 1 .. Today
      /\ Today \in Int /\ \A s \in Splits : s.day \in 1 .. Today
  BY DEF RowsConstants, Yahoo
<1>2. UpperBound(answer.end) = Today
  BY <1>1 DEF UpperBound, Max
<1>3. \A s \in answer.splits : s.day > d => s.day \in answer.start .. Today
  BY <1>1
<1>4. QED  BY <1>2, <1>3 DEF SplitsSeen

\* The bars of a window are what was printed.
LEMMA BarsAreRaw ==
  ASSUME RowsConstants, answer \in Yahoo
  PROVE  RawPrints
<1>1. /\ answer.splits \subseteq Splits /\ answer.start \in 1 .. Today /\ answer.end \in 1 .. Today
      /\ answer.raw \in [1 .. Today -> Prices \cup {Nothing}]
      /\ Today \in Nat /\ Prices \subseteq Nat
      /\ \A s \in Splits : s.day \in 1 .. Today /\ s.num \in Nat \ {0} /\ s.den \in Nat \ {0}
      /\ IsFiniteSet(Splits)
  BY DEF RowsConstants, Yahoo
<1> DEFINE end == UpperBound(answer.end)
           traded == {d \in answer.start .. end : answer.raw[d] \notin {Nothing, 0}}
           kept == traded \cap (answer.start .. answer.end)
<1>2. end = Today
  BY <1>1 DEF UpperBound, Max
<1>3. YahooBars = [d \in kept |->
         [e \in traded |-> Unadjust(e, Adjusted(e, answer.raw[e], answer.splits))][d]]
  BY DEF YahooBars
<1> HIDE DEF end
<1>4. kept = {d \in answer.start .. answer.end : answer.raw[d] \notin {Nothing, 0}}
  BY <1>1, <1>2
<1>5. ASSUME NEW d \in kept
      PROVE  Unadjust(d, Adjusted(d, answer.raw[d], answer.splits))
               = [price |-> answer.raw[d], volume |-> Lot * answer.raw[d]]
  <2> DEFINE raw == answer.raw[d]
             later == {s \in answer.splits : s.day > d}
             after == {s \in SplitsSeen : s.day > d}
             n == Num(later)  m == Den(later)
  <2>1. d \in answer.start .. Today
    BY <1>2
  <2>2. after = later
    BY <2>1, SameSplits
  <2>3. raw \in Nat
    <3>1. d \in 1 .. Today /\ raw # Nothing
      BY <1>1, <2>1
    <3> HIDE DEF raw
    <3>2. answer.raw[d] \in Prices \cup {Nothing}
      BY <1>1, <3>1
    <3>3. QED  BY <1>1, <3>1, <3>2 DEF raw
  <2>4. later \in SUBSET Splits
    BY <1>1
  <2>5. n \in Nat \ {0} /\ m \in Nat \ {0}
    <3>1. IsFiniteSet(later)
      BY <1>1, <2>4, FS_Subset
    <3>2. \A s \in later : s.num \in Nat \ {0} /\ s.den \in Nat \ {0}
      BY <1>1, <2>4
    <3> HIDE DEF later
    <3>3. QED  BY <3>1, <3>2, NumPositive, DenPositive
  <2>6. n < 100 * m /\ (Lot * n) % m = 0
    BY <2>4 DEF RowsConstants
  <2>7. Adjusted(d, raw, answer.splits)
          = [price |-> Half(100 * raw * m, n), volume |-> Half(Lot * raw * n, m)]
    BY DEF Adjusted
  <2> HIDE DEF raw, later, after, n, m
  <2>8. Unadjust(d, Adjusted(d, raw, answer.splits))
          = [price |-> Half(Half(100 * raw * m, n) * n, 100 * m),
             volume |-> Half(Half(Lot * raw * n, m) * m, n)]
    <3> DEFINE bar == Adjusted(d, raw, answer.splits)
    <3>1. bar.price = Half(100 * raw * m, n) /\ bar.volume = Half(Lot * raw * n, m)
      BY <2>7
    <3>2. Unadjust(d, bar) = [price |-> Half(bar.price * Num(after), 100 * Den(after)),
                              volume |-> Half(bar.volume * Den(after), Num(after))]
      BY DEF Unadjust, after
    <3> HIDE DEF bar
    <3>3. Num(after) = n /\ Den(after) = m
      BY <2>2 DEF n, m
    <3>4. QED  BY <3>1, <3>2, <3>3 DEF bar
  <2>9. Half(Half(100 * raw * m, n) * n, 100 * m) = raw
    BY <2>3, <2>5, <2>6, PriceComesBack
  <2>10. Half(Half(Lot * raw * n, m) * m, n) = Lot * raw
    BY <2>3, <2>5, <2>6, VolumeComesBack
  <2>11. QED  BY <2>8, <2>9, <2>10 DEF raw
<1>6. kept \subseteq traded
  OBVIOUS
<1> HIDE DEF kept, traded
<1>7. \A d \in kept : YahooBars[d] = [price |-> answer.raw[d], volume |-> Lot * answer.raw[d]]
  BY <1>3, <1>5, <1>6
<1>8. DOMAIN YahooBars = kept
  BY <1>3
<1>9. QED  BY <1>4, <1>7, <1>8 DEF RawPrints, kept

\* Both vendors' period keys agree.
LEMMA PeriodsAgree ==
  ASSUME answer \in Statements
  PROVE  VendorsAgree
<1>1. answer.period.quarter \in 0 .. 4 /\ answer.asked \in {"YEAR", "QUARTER"}
  BY DEF Statements
<1>2. \A q \in 1 .. 4 : QuarterEnd(q) = 3 * q /\ QuarterFromMonth(3 * q) = q
  BY DEF QuarterEnd, QuarterFromMonth
<1>3. CASE answer.period.quarter = 0
  BY <1>1, <1>3 DEF VendorsAgree, CafefPeriod, VndirectPeriod
<1>4. CASE answer.period.quarter \in 1 .. 4
  BY <1>1, <1>2, <1>4 DEF VendorsAgree, CafefPeriod, VndirectPeriod
<1>5. QED  BY <1>1, <1>3, <1>4

\* Elements of a finite set with distinct keys have every rank below their number.
LEMMA RankIsTaken ==
  ASSUME NEW D, IsFiniteSet(D), NEW key \in [D -> Int],
         \A x, y \in D : key[x] = key[y] => x = y
  PROVE  \A n \in 1 .. Cardinality(D) :
           \E x \in D : Cardinality({y \in D : key[y] < key[x]}) = n - 1
<1> DEFINE Below(s, x) == {y \in s : key[y] < key[x]}
           G == {s \in SUBSET D : \A n \in 1 .. Cardinality(s) :
                                     \E x \in s : Cardinality(Below(s, x)) = n - 1}
           H == {s \in SUBSET D : s = {} \/ \E x \in s : \A y \in s : key[y] <= key[x]}
<1>1. \A s \in SUBSET D : IsFiniteSet(s) /\ Cardinality(s) \in Nat
  BY FS_Subset, FS_CardinalityType
<1>2. SUBSET D \subseteq H
  <2>1. {} \in H
    OBVIOUS
  <2>2. ASSUME NEW s \in SUBSET D, s # {}, \A x \in s : s \ {x} \in H PROVE s \in H
    <3>1. PICK x \in s : TRUE
      BY <2>2
    <3>2. CASE s \ {x} = {}
      <4>1. \A y \in s : y = x
        BY <3>2
      <4>2. QED  BY <3>1, <4>1
    <3>3. CASE s \ {x} # {}
      <4>1. PICK z \in s \ {x} : \A y \in s \ {x} : key[y] <= key[z]
        BY <2>2, <3>3
      <4>2. \A y \in s : key[y] \in Int
        OBVIOUS
      <4>3. CASE key[x] <= key[z]
        BY <4>1, <4>3
      <4>4. CASE ~(key[x] <= key[z])
        <5>1. \A y \in s : key[y] <= key[x]
          BY <4>1, <4>2, <4>4
        <5>2. QED  BY <5>1
      <4>5. QED  BY <4>3, <4>4
    <3>4. QED  BY <3>2, <3>3
  <2> HIDE DEF H
  <2>3. QED  BY <2>1, <2>2, Growing
<1>3. {} \in G
  BY FS_EmptySet
<1>4. ASSUME NEW s \in SUBSET D, s # {}, \A x \in s : s \ {x} \in G PROVE s \in G
  <2>1. PICK m \in s : \A y \in s : key[y] <= key[m]
    BY <1>2, <1>4
  <2> DEFINE r == s \ {m}
  <2>2. Cardinality(r) = Cardinality(s) - 1 /\ Cardinality(s) \in Nat /\ Cardinality(r) \in Nat
    BY <1>1, FS_RemoveElement, FS_CardinalityType
  <2>3. r \in G
    BY <1>4
  <2>4. Below(s, m) = r
    BY <2>1
  <2>5. \A x \in r : Below(s, x) = Below(r, x)
    BY <2>1
  <2> HIDE DEF r
  <2>6. ASSUME NEW n \in 1 .. Cardinality(s)
        PROVE  \E x \in s : Cardinality(Below(s, x)) = n - 1
    <3>1. CASE n = Cardinality(s)
      BY <2>1, <2>2, <2>4, <3>1
    <3>2. CASE n # Cardinality(s)
      <4>1. n \in 1 .. Cardinality(r)
        BY <2>2, <3>2
      <4>2. PICK x \in r : Cardinality(Below(r, x)) = n - 1
        BY <2>3, <4>1
      <4>3. x \in s
        BY DEF r
      <4>4. QED  BY <2>5, <4>2, <4>3
    <3>3. QED  BY <3>1, <3>2
  <2>7. QED  BY <2>6
<1> HIDE DEF G
<1>5. SUBSET D \subseteq G
  BY <1>3, <1>4, Growing
<1>6. D \in G
  BY <1>5
<1>7. QED  BY <1>6 DEF G

\* The news listed are those of the set, the earlier ones first.
LEMMA Oldest ==
  ASSUME NEW D, IsFiniteSet(D), \A i \in D : i.at \in Int, \A i, j \in D : i.at = j.at => i = j
  PROVE  \A n \in 1 .. Cardinality(D) :
           /\ OldestFirst(D)[n] \in D
           /\ Cardinality({j \in D : j.at < OldestFirst(D)[n].at}) = n - 1
<1> DEFINE key == [i \in D |-> i.at]
<1>1. key \in [D -> Int] /\ \A x, y \in D : key[x] = key[y] => x = y
  OBVIOUS
<1>2. \A i \in D : {j \in D : key[j] < key[i]} = {j \in D : j.at < i.at}
  OBVIOUS
<1> HIDE DEF key
<1>3. \A n \in 1 .. Cardinality(D) :
        \E x \in D : Cardinality({y \in D : key[y] < key[x]}) = n - 1
  BY <1>1, RankIsTaken
<1>4. \A n \in 1 .. Cardinality(D) :
        \E x \in D : Cardinality({y \in D : y.at < x.at}) = n - 1
  BY <1>2, <1>3
<1>5. QED  BY <1>4 DEF OldestFirst

\* The items of a feed that are handed on are new, and the earlier ones come first.
LEMMA NewsInOrder ==
  ASSUME RowsConstants, answer \in Feeds
  PROVE  NothingInvented
<1> DEFINE new == {i \in ParseFeed : i.at > answer.since}
           L == OldestFirst(new)
<1>1. /\ answer.items \subseteq [title : BOOLEAN, at : Instants \cup {Nothing}]
      /\ IsFiniteSet(Instants) /\ Instants \subseteq Int /\ answer.kind = "rss"
  BY DEF RowsConstants, Feeds
<1>2. ASSUME NEW i \in new PROVE i.at \in Instants /\ i = [title |-> TRUE, at |-> i.at]
  <2>1. i \in [title : BOOLEAN, at : Instants \cup {Nothing}] /\ i.title /\ i.at # Nothing
    BY <1>1 DEF ParseFeed
  <2>2. i.title = TRUE
    BY <2>1
  <2>3. i = [title |-> i.title, at |-> i.at] /\ i.at \in Instants
    BY <2>1
  <2>4. QED  BY <2>2, <2>3
<1>3. IsFiniteSet(new)
  <2> DEFINE f == [t \in Instants |-> [title |-> TRUE, at |-> t]]
             R == {f[t] : t \in Instants}
  <2>1. f \in Surjection(Instants, R)
    BY DEF Surjection
  <2>2. \A i \in new : i = f[i.at] /\ i.at \in Instants
    BY <1>2
  <2> HIDE DEF f, new
  <2>3. new \subseteq R
    BY <2>2
  <2> HIDE DEF R
  <2>4. IsFiniteSet(R)
    BY <1>1, <2>1, FS_Surjection
  <2>5. QED  BY <2>3, <2>4, FS_Subset
<1>4. (\A i \in new : i.at \in Int) /\ \A i, j \in new : i.at = j.at => i = j
  <2> HIDE DEF new
  <2>1. \A i \in new : i.at \in Instants
    BY <1>2
  <2>2. \A i, j \in new : i.at = j.at => i = j
    BY <1>2
  <2>3. QED  BY <1>1, <2>1, <2>2
<1>5. \A i \in new : i.at > answer.since
  OBVIOUS
<1>6. FetchNews = L /\ DOMAIN L = 1 .. Cardinality(new)
  BY DEF FetchNews, OldestFirst
<1> HIDE DEF new
<1>7. \A n \in 1 .. Cardinality(new) :
           L[n] \in new /\ Cardinality({j \in new : j.at < L[n].at}) = n - 1
  BY <1>3, <1>4, Oldest
<1> HIDE DEF L
<1>8. ASSUME NEW m \in 1 .. Cardinality(new), NEW n \in 1 .. Cardinality(new), m < n
      PROVE  L[m].at <= L[n].at
  <2> DEFINE a == {j \in new : j.at < L[m].at}  b == {j \in new : j.at < L[n].at}
  <2> SUFFICES ASSUME ~(L[m].at <= L[n].at) PROVE FALSE
    OBVIOUS
  <2>1. b \subseteq a
    <3>1. L[m].at \in Int /\ L[n].at \in Int
      BY <1>4, <1>7
    <3>2. QED  BY <1>4, <3>1
  <2>2. IsFiniteSet(a) /\ Cardinality(a) = m - 1 /\ Cardinality(b) = n - 1
    BY <1>3, <1>7, FS_Subset
  <2> HIDE DEF a, b
  <2>3. Cardinality(b) <= Cardinality(a)
    BY <2>1, <2>2, FS_Subset
  <2>4. m \in Int /\ n \in Int
    BY <1>3, FS_CardinalityType
  <2>5. QED  BY <1>8, <2>2, <2>3, <2>4
<1>9. QED  BY <1>1, <1>5, <1>6, <1>7, <1>8 DEF NothingInvented

\* The years of a macro series that are handed on are over.
LEMMA YearsAreOver ==
  ASSUME RowsConstants, answer \in Imf
  PROVE  NothingInvented
<1>1. answer.kind = "imf" /\ answer.series \in [Years -> {Nothing, 1}]
  BY DEF Imf
<1>2. Years \subseteq Int /\ ThisYear \in Int /\ YearOffset \in Nat \ {0}
  BY DEF RowsConstants
<1>3. \A y \in MacroRows : y \in Years /\ y <= ThisYear - YearOffset /\ answer.series[y] # Nothing
  BY <1>1 DEF MacroRows, Cutoff
<1>4. \A y \in MacroRows : y < ThisYear
  BY <1>2, <1>3
<1>5. QED  BY <1>1, <1>3, <1>4 DEF NothingInvented

\* Whatever was printed, split, restated, projected or announced, the rows an adapter hands on
\* are what the vendor reported: the bars are the printed prices and volumes however many splits
\* came later (yahoo), both vendors key a period alike (cafef, vndirect), no projection counts as
\* an observation (imf), and news are new and in order (rss).
THEOREM AdaptersAreHonest == RowsSpec => []RowsAreHonest
<1>0. RowsConstants
  BY RowsAssumption
<1>1. RowsInit => RowsAreHonest
  <2> SUFFICES ASSUME RowsInit PROVE RowsAreHonest
    OBVIOUS
  <2>1. CASE answer \in Yahoo
    <3>1. answer.kind = "yahoo"
      BY <2>1 DEF Yahoo
    <3>2. QED  BY <2>1, <3>1, <1>0, BarsAreRaw DEF RowsAreHonest, VendorsAgree, NothingInvented
  <2>2. CASE answer \in Imf
    <3>1. answer.kind = "imf"
      BY <2>2 DEF Imf
    <3>2. QED  BY <2>2, <3>1, <1>0, YearsAreOver DEF RowsAreHonest, VendorsAgree, RawPrints
  <2>3. CASE answer \in Feeds
    <3>1. answer.kind = "rss"
      BY <2>3 DEF Feeds
    <3>2. QED  BY <2>3, <3>1, <1>0, NewsInOrder DEF RowsAreHonest, VendorsAgree, RawPrints
  <2>4. CASE answer \in Statements
    <3>1. answer.kind = "financials"
      BY <2>4 DEF Statements
    <3>2. QED  BY <2>4, <3>1, <1>0, PeriodsAgree DEF RowsAreHonest, NothingInvented, RawPrints
  <2>5. QED  BY <2>1, <2>2, <2>3, <2>4 DEF RowsInit
<1>2. RowsAreHonest /\ UNCHANGED answer => RowsAreHonest'
  <2> SUFFICES ASSUME RowsAreHonest, UNCHANGED answer PROVE RowsAreHonest'
    OBVIOUS
  <2>1. YahooBars' = YahooBars
    BY DEF YahooBars, UpperBound, SplitsSeen, Unadjust
  <2>2. MacroRows' = MacroRows /\ FetchNews' = FetchNews
    BY DEF MacroRows, FetchNews, ParseFeed
  <2>3. CafefPeriod' = CafefPeriod /\ VndirectPeriod' = VndirectPeriod
    BY DEF CafefPeriod, VndirectPeriod
  <2>4. QED  BY <2>1, <2>2, <2>3 DEF RowsAreHonest, RawPrints, VendorsAgree, NothingInvented
<1>3. QED  BY <1>1, <1>2, PTL DEF RowsSpec

=============================================================================
