----------------------------- MODULE ServicesProofs -----------------------------
(***************************************************************************)
(* What the ingestion, the API process and the monitoring agent keep, for  *)
(* every feed, universe, number of processes and order of their steps.     *)
(***************************************************************************)
EXTENDS Services, FiniteSetTheorems, SequenceTheorems, TLAPS

-----------------------------------------------------------------------------
(* Ingestion: which rows of a batch are kept *)

SoundBar(r) ==
  /\ \A f \in PriceFields : r[f] > 0
  /\ r.low <= r.close /\ r.close <= r.high /\ r.volume >= 0

LEMMA BatchRows ==
  ASSUME NEW rows \in Batches
  PROVE  /\ DOMAIN rows # {} /\ IsFiniteSet(DOMAIN rows)
         /\ \A i \in DOMAIN rows : rows[i] \in Feed[dataset] /\ rows[i].key \in Keys
<1>1. PICK n \in 1 .. MaxRows : rows \in [1 .. n -> Feed[dataset]]
  BY DEF Batches
<1>2. MaxRows \in Nat
  BY FeedAssumption
<1>3. n \in Nat /\ 1 \in 1 .. n /\ DOMAIN rows = 1 .. n
  BY <1>1, <1>2
<1>4. IsFiniteSet(1 .. n)
  BY <1>3, FS_Interval
<1>5. QED  BY <1>1, <1>3, <1>4 DEF Keys

LEMMA BarTyped ==
  ASSUME dataset \in Bars, NEW r \in Feed[dataset]
  PROVE  /\ \A f \in PriceFields : r[f] \in Int
         /\ r.open \in Int /\ r.high \in Int /\ r.low \in Int /\ r.close \in Int /\ r.volume \in Int
<1>1. \A f \in PriceFields \cup {"volume"} : r[f] \in Int
  BY FeedAssumption
<1>2. QED  BY <1>1 DEF PriceFields

\* The checks of a bar find something exactly when it is unsound, always in a field
\* that makes its key corrupt.
LEMMA FlawsOfBar ==
  ASSUME dataset \in Bars, NEW r \in Feed[dataset], NEW i
  PROVE  /\ ~SoundBar(r) <=> CheckOhlcRow(i, r) # {}
         /\ \A is \in CheckOhlcRow(i, r) : is.key = r.key /\ is.field \in OhlcInvariantFields
<1>1. /\ \A f \in PriceFields : r[f] \in Int
      /\ r.high \in Int /\ r.low \in Int /\ r.close \in Int /\ r.volume \in Int
  BY BarTyped
<1> DEFINE wrong(cond, field, rule) == IF cond THEN {Issue(i, r.key, field, rule)} ELSE {}
           prices == UNION {wrong(r[f] <= 0, f, "must be > 0") : f \in PriceFields}
           a == wrong(r.high < r.low, "high", "high < low")
           b == wrong(r.close > r.high, "close", "close > high")
           c == wrong(r.close < r.low, "close", "close < low")
           d == wrong(r.volume < 0, "volume", "must be >= 0")
<1>2. CheckOhlcRow(i, r) = prices \cup a \cup b \cup c \cup d
  BY DEF CheckOhlcRow, wrong, prices, a, b, c, d
<1>3. \A f, rule : Issue(i, r.key, f, rule).key = r.key /\ Issue(i, r.key, f, rule).field = f
  BY DEF Issue
<1>4. prices # {} <=> \E f \in PriceFields : r[f] <= 0
  OBVIOUS
<1>5. /\ a # {} <=> r.high < r.low
      /\ b # {} <=> r.close > r.high
      /\ c # {} <=> r.close < r.low
      /\ d # {} <=> r.volume < 0
  OBVIOUS
<1>6. \A is \in prices \cup a \cup b \cup c \cup d : is.key = r.key /\ is.field \in OhlcInvariantFields
  <2>1. \A is \in prices : is.key = r.key /\ is.field \in OhlcInvariantFields
    <3>1. SUFFICES ASSUME NEW is \in prices
                   PROVE  is.key = r.key /\ is.field \in OhlcInvariantFields
      OBVIOUS
    <3>2. PICK f \in PriceFields : is = Issue(i, r.key, f, "must be > 0")
      OBVIOUS
    <3> HIDE DEF prices
    <3>3. is.key = r.key /\ is.field = f
      BY <1>3, <3>2
    <3>4. QED  BY <3>3 DEF OhlcInvariantFields
  <2>2. \A is \in a \cup b \cup c \cup d : is.key = r.key /\ is.field \in OhlcInvariantFields
    <3>1. SUFFICES ASSUME NEW is \in a \cup b \cup c \cup d
                   PROVE  is.key = r.key /\ is.field \in OhlcInvariantFields
      OBVIOUS
    <3>2. PICK f \in {"high", "close", "volume"} : \E rule : is = Issue(i, r.key, f, rule)
      OBVIOUS
    <3>3. PICK rule : is = Issue(i, r.key, f, rule)
      BY <3>2
    <3> HIDE DEF a, b, c, d
    <3>4. is.key = r.key /\ is.field = f
      BY <1>3, <3>3
    <3>5. QED  BY <3>4 DEF OhlcInvariantFields, PriceFields
  <2>3. QED  BY <2>1, <2>2
<1> HIDE DEF prices, a, b, c, d
<1>7. (\E f \in PriceFields : r[f] <= 0) <=> ~(\A f \in PriceFields : r[f] > 0)
  BY <1>1
<1>8. ~SoundBar(r) <=> \/ prices # {} \/ a # {} \/ b # {} \/ c # {} \/ d # {}
  BY <1>1, <1>4, <1>5, <1>7 DEF SoundBar
<1>9. QED  BY <1>2, <1>6, <1>8

LEMMA CorruptIsUnsound ==
  ASSUME dataset \in Bars, NEW rows \in Batches, NEW k
  PROVE  k \in CorruptKeys(ValidateBars(rows))
           <=> \E i \in DOMAIN rows : rows[i].key = k /\ ~SoundBar(rows[i])
<1> DEFINE issues == ValidateBars(rows)
<1>1. \A i \in DOMAIN rows : rows[i] \in Feed[dataset]
  BY BatchRows
<1>2. issues = Duplicates(rows, "trade_date") \cup OutsideWindow(rows, "trade_date")
                 \cup UNION {CheckOhlcRow(i, rows[i]) : i \in DOMAIN rows}
  BY DEF ValidateBars
<1>3. \A is \in Duplicates(rows, "trade_date") \cup OutsideWindow(rows, "trade_date") :
        is.field \notin OhlcInvariantFields
  <2>1. "trade_date" \notin OhlcInvariantFields
    BY DEF OhlcInvariantFields, PriceFields
  <2>2. \A is \in Duplicates(rows, "trade_date") : is.field = "trade_date"
    BY DEF Duplicates, Issue
  <2>3. \A is \in OutsideWindow(rows, "trade_date") : is.field = "trade_date"
    <3>1. SUFFICES ASSUME NEW is \in OutsideWindow(rows, "trade_date")
                   PROVE  is.field = "trade_date"
      OBVIOUS
    <3>2. PICK j \in DOMAIN rows : is = Issue(j, rows[j].key, "trade_date", "outside window")
      BY DEF OutsideWindow
    <3>3. QED  BY <3>2 DEF Issue
  <2>4. QED  BY <2>1, <2>2, <2>3
<1>4. k \in CorruptKeys(issues) <=> \E is \in issues : is.key = k /\ is.field \in OhlcInvariantFields
  BY DEF CorruptKeys
<1>5. ASSUME NEW is \in issues, is.key = k, is.field \in OhlcInvariantFields
      PROVE  \E i \in DOMAIN rows : rows[i].key = k /\ ~SoundBar(rows[i])
  <2>1. PICK i \in DOMAIN rows : is \in CheckOhlcRow(i, rows[i])
    BY <1>2, <1>3, <1>5
  <2>2. ~SoundBar(rows[i]) /\ rows[i].key = k
    BY <1>1, <1>5, <2>1, FlawsOfBar
  <2>3. QED  BY <2>2
<1>6. ASSUME NEW i \in DOMAIN rows, rows[i].key = k, ~SoundBar(rows[i])
      PROVE  \E is \in issues : is.key = k /\ is.field \in OhlcInvariantFields
  <2>1. CheckOhlcRow(i, rows[i]) # {}
    BY <1>1, <1>6, FlawsOfBar
  <2>2. PICK is \in CheckOhlcRow(i, rows[i]) : TRUE
    BY <2>1
  <2>3. is.key = k /\ is.field \in OhlcInvariantFields
    BY <1>1, <1>6, FlawsOfBar
  <2>4. is \in issues
    BY <1>2
  <2>5. QED  BY <2>3, <2>4
<1>7. QED  BY <1>4, <1>5, <1>6

\* The rows that are upserted are those of the keys of which every row is sound.
LEMMA NormalizedIsSound ==
  ASSUME dataset \in Upserted, NEW rows \in Batches, NEW k
  PROVE  k \in KeysAt(rows, Normalized(rows))
           <=> /\ k \in KeysAt(rows, DOMAIN rows)
               /\ \A i \in DOMAIN rows : rows[i].key = k => Sound(rows[i])
<1>1. \A i \in DOMAIN rows : rows[i] \in Feed[dataset]
  BY BatchRows
<1>2. CASE dataset \in Bars
  <2>1. \A i \in DOMAIN rows : Sound(rows[i]) <=> Resolvable(rows[i]) /\ SoundBar(rows[i])
    BY <1>2 DEF Sound, SoundBar
  <2>2. \A i \in DOMAIN rows : i \in Normalized(rows) <=>
           rows[i].key \notin CorruptKeys(ValidateBars(rows)) /\ Resolvable(rows[i])
    BY <1>2 DEF Normalized, Kept
  <2>3. Normalized(rows) \subseteq DOMAIN rows
    BY DEF Normalized, Kept
  <2>4. k \notin CorruptKeys(ValidateBars(rows))
          <=> \A i \in DOMAIN rows : rows[i].key = k => SoundBar(rows[i])
    BY <1>2, CorruptIsUnsound
  <2>5. \A i, j \in DOMAIN rows : rows[i].key = rows[j].key /\ Resolvable(rows[i]) => Resolvable(rows[j])
    <3>1. CASE dataset = "prices"
      <4>1. \A i \in DOMAIN rows : rows[i].key = <<rows[i].symbol, rows[i].day>>
        BY <1>1, <1>2, FeedAssumption
      <4>2. \A i, j \in DOMAIN rows : rows[i].key = rows[j].key => rows[i].symbol = rows[j].symbol
        BY <4>1
      <4>3. QED  BY <3>1, <4>2 DEF Resolvable
    <3>2. CASE dataset # "prices"
      BY <1>2, <3>2 DEF Resolvable, Bars
    <3>3. QED  BY <3>1, <3>2
  <2>6. ASSUME k \in KeysAt(rows, Normalized(rows))
        PROVE  /\ k \in KeysAt(rows, DOMAIN rows)
               /\ \A i \in DOMAIN rows : rows[i].key = k => Sound(rows[i])
    <3>1. PICK i \in Normalized(rows) : rows[i].key = k
      BY <2>6 DEF KeysAt
    <3>2. i \in DOMAIN rows /\ k \notin CorruptKeys(ValidateBars(rows)) /\ Resolvable(rows[i])
      BY <2>2, <2>3, <3>1
    <3>3. QED  BY <2>1, <2>4, <2>5, <3>1, <3>2 DEF KeysAt
  <2>7. ASSUME k \in KeysAt(rows, DOMAIN rows),
               \A i \in DOMAIN rows : rows[i].key = k => Sound(rows[i])
        PROVE  k \in KeysAt(rows, Normalized(rows))
    <3>1. PICK i \in DOMAIN rows : rows[i].key = k
      BY <2>7 DEF KeysAt
    <3>2. k \notin CorruptKeys(ValidateBars(rows)) /\ Resolvable(rows[i])
      BY <2>1, <2>4, <2>7, <3>1
    <3>3. i \in Normalized(rows)
      BY <2>2, <3>1, <3>2
    <3>4. QED  BY <3>1, <3>3 DEF KeysAt
  <2>8. QED  BY <2>6, <2>7
<1>3. CASE dataset \notin Bars
  <2>1. dataset = "macro"
    BY <1>3 DEF Upserted
  <2>2. \A r : Resolvable(r) /\ Sound(r)
    BY <2>1 DEF Resolvable, Sound, Bars
  <2>3. Normalized(rows) = DOMAIN rows
    BY <1>3, <2>2 DEF Normalized, Kept
  <2>4. QED  BY <2>2, <2>3 DEF KeysAt
<1>4. QED  BY <1>2, <1>3

-----------------------------------------------------------------------------
(* Ingestion: what the tables hold *)

IngestType ==
  /\ dataset \in Upserted \cup Inserted
  /\ step \in [Procs -> {"idle", "collected", "looked"}]
  /\ DOMAIN batch = Procs /\ DOMAIN seen = Procs /\ DOMAIN missed = Procs
  /\ \A p \in Procs : step[p] # "idle" => batch[p] \in Batches
  /\ copies \in [Keys -> Nat] /\ DOMAIN told = Keys

\* The keys a run that looked up may insert are those the table does not have, or another
\* run committed them since.
LookupsAreRecent ==
  dataset \in Inserted =>
    \A p \in Procs : step[p] = "looked" =>
      /\ seen[p] \subseteq Stored
      /\ Stored \cap KeysAt(batch[p], Normalized(batch[p])) \subseteq seen[p] \cup missed[p]

IngestInv == IngestType /\ LookupsAreRecent /\ IngestedIsKept

LEMMA IngestStart == IngestInit => IngestInv
<1> SUFFICES ASSUME IngestInit PROVE IngestInv
  OBVIOUS
<1>1. IngestType
  BY DEF IngestInit, IngestType
<1>2. LookupsAreRecent
  BY DEF IngestInit, LookupsAreRecent
<1>3. IngestedIsKept
  BY DEF IngestInit, IngestedIsKept, LastSoundWord, ToldIsStoredOnce
<1>4. QED  BY <1>1, <1>2, <1>3 DEF IngestInv

LEMMA SameDataset ==
  ASSUME dataset' = dataset
  PROVE  /\ Keys' = Keys /\ Batches' = Batches
         /\ \A rows : Kept(rows)' = Kept(rows) /\ Normalized(rows)' = Normalized(rows)
<1>1. \A rows : Kept(rows)' = Kept(rows)
  BY DEF Kept
<1>2. \A rows : Normalized(rows)' = Normalized(rows)
  BY <1>1 DEF Normalized, Resolvable
<1>3. QED  BY <1>1, <1>2 DEF Keys, Batches

LEMMA NormalizedRows ==
  ASSUME NEW rows \in Batches
  PROVE  Normalized(rows) \subseteq DOMAIN rows /\ KeysAt(rows, Normalized(rows)) \subseteq Keys
BY BatchRows DEF Normalized, Kept, KeysAt

\* A step that touches no table and no batch that has been looked up.
LEMMA TablesStay ==
  ASSUME IngestInv, UNCHANGED <<dataset, stored, copies, told, excused>>, IngestType',
         \A p \in Procs : step'[p] = "looked" =>
           step[p] = "looked" /\ batch'[p] = batch[p] /\ seen'[p] = seen[p] /\ missed'[p] = missed[p]
  PROVE  IngestInv'
<1>1. Keys' = Keys /\ Stored' = Stored /\ \A rows : Normalized(rows)' = Normalized(rows)
  BY SameDataset DEF Stored
<1>2. LookupsAreRecent'
  <2> SUFFICES ASSUME dataset \in Inserted, NEW p \in Procs, step'[p] = "looked"
               PROVE  /\ seen'[p] \subseteq Stored
                      /\ Stored \cap KeysAt(batch'[p], Normalized(batch'[p])) \subseteq seen'[p] \cup missed'[p]
    BY <1>1 DEF LookupsAreRecent, KeysAt
  <2>1. step[p] = "looked" /\ batch'[p] = batch[p] /\ seen'[p] = seen[p] /\ missed'[p] = missed[p]
    OBVIOUS
  <2>2. QED  BY <2>1 DEF IngestInv, LookupsAreRecent
<1>3. IngestedIsKept'
  BY <1>1 DEF IngestInv, IngestedIsKept, LastSoundWord, ToldIsStoredOnce
<1>4. QED  BY <1>2, <1>3 DEF IngestInv

\* The one row of a key that is upserted is what the vendor said last of it.
LEMMA UpsertIsTold ==
  ASSUME IngestInv, dataset \in Upserted, NEW p \in Procs, Upsert(p)
  PROVE  stored' = told'
<1> DEFINE rows == batch[p]  good == Normalized(rows)
<1>1. rows \in Batches /\ stored = told
  BY DEF Upsert, IngestInv, IngestType, IngestedIsKept, LastSoundWord
<1>2. good \subseteq DOMAIN rows
  BY <1>1, NormalizedRows
<1>3. \A k : k \in KeysAt(rows, good)
               <=> /\ k \in KeysAt(rows, DOMAIN rows)
                   /\ \A i \in DOMAIN rows : rows[i].key = k => Sound(rows[i])
  BY <1>1, NormalizedIsSound
<1>4. Repeating(rows, good) = {}
  BY DEF Upsert
<1>5. \A i, j \in good : rows[i].key = rows[j].key => i = j
  BY <1>4 DEF Repeating, KeysAt
<1>6. \A i \in DOMAIN rows : rows[i].key \in KeysAt(rows, good) => i \in good
  <2> SUFFICES ASSUME NEW i \in DOMAIN rows, rows[i].key \in KeysAt(rows, good)
               PROVE  i \in good
    OBVIOUS
  <2>1. PICK j \in good : rows[j].key = rows[i].key
    BY DEF KeysAt
  <2>2. dataset \in Bars => rows[i].key \notin CorruptKeys(ValidateBars(rows))
    BY <2>1 DEF Normalized, Kept
  <2>3. Sound(rows[i])
    BY <1>3
  <2>4. QED  BY <2>2, <2>3 DEF Normalized, Kept, Sound
<1>7. \A k \in KeysAt(rows, good) : RowOf(rows, good, k) = RowOf(rows, DOMAIN rows, k)
  <2> SUFFICES ASSUME NEW k \in KeysAt(rows, good)
               PROVE  RowOf(rows, good, k) = RowOf(rows, DOMAIN rows, k)
    OBVIOUS
  <2>1. PICK j \in good : rows[j].key = k
    BY DEF KeysAt
  <2>2. \A i \in DOMAIN rows : rows[i].key = k => i = j
    BY <1>5, <1>6, <2>1
  <2>3. (CHOOSE i \in good : rows[i].key = k) = j
    BY <1>5, <2>1
  <2>4. (CHOOSE i \in DOMAIN rows : rows[i].key = k) = j
    BY <1>2, <2>1, <2>2
  <2>5. QED  BY <2>3, <2>4 DEF RowOf
<1>8. /\ stored' = [k \in Keys |-> IF k \in KeysAt(rows, good) THEN RowOf(rows, good, k)
                                   ELSE stored[k]]
      /\ told' = [k \in Keys |->
                    IF /\ k \in KeysAt(rows, DOMAIN rows)
                       /\ \A i \in DOMAIN rows : rows[i].key = k => Sound(rows[i])
                    THEN RowOf(rows, DOMAIN rows, k) ELSE told[k]]
  BY DEF Upsert
<1> HIDE DEF rows, good
<1>9. QED  BY <1>1, <1>3, <1>7, <1>8

LEMMA UpsertKeeps ==
  ASSUME IngestInv, dataset \in Upserted, NEW p \in Procs, Upsert(p)
  PROVE  IngestInv'
<1>1. /\ step' = [step EXCEPT ![p] = "idle"] /\ batch' = [batch EXCEPT ![p] = <<>>]
      /\ seen' = [seen EXCEPT ![p] = {}] /\ UNCHANGED <<dataset, copies, missed>>
  BY DEF Upsert, Over
<1>2. DOMAIN told' = Keys
  BY DEF Upsert
<1>3. IngestType'
  BY <1>1, <1>2, SameDataset DEF IngestInv, IngestType
<1>4. dataset' \in Upserted /\ dataset' \notin Inserted
  BY <1>1 DEF Upserted, Inserted, Bars
<1>5. QED  BY <1>3, <1>4, UpsertIsTold
         DEF IngestInv, LookupsAreRecent, IngestedIsKept, LastSoundWord, ToldIsStoredOnce

\* How many rows of a batch an insertion adds to a key.
LEMMA InsertedRows ==
  ASSUME NEW rows \in Batches, NEW at \in SUBSET DOMAIN rows, NEW k
  PROVE  LET n == Cardinality({i \in at : rows[i].key = k})
         IN  /\ n \in Nat /\ (n > 0 <=> k \in KeysAt(rows, at))
             /\ n > 1 => k \in Repeating(rows, DOMAIN rows)
<1> DEFINE with == {i \in at : rows[i].key = k}
<1>1. IsFiniteSet(with)
  BY BatchRows, FS_Subset
<1>2. Cardinality(with) \in Nat /\ (Cardinality(with) = 0 <=> with = {})
  BY <1>1, FS_CardinalityType, FS_EmptySet
<1>3. with # {} <=> k \in KeysAt(rows, at)
  BY DEF KeysAt
<1>4. ASSUME Cardinality(with) > 1 PROVE k \in Repeating(rows, DOMAIN rows)
  <2>1. PICK i \in with : TRUE
    BY <1>2, <1>4
  <2>2. with # {i}
    <3>1. Cardinality({i}) = 1
      BY FS_Singleton
    <3> HIDE DEF with
    <3>2. QED  BY <1>4, <3>1
  <2>3. PICK j \in with : j # i
    BY <2>1, <2>2
  <2>4. i \in DOMAIN rows /\ j \in DOMAIN rows /\ rows[i].key = k /\ rows[j].key = k
    BY <2>1, <2>3
  <2>5. QED  BY <2>3, <2>4 DEF Repeating, KeysAt
<1> HIDE DEF with
<1>5. QED  BY <1>2, <1>3, <1>4 DEF with

LEMMA InsertKeeps ==
  ASSUME IngestInv, dataset \in Inserted, NEW p \in Procs, Insert(p)
  PROVE  IngestInv'
<1> DEFINE rows == batch[p]  new == KeysAt(rows, Fresh(p))  all == KeysAt(rows, Normalized(rows))
           n(k) == Cardinality({i \in Fresh(p) : rows[i].key = k})
<1>1. /\ step[p] = "looked" /\ dataset' = dataset
      /\ copies' = [k \in Keys |-> copies[k] + n(k)]
      /\ missed' = [q \in Procs |-> IF step[q] = "looked" /\ q # p
                                    THEN missed[q] \cup new ELSE missed[q]]
      /\ excused' = excused \cup Repeating(rows, DOMAIN rows) \cup missed[p]
      /\ told' = [k \in Keys |-> IF k \in all THEN RowOf(rows, DOMAIN rows, k) ELSE told[k]]
  BY DEF Insert
<1>2. /\ step' = [step EXCEPT ![p] = "idle"] /\ batch' = [batch EXCEPT ![p] = <<>>]
      /\ seen' = [seen EXCEPT ![p] = {}]
  BY DEF Insert, Over
<1>3. IngestType /\ rows \in Batches
  BY <1>1 DEF IngestInv, IngestType
<1>4. /\ Keys' = Keys /\ Batches' = Batches /\ \A r : Normalized(r)' = Normalized(r)
  BY <1>1, SameDataset
<1>5. Normalized(rows) \subseteq DOMAIN rows /\ all \subseteq Keys
  BY <1>3, NormalizedRows
<1>6. Fresh(p) \subseteq Normalized(rows) /\ new = all \ seen[p]
  BY DEF Fresh, KeysAt
<1>7. \A k : /\ n(k) \in Nat /\ (n(k) > 0 <=> k \in new)
             /\ n(k) > 1 => k \in Repeating(rows, DOMAIN rows)
  BY <1>3, <1>5, <1>6, InsertedRows
<1>8. /\ seen[p] \subseteq Stored /\ Stored \cap all \subseteq seen[p] \cup missed[p]
      /\ \A k \in Keys : /\ told[k] # None => copies[k] > 0
                         /\ copies[k] > 1 => k \in excused
  BY <1>1 DEF IngestInv, LookupsAreRecent, IngestedIsKept, ToldIsStoredOnce
<1>9. copies \in [Keys -> Nat] /\ Stored = {k \in Keys : copies[k] > 0}
  BY <1>3 DEF IngestType, Stored
<1> HIDE DEF n, new, all, rows
<1>10. copies' \in [Keys -> Nat] /\ \A k \in Keys : copies'[k] = copies[k] + n(k)
  BY <1>1, <1>7, <1>9
<1>11. IngestType'
  <2>1. DOMAIN told' = Keys /\ DOMAIN missed' = Procs
    BY <1>1
  <2>2. QED  BY <1>1, <1>2, <1>3, <1>4, <1>10, <2>1 DEF IngestType
<1>12. Stored' = Stored \cup new
  <2>1. Stored' = {k \in Keys : copies'[k] > 0}
    BY <1>4 DEF Stored
  <2>2. \A k \in Keys : copies'[k] > 0 <=> copies[k] > 0 \/ k \in new
    BY <1>7, <1>9, <1>10
  <2>3. QED  BY <1>5, <1>6, <1>9, <2>1, <2>2
<1>13. LookupsAreRecent'
  <2> SUFFICES ASSUME NEW q \in Procs, step'[q] = "looked"
               PROVE  /\ seen'[q] \subseteq Stored'
                      /\ Stored' \cap KeysAt(batch'[q], Normalized(batch'[q])) \subseteq seen'[q] \cup missed'[q]
    BY <1>4 DEF LookupsAreRecent, KeysAt
  <2>1. q # p /\ step[q] = "looked" /\ batch'[q] = batch[q] /\ seen'[q] = seen[q]
    BY <1>2, <1>3 DEF IngestType
  <2>2. missed'[q] = missed[q] \cup new
    BY <1>1, <2>1
  <2>3. /\ seen[q] \subseteq Stored
        /\ Stored \cap KeysAt(batch[q], Normalized(batch[q])) \subseteq seen[q] \cup missed[q]
    BY <2>1 DEF IngestInv, LookupsAreRecent
  <2>4. QED  BY <1>12, <2>1, <2>2, <2>3
<1>14. ToldIsStoredOnce'
  <2> SUFFICES ASSUME NEW k \in Keys
               PROVE  /\ told'[k] # None => copies'[k] > 0
                      /\ copies'[k] > 1 => k \in excused'
    BY <1>4 DEF ToldIsStoredOnce
  <2>1. copies[k] \in Nat /\ n(k) \in Nat /\ copies'[k] = copies[k] + n(k)
    BY <1>7, <1>9, <1>10
  <2>2. ASSUME told'[k] # None PROVE copies'[k] > 0
    <3>1. CASE k \in all
      <4>1. copies[k] > 0 \/ n(k) > 0
        BY <1>6, <1>7, <1>8, <1>9, <3>1
      <4>2. QED  BY <2>1, <4>1
    <3>2. CASE k \notin all
      <4>1. told'[k] = told[k]
        BY <1>1, <3>2
      <4>2. QED  BY <1>8, <2>1, <2>2, <4>1
    <3>3. QED  BY <3>1, <3>2
  <2>3. ASSUME copies'[k] > 1 PROVE k \in excused'
    <3>1. copies[k] > 1 \/ n(k) > 1 \/ (copies[k] > 0 /\ n(k) > 0)
      BY <2>1, <2>3
    <3>2. copies[k] > 0 /\ n(k) > 0 => k \in missed[p]
      BY <1>6, <1>7, <1>8, <1>9
    <3>3. QED  BY <1>1, <1>7, <1>8, <3>1, <3>2
  <2>4. QED  BY <2>2, <2>3
<1>15. dataset' \notin Upserted
  BY <1>1 DEF Inserted, Upserted, Bars
<1>16. QED  BY <1>11, <1>13, <1>14, <1>15 DEF IngestInv, IngestedIsKept, LastSoundWord

\* No step of an ingestion run loses or doubles what a run was told, whatever the others do.
LEMMA IngestStep == IngestInv /\ IngestNext => IngestInv'
<1> SUFFICES ASSUME IngestInv, NEW p \in Procs,
                    \/ Collect(p) \/ StoreBars(p) \/ StoreMacro(p)
                    \/ Lookup(p) \/ InsertNews(p) \/ InsertEvents(p) \/ Abort(p)
             PROVE  IngestInv'
  BY DEF IngestNext
<1> USE DEF local
<1>1. CASE Collect(p)
  <2>1. PICK rows \in Batches : /\ batch' = [batch EXCEPT ![p] = rows]
                                /\ step' = [step EXCEPT ![p] = "collected"]
    BY <1>1 DEF Collect
  <2>2. UNCHANGED <<dataset, stored, copies, seen, told, missed, excused>>
    BY <1>1 DEF Collect
  <2>3. IngestType'
    BY <2>1, <2>2, SameDataset DEF IngestInv, IngestType
  <2>4. \A q \in Procs : step'[q] = "looked" => step[q] = "looked" /\ batch'[q] = batch[q]
    BY <2>1 DEF IngestInv, IngestType
  <2>5. QED  BY <2>2, <2>3, <2>4, TablesStay
<1>2. CASE StoreBars(p)
  BY <1>2, UpsertKeeps DEF StoreBars, Upserted
<1>3. CASE StoreMacro(p)
  BY <1>3, UpsertKeeps DEF StoreMacro, Upserted
<1>4. CASE Lookup(p)
  <2>1. /\ step[p] = "collected" /\ dataset \in Inserted
        /\ seen' = [seen EXCEPT ![p] = Found(batch[p])]
        /\ missed' = [missed EXCEPT ![p] = {}] /\ step' = [step EXCEPT ![p] = "looked"]
        /\ UNCHANGED <<dataset, stored, copies, batch, told, excused>>
    BY <1>4 DEF Lookup
  <2>2. Keys' = Keys /\ Stored' = Stored /\ \A rows : Normalized(rows)' = Normalized(rows)
    BY <2>1, SameDataset DEF Stored
  <2>3. IngestType'
    BY <2>1, SameDataset DEF IngestInv, IngestType
  <2>4. LookupsAreRecent'
    <3> SUFFICES ASSUME NEW q \in Procs, step'[q] = "looked"
                 PROVE  /\ seen'[q] \subseteq Stored
                        /\ Stored \cap KeysAt(batch[q], Normalized(batch[q])) \subseteq seen'[q] \cup missed'[q]
      BY <2>1, <2>2 DEF LookupsAreRecent, KeysAt
    <3>1. CASE q = p
      BY <2>1, <3>1 DEF IngestInv, IngestType, Found
    <3>2. CASE q # p
      <4>1. step[q] = "looked" /\ seen'[q] = seen[q] /\ missed'[q] = missed[q]
        BY <2>1, <3>2 DEF IngestInv, IngestType
      <4>2. QED  BY <2>1, <4>1 DEF IngestInv, LookupsAreRecent
    <3>3. QED  BY <3>1, <3>2
  <2>5. IngestedIsKept'
    BY <2>1, <2>2 DEF IngestInv, IngestedIsKept, LastSoundWord, ToldIsStoredOnce
  <2>6. QED  BY <2>3, <2>4, <2>5 DEF IngestInv
<1>5. CASE InsertNews(p)
  BY <1>5, InsertKeeps DEF InsertNews, Inserted
<1>6. CASE InsertEvents(p)
  BY <1>6, InsertKeeps DEF InsertEvents, Inserted
<1>7. CASE Abort(p)
  <2>1. /\ step' = [step EXCEPT ![p] = "idle"] /\ batch' = [batch EXCEPT ![p] = <<>>]
        /\ seen' = [seen EXCEPT ![p] = {}]
        /\ UNCHANGED <<dataset, stored, copies, told, missed, excused>>
    BY <1>7 DEF Abort, Over
  <2>2. IngestType'
    BY <2>1, SameDataset DEF IngestInv, IngestType
  <2>3. \A q \in Procs : step'[q] = "looked" =>
          step[q] = "looked" /\ batch'[q] = batch[q] /\ seen'[q] = seen[q]
    BY <2>1 DEF IngestInv, IngestType
  <2>4. QED  BY <2>1, <2>2, <2>3, TablesStay
<1>8. QED  BY <1>1, <1>2, <1>3, <1>4, <1>5, <1>6, <1>7

LEMMA IngestStutters == IngestInv /\ UNCHANGED ingestVars => IngestInv'
<1> SUFFICES ASSUME IngestInv, UNCHANGED ingestVars PROVE IngestInv'
  OBVIOUS
<1>1. UNCHANGED <<dataset, stored, copies, step, batch, seen, missed, told, excused>>
  BY DEF ingestVars, local
<1>2. IngestType'
  BY <1>1, SameDataset DEF IngestInv, IngestType
<1>3. QED  BY <1>1, <1>2, TablesStay

\* For every feed, universe and batch size, and any number of runs that overlap: a bar or
\* an observation in the table is the last sound one a committed run was told, and a news
\* item or event a committed run was told of is there, and once, unless its batch repeated
\* it or two runs raced for it (ingest_eod, ingest_index, ingest_macro, ingest_news and
\* ingest_events).
THEOREM IngestionKeepsWhatItIsTold == Spec => []IngestedIsKept
<1>1. Init => IngestInv
  BY IngestStart DEF Init
<1>2. IngestInv /\ [Next]_vars => IngestInv'
  BY IngestStep, IngestStutters DEF Next, Ingest, Serve, Monitor, vars
<1>3. IngestInv => IngestedIsKept
  BY DEF IngestInv
<1>4. QED  BY <1>1, <1>2, <1>3, PTL DEF Spec

-----------------------------------------------------------------------------
(* Ingestion: what a full mark means *)

\* A function of a finite set has finitely many values.
LEMMA ValuesFinite ==
  ASSUME NEW S, IsFiniteSet(S), NEW f, DOMAIN f = S
  PROVE  IsFiniteSet({f[x] : x \in S})
<1> DEFINE g == [x \in S |-> f[x]]
<1>1. g \in Surjection(S, {f[x] : x \in S})
  BY DEF Surjection
<1> HIDE DEF g
<1>2. QED  BY <1>1, FS_Surjection

\* A batch has finitely many issues.
LEMMA IssuesFinite ==
  ASSUME dataset \in Bars, NEW rows \in Batches
  PROVE  IsFiniteSet(Issues(rows))
<1> DEFINE at == DOMAIN rows
<1>1. IsFiniteSet(at)
  BY BatchRows
<1>2. \A sub \in SUBSET at : IsFiniteSet(sub)
  BY <1>1, FS_Subset
<1>3. ASSUME NEW sub \in SUBSET at, NEW field, NEW rule
      PROVE  IsFiniteSet({Issue(i, rows[i].key, field, rule) : i \in sub})
  <2>1. IsFiniteSet(sub)
    BY <1>2
  <2> DEFINE f == [i \in sub |-> Issue(i, rows[i].key, field, rule)]
  <2>2. DOMAIN f = sub /\ \A i \in sub : f[i] = Issue(i, rows[i].key, field, rule)
    OBVIOUS
  <2> HIDE DEF f
  <2>3. IsFiniteSet({f[i] : i \in sub})
    BY <2>1, <2>2, ValuesFinite
  <2>4. {f[i] : i \in sub} = {Issue(i, rows[i].key, field, rule) : i \in sub}
    BY <2>2
  <2>5. QED  BY <2>3, <2>4
<1>4. IsFiniteSet(Duplicates(rows, "trade_date"))
  <2> DEFINE sub == {i \in at : \E j \in 1 .. i - 1 : rows[j].key = rows[i].key}
  <2>1. Duplicates(rows, "trade_date") = {Issue(i, rows[i].key, "trade_date", "duplicate") : i \in sub}
    BY DEF Duplicates
  <2>2. sub \in SUBSET at
    OBVIOUS
  <2> HIDE DEF sub
  <2>3. IsFiniteSet({Issue(i, rows[i].key, "trade_date", "duplicate") : i \in sub})
    BY <1>3, <2>2, ZenonT(40)
  <2>4. QED  BY <2>1, <2>3 DEF sub
<1>5. IsFiniteSet(OutsideWindow(rows, "trade_date"))
  <2> DEFINE sub == {i \in at : rows[i].day \notin Days}
  <2>1. OutsideWindow(rows, "trade_date") =
          {Issue(i, rows[i].key, "trade_date", "outside window") : i \in sub}
    BY DEF OutsideWindow
  <2>2. sub \in SUBSET at
    OBVIOUS
  <2> HIDE DEF sub
  <2>3. IsFiniteSet({Issue(i, rows[i].key, "trade_date", "outside window") : i \in sub})
    BY <1>3, <2>2, ZenonT(40)
  <2>4. QED  BY <2>1, <2>3 DEF sub
<1>6. ASSUME NEW i \in at PROVE IsFiniteSet(CheckOhlcRow(i, rows[i]))
  <2> DEFINE wrong(cond, field, rule) ==
        IF cond THEN {Issue(i, rows[i].key, field, rule)} ELSE {}
  <2>2. IsFiniteSet(PriceFields)
    <3>1. IsFiniteSet({} \cup {"open"})
      BY FS_EmptySet, FS_AddElement
    <3>2. IsFiniteSet({"open"} \cup {"high"})
      BY <3>1, FS_AddElement
    <3>3. IsFiniteSet({"open", "high"} \cup {"low"})
      BY <3>2, FS_AddElement
    <3>4. IsFiniteSet({"open", "high", "low"} \cup {"close"})
      BY <3>3, FS_AddElement
    <3>5. QED  BY <3>4 DEF PriceFields
  <2> DEFINE price == [f \in PriceFields |-> wrong(rows[i][f] <= 0, f, "must be > 0")]
             prices == UNION {price[f] : f \in PriceFields}
             a == wrong(rows[i].high < rows[i].low, "high", "high < low")
             b == wrong(rows[i].close > rows[i].high, "close", "close > high")
             c == wrong(rows[i].close < rows[i].low, "close", "close < low")
             d == wrong(rows[i].volume < 0, "volume", "must be >= 0")
  <2>3. CheckOhlcRow(i, rows[i]) = prices \cup a \cup b \cup c \cup d
    BY DEF CheckOhlcRow
  <2>4. IsFiniteSet(a) /\ IsFiniteSet(b) /\ IsFiniteSet(c) /\ IsFiniteSet(d)
    BY FS_EmptySet, FS_Singleton
  <2>5. DOMAIN price = PriceFields /\ \A f \in PriceFields : IsFiniteSet(price[f])
    BY FS_EmptySet, FS_Singleton
  <2> HIDE DEF price, a, b, c, d
  <2>6. IsFiniteSet({price[f] : f \in PriceFields})
    BY <2>2, <2>5, ValuesFinite
  <2>7. IsFiniteSet(prices)
    BY <2>5, <2>6, FS_UNION
  <2> HIDE DEF prices
  <2>8. IsFiniteSet(prices \cup a \cup b \cup c \cup d)
    BY <2>4, <2>7, FS_Union
  <2>9. QED  BY <2>3, <2>8
<1>7. IsFiniteSet(UNION {CheckOhlcRow(i, rows[i]) : i \in at})
  <2> DEFINE found == [i \in at |-> CheckOhlcRow(i, rows[i])]
  <2>1. DOMAIN found = at /\ \A i \in at : IsFiniteSet(found[i])
    BY <1>6
  <2>2. UNION {CheckOhlcRow(i, rows[i]) : i \in at} = UNION {found[i] : i \in at}
    OBVIOUS
  <2> HIDE DEF found
  <2>3. IsFiniteSet({found[i] : i \in at})
    BY <1>1, <2>1, ValuesFinite
  <2>4. QED  BY <2>1, <2>2, <2>3, FS_UNION
<1>8. IsFiniteSet(Validate(rows))
  <2>1. IsFiniteSet(ValidateBars(rows))
    BY <1>4, <1>5, <1>7, FS_Union DEF ValidateBars
  <2>2. Validate(rows) = ValidateBars(rows)
    BY DEF Validate, Bars
  <2>3. QED  BY <2>1, <2>2
<1>9. IsFiniteSet(NormalizeIssues(rows))
  <2>1. NormalizeIssues(rows) =
          {Issue(i, rows[i].key, "symbol", "unknown") : i \in Kept(rows) \ Normalized(rows)}
    BY DEF NormalizeIssues, Bars
  <2> DEFINE sub == Kept(rows) \ Normalized(rows)
  <2>2. sub \in SUBSET at
    BY DEF Kept
  <2> HIDE DEF sub
  <2>3. IsFiniteSet({Issue(i, rows[i].key, "symbol", "unknown") : i \in sub})
    BY <1>3, <2>2, ZenonT(40)
  <2>4. QED  BY <2>1, <2>3 DEF sub
<1>10. QED  BY <1>8, <1>9, FS_Union DEF Issues

\* A batch without an issue of validity has no row outside the window and none that is kept
\* and cannot be resolved.
LEMMA ValidIsInside ==
  ASSUME dataset \in Bars, NEW rows \in Batches, Full(BarScore(rows).dims.validity)
  PROVE  /\ \A i \in DOMAIN rows : rows[i].day \in Days
         /\ Kept(rows) \subseteq Normalized(rows)
<1> DEFINE invalid == {is \in Issues(rows) : ClassifyIssue(is) = "validity"}
<1>1. PICK n \in Nat : n = Len(rows) /\ n > 0
  BY FeedAssumption DEF Batches
<1>2. invalid = {}
  <2>1. IsFiniteSet(invalid)
    BY IssuesFinite, FS_Subset
  <2>2. PICK c : c = Cardinality(invalid) /\ c \in Nat
    BY <2>1, FS_CardinalityType
  <2>3. BarScore(rows).dims.validity = Ratio(n - c, n)
    BY <1>1, <2>2 DEF BarScore, ComputeQuality
  <2>4. Ratio(n - c, n) = [num |-> n - c, den |-> n]
    BY <1>1 DEF Ratio
  <2>5. n - c = n
    BY <2>3, <2>4 DEF Full
  <2>6. c = 0
    BY <1>1, <2>2, <2>5
  <2>7. QED  BY <2>1, <2>2, <2>6, FS_EmptySet
<1>3. \A i, key, field, rule :
        rule \in {"outside window", "unknown"} => ClassifyIssue(Issue(i, key, field, rule)) = "validity"
  BY DEF ClassifyIssue, Issue, CoherenceRules
<1>4. ASSUME NEW i \in DOMAIN rows, rows[i].day \notin Days PROVE FALSE
  <2> DEFINE is == Issue(i, rows[i].key, "trade_date", "outside window")
  <2>1. is \in OutsideWindow(rows, "trade_date")
    BY <1>4 DEF OutsideWindow
  <2>2. Validate(rows) = ValidateBars(rows) /\ is \in ValidateBars(rows)
    BY <2>1 DEF Validate, ValidateBars, Bars
  <2>3. is \in Issues(rows)
    BY <2>2 DEF Issues
  <2>4. QED  BY <1>2, <1>3, <2>3
<1>5. ASSUME NEW i \in Kept(rows), i \notin Normalized(rows) PROVE FALSE
  <2> DEFINE is == Issue(i, rows[i].key, "symbol", "unknown")
  <2>1. is \in NormalizeIssues(rows)
    BY <1>5 DEF NormalizeIssues, Bars
  <2>2. is \in Issues(rows)
    BY <2>1 DEF Issues
  <2>3. QED  BY <1>2, <1>3, <2>2
<1>6. QED  BY <1>4, <1>5

\* A complete and valid batch without strays has a row to store for everything asked for.
LEMMA FullIsEverything ==
  ASSUME dataset \in Bars, NEW rows \in Batches, Strays(rows) = {},
         Full(BarScore(rows).dims.completeness), Full(BarScore(rows).dims.validity)
  PROVE  Symbols \X Window \subseteq KeysAt(rows, Normalized(rows))
<1> DEFINE present == KeysAt(rows, Kept(rows))  asked == Symbols \X Window
<1>1. present \subseteq asked
  BY DEF Strays, KeysAt
<1>2. IsFiniteSet(Symbols) /\ IsFiniteSet(Window) /\ IsFiniteSet(asked)
  BY FeedAssumption, FS_Subset, FS_Product
<1>3. Cardinality(asked) = ExpectedKeys
  BY <1>2, FS_Product DEF ExpectedKeys
<1>4. Cardinality(present) = ExpectedKeys
  <2>1. BarScore(rows).dims.completeness =
          IF ExpectedKeys \in {None, 0} THEN None ELSE Ratio(Cardinality(present), ExpectedKeys)
    BY DEF BarScore, ComputeQuality
  <2>2. BarScore(rows).dims.completeness = [num |-> Cardinality(present), den |-> ExpectedKeys]
    BY <2>1 DEF Full, Ratio
  <2>3. QED  BY <2>2 DEF Full
<1>5. present = asked
  BY <1>1, <1>2, <1>3, <1>4, FS_Subset
<1>6. Kept(rows) \subseteq Normalized(rows)
  BY ValidIsInside
<1>7. QED  BY <1>5, <1>6 DEF KeysAt

MarksInv == IngestInv /\ FullMarksAreEarned /\ DOMAIN stored = Keys

\* What was stored stays, and no other batch is scored.
LEMMA MarksStay ==
  ASSUME FullMarksAreEarned, UNCHANGED <<dataset, score, stored>>
  PROVE  FullMarksAreEarned'
BY SameDataset DEF FullMarksAreEarned, Full

\* A batch that is stored is the one that is scored.
LEMMA MarksOfBatch ==
  ASSUME MarksInv, NEW p \in Procs, StoreBars(p) PROVE FullMarksAreEarned'
<1> DEFINE rows == batch[p]  good == Normalized(rows)
<1>1. /\ dataset \in Bars /\ dataset' = dataset /\ step[p] = "collected"
      /\ score' = Scored(BarScore(rows), rows)
      /\ stored' = [k \in Keys |-> IF k \in KeysAt(rows, good) THEN RowOf(rows, good, k) ELSE stored[k]]
  BY DEF StoreBars, Upsert
<1>2. rows \in Batches /\ Keys' = Keys
  BY <1>1, SameDataset DEF MarksInv, IngestInv, IngestType
<1>3. SUFFICES ASSUME Strays(rows) = {}, Full(BarScore(rows).dims.completeness),
                      Full(BarScore(rows).dims.validity), NEW k \in Symbols \X Window
               PROVE  k \in Keys /\ stored'[k] # None
  BY <1>1, <1>2 DEF FullMarksAreEarned, Scored, Full
<1>4. k \in KeysAt(rows, good) /\ k \in Keys
  BY <1>1, <1>2, <1>3, FullIsEverything, NormalizedRows
<1>5. PICK i \in good : rows[i].key = k /\ RowOf(rows, good, k) = rows[i]
  BY <1>4 DEF KeysAt, RowOf
<1>6. rows[i] \in Feed[dataset]
  BY <1>2, <1>5, BatchRows, NormalizedRows
<1>7. rows[i] # None
  BY <1>1, <1>6, FeedAssumption
<1>8. QED  BY <1>1, <1>4, <1>5, <1>7

LEMMA MarksStep == MarksInv /\ [Next]_vars => MarksInv'
<1> SUFFICES ASSUME MarksInv, [Next]_vars PROVE MarksInv'
  OBVIOUS
<1>1. IngestInv'
  BY IngestStep, IngestStutters DEF MarksInv, Next, Ingest, Serve, Monitor, vars
<1>2. CASE UNCHANGED ingestVars
  <2>1. UNCHANGED <<dataset, score, stored>>
    BY <1>2 DEF ingestVars
  <2>2. QED  BY <1>1, <2>1, MarksStay, SameDataset DEF MarksInv
<1>3. CASE IngestNext
  <2>1. PICK p \in Procs : \/ Collect(p) \/ StoreBars(p) \/ StoreMacro(p)
                          \/ Lookup(p) \/ InsertNews(p) \/ InsertEvents(p) \/ Abort(p)
    BY <1>3 DEF IngestNext
  <2>2. CASE Collect(p) \/ Lookup(p) \/ Abort(p)
    <3>1. UNCHANGED <<dataset, score, stored>>
      BY <2>2 DEF Collect, Lookup, Abort
    <3>2. QED  BY <1>1, <3>1, MarksStay, SameDataset DEF MarksInv
  <2>3. CASE StoreMacro(p) \/ InsertNews(p) \/ InsertEvents(p)
    <3>1. dataset \notin Bars /\ dataset' = dataset
      BY <2>3 DEF StoreMacro, InsertNews, InsertEvents, Insert, Upsert, Bars
    <3>2. FullMarksAreEarned'
      BY <3>1 DEF FullMarksAreEarned
    <3>3. DOMAIN stored' = Keys
      BY <2>3 DEF StoreMacro, InsertNews, InsertEvents, Insert, Upsert, MarksInv
    <3>4. QED  BY <1>1, <3>1, <3>2, <3>3, SameDataset DEF MarksInv
  <2>4. CASE StoreBars(p)
    <3>1. FullMarksAreEarned'
      BY <2>4, MarksOfBatch
    <3>2. DOMAIN stored' = Keys /\ dataset' = dataset
      BY <2>4 DEF StoreBars, Upsert
    <3>3. QED  BY <1>1, <3>1, <3>2, SameDataset DEF MarksInv
  <2>5. QED  BY <2>1, <2>2, <2>3, <2>4
<1>4. QED  BY <1>2, <1>3 DEF Next, Ingest, Serve, Monitor, vars

\* For every feed, universe, window and number of runs: a batch of bars that its score calls
\* complete and valid left no hole, unless a bar of a weekend or of a code nobody asked for
\* stands in for a missing one (compute_quality, ingest_eod, ingest_index).
THEOREM FullMarksAreReal == Spec => []FullMarksAreEarned
<1>1. Init => MarksInv
  BY IngestStart DEF Init, IngestInit, MarksInv, FullMarksAreEarned
<1>2. MarksInv /\ [Next]_vars => MarksInv'
  BY MarksStep
<1>3. MarksInv => FullMarksAreEarned
  BY DEF MarksInv
<1>4. QED  BY <1>1, <1>2, <1>3, PTL DEF Spec

-----------------------------------------------------------------------------
(* The API process: lists of steps *)

Getters == {"market", "rag", "audit", "orchestrator"}
Verbs == {"call", "make", "keep", "seed", "mirror", "predict", "run"}
Steps == Verbs \X (Getters \cup {""})
Depth == [market |-> 0, audit |-> 0, rag |-> 1, orchestrator |-> 2]

\* Getters call only getters of less depth, what is built is kept once, and a new index
\* is seeded, mirrored and kept in that order.
InOrder(s) ==
  \A i \in 1 .. Len(s) :
    /\ \A j \in 1 .. Len(s), g, h \in Getters :
         /\ i < j /\ s[i] = <<"call", h>> /\ s[j] = <<"keep", g>> => Depth[h] < Depth[g]
         /\ s[i] = <<"keep", g>> /\ s[j] = <<"keep", g>> => i = j
    /\ \A g \in Getters : s[i] = <<"make", g>> =>
         \E j \in 1 .. Len(s) : i < j /\ s[j] = <<"keep", g>>
    /\ s[i] = <<"make", "rag">> => \E j \in 1 .. Len(s) : i < j /\ s[j] = <<"seed", "rag">>
    /\ s[i] = <<"seed", "rag">> => i < Len(s) /\ s[i + 1] = <<"mirror", "rag">>
    /\ s[i] = <<"mirror", "rag">> => i < Len(s) /\ s[i + 1] = <<"keep", "rag">>

\* What a step needs and gives: an instance the request was given, or one its thread built.
Uses(x) ==
  CASE x = <<"make", "orchestrator">> -> {"got"} \X {"market", "rag", "audit"}
    [] x = <<"seed", "rag">> -> {<<"got", "market">>, <<"made", "rag">>}
    [] x = <<"run", "">> -> {<<"got", "orchestrator">>}
    [] x \in {<<"keep", "rag">>, <<"mirror", "rag">>} -> {<<"made", "rag">>}
    [] x = <<"keep", "orchestrator">> -> {<<"made", "orchestrator">>}
    [] OTHER -> {}

Gives(x) ==
  IF x[1] \in {"call", "keep"} THEN {<<"got", x[2]>>}
  ELSE IF x[1] = "make" THEN {<<"made", x[2]>>} ELSE {}

Supplied(s, known) ==
  \A i \in 1 .. Len(s) : \A n \in Uses(s[i]) :
    n \in known \/ \E j \in 1 .. Len(s) : j < i /\ n \in Gives(s[j])

Has(s, x) == \E i \in 1 .. Len(s) : s[i] = x

LEMMA TailInOrder ==
  ASSUME NEW s \in Seq(Steps), s # <<>>, InOrder(s)
  PROVE  InOrder(Tail(s)) /\ Tail(s) \in Seq(Steps)
<1>1. /\ Len(s) \in Nat /\ Tail(s) \in Seq(Steps) /\ Len(Tail(s)) = Len(s) - 1
      /\ \A i \in 1 .. Len(Tail(s)) : Tail(s)[i] = s[i + 1]
  BY HeadTailProperties
<1> DEFINE r == Tail(s)
<1>2. \A i \in 1 .. Len(r) : i + 1 \in 1 .. Len(s) /\ r[i] = s[i + 1]
  BY <1>1
<1>3. \A j \in 1 .. Len(s) : j > 1 => j - 1 \in 1 .. Len(r) /\ r[j - 1] = s[j]
  BY <1>1
<1>4. Len(r) = Len(s) - 1 /\ Len(s) \in Nat
  BY <1>1
<1> HIDE DEF r
<1>5. SUFFICES ASSUME NEW i \in 1 .. Len(r)
      PROVE  /\ \A j \in 1 .. Len(r), g, h \in Getters :
                  /\ i < j /\ r[i] = <<"call", h>> /\ r[j] = <<"keep", g>> => Depth[h] < Depth[g]
                  /\ r[i] = <<"keep", g>> /\ r[j] = <<"keep", g>> => i = j
             /\ \A g \in Getters : r[i] = <<"make", g>> =>
                  \E j \in 1 .. Len(r) : i < j /\ r[j] = <<"keep", g>>
             /\ r[i] = <<"make", "rag">> => \E j \in 1 .. Len(r) : i < j /\ r[j] = <<"seed", "rag">>
             /\ r[i] = <<"seed", "rag">> => i < Len(r) /\ r[i + 1] = <<"mirror", "rag">>
             /\ r[i] = <<"mirror", "rag">> => i < Len(r) /\ r[i + 1] = <<"keep", "rag">>
  BY <1>1 DEF InOrder, r
<1>6. i + 1 \in 1 .. Len(s) /\ r[i] = s[i + 1] /\ i \in Nat
  BY <1>2
<1>7. ASSUME NEW j \in 1 .. Len(r), NEW g \in Getters, NEW h \in Getters
      PROVE  /\ i < j /\ r[i] = <<"call", h>> /\ r[j] = <<"keep", g>> => Depth[h] < Depth[g]
             /\ r[i] = <<"keep", g>> /\ r[j] = <<"keep", g>> => i = j
  <2>1. j + 1 \in 1 .. Len(s) /\ r[j] = s[j + 1] /\ j \in Nat /\ (i < j => i + 1 < j + 1)
    BY <1>2, <1>6
  <2>2. /\ i + 1 < j + 1 /\ s[i + 1] = <<"call", h>> /\ s[j + 1] = <<"keep", g>> => Depth[h] < Depth[g]
        /\ s[i + 1] = <<"keep", g>> /\ s[j + 1] = <<"keep", g>> => i + 1 = j + 1
    BY <1>6, <2>1 DEF InOrder
  <2>3. QED  BY <1>6, <2>1, <2>2
<1>8. ASSUME NEW x, \E j \in 1 .. Len(s) : i + 1 < j /\ s[j] = x
      PROVE  \E j \in 1 .. Len(r) : i < j /\ r[j] = x
  <2>1. PICK j \in 1 .. Len(s) : i + 1 < j /\ s[j] = x
    BY <1>8
  <2>2. j - 1 \in 1 .. Len(r) /\ i < j - 1 /\ r[j - 1] = x
    BY <1>3, <1>6, <2>1
  <2>3. QED  BY <2>2
<1>9. ASSUME NEW x, i + 1 < Len(s) /\ s[(i + 1) + 1] = x
      PROVE  i < Len(r) /\ r[i + 1] = x
  <2>1. i < Len(r) /\ i + 1 \in 1 .. Len(r)
    BY <1>4, <1>6, <1>9
  <2>2. QED  BY <1>2, <1>9, <2>1
<1>10. /\ \A g \in Getters : s[i + 1] = <<"make", g>> =>
            \E j \in 1 .. Len(s) : i + 1 < j /\ s[j] = <<"keep", g>>
       /\ s[i + 1] = <<"make", "rag">> => \E j \in 1 .. Len(s) : i + 1 < j /\ s[j] = <<"seed", "rag">>
       /\ s[i + 1] = <<"seed", "rag">> => i + 1 < Len(s) /\ s[(i + 1) + 1] = <<"mirror", "rag">>
       /\ s[i + 1] = <<"mirror", "rag">> => i + 1 < Len(s) /\ s[(i + 1) + 1] = <<"keep", "rag">>
  BY <1>6 DEF InOrder
<1>11. \A g \in Getters : r[i] = <<"make", g>> =>
          \E j \in 1 .. Len(r) : i < j /\ r[j] = <<"keep", g>>
  BY <1>6, <1>8, <1>10
<1>12. r[i] = <<"make", "rag">> => \E j \in 1 .. Len(r) : i < j /\ r[j] = <<"seed", "rag">>
  BY <1>6, <1>8, <1>10
<1>13. /\ r[i] = <<"seed", "rag">> => i < Len(r) /\ r[i + 1] = <<"mirror", "rag">>
       /\ r[i] = <<"mirror", "rag">> => i < Len(r) /\ r[i + 1] = <<"keep", "rag">>
  BY <1>6, <1>9, <1>10
<1>14. QED  BY <1>7, <1>11, <1>12, <1>13

\* The head has what it uses; the others have it once the head has given what it gives.
LEMMA HeadIsSupplied ==
  ASSUME NEW s \in Seq(Steps), s # <<>>, NEW known, Supplied(s, known)
  PROVE  /\ Uses(Head(s)) \subseteq known
         /\ \A more : known \cup Gives(Head(s)) \subseteq more => Supplied(Tail(s), more)
<1>1. /\ Len(s) \in Nat \ {0} /\ Head(s) = s[1] /\ Len(Tail(s)) = Len(s) - 1
      /\ \A i \in 1 .. Len(Tail(s)) : Tail(s)[i] = s[i + 1]
  BY HeadTailProperties
<1>2. Uses(Head(s)) \subseteq known
  <2> SUFFICES ASSUME NEW n \in Uses(s[1]) PROVE n \in known
    BY <1>1
  <2>1. 1 \in 1 .. Len(s) /\ ~\E j \in 1 .. Len(s) : j < 1
    BY <1>1
  <2>2. QED  BY <2>1 DEF Supplied
<1>3. ASSUME NEW more, known \cup Gives(Head(s)) \subseteq more, NEW i \in 1 .. Len(Tail(s)),
             NEW n \in Uses(Tail(s)[i]), n \notin more
      PROVE  \E j \in 1 .. Len(Tail(s)) : j < i /\ n \in Gives(Tail(s)[j])
  <2>1. i + 1 \in 1 .. Len(s) /\ Tail(s)[i] = s[i + 1] /\ i \in Nat
    BY <1>1
  <2>2. PICK j \in 1 .. Len(s) : j < i + 1 /\ n \in Gives(s[j])
    BY <1>3, <2>1 DEF Supplied
  <2>3. j # 1
    BY <1>1, <1>3, <2>2
  <2>4. j - 1 \in 1 .. Len(Tail(s)) /\ j - 1 < i /\ (j - 1) + 1 = j
    BY <1>1, <2>1, <2>2, <2>3
  <2>5. Tail(s)[j - 1] = s[j]
    BY <1>1, <2>4
  <2>6. QED  BY <2>2, <2>4, <2>5
<1>4. QED  BY <1>2, <1>3 DEF Supplied

LEMMA MoreIsKnown ==
  ASSUME NEW s, NEW known, NEW more, Supplied(s, known), known \subseteq more
  PROVE  Supplied(s, more)
BY DEF Supplied

LEMMA HasTail ==
  ASSUME NEW s \in Seq(Steps), s # <<>>
  PROVE  \A x : Has(s, x) <=> Head(s) = x \/ Has(Tail(s), x)
<1>1. /\ Len(s) \in Nat \ {0} /\ Head(s) = s[1] /\ Len(Tail(s)) = Len(s) - 1
      /\ \A i \in 1 .. Len(Tail(s)) : Tail(s)[i] = s[i + 1]
  BY HeadTailProperties
<1> TAKE x
<1>2. ASSUME Has(s, x) PROVE Head(s) = x \/ Has(Tail(s), x)
  <2>1. PICK i \in 1 .. Len(s) : s[i] = x
    BY <1>2 DEF Has
  <2>2. CASE i = 1
    BY <1>1, <2>1, <2>2
  <2>3. CASE i # 1
    <3>1. i - 1 \in 1 .. Len(Tail(s)) /\ (i - 1) + 1 = i
      BY <1>1, <2>3
    <3>2. QED  BY <1>1, <2>1, <3>1 DEF Has
  <2>4. QED  BY <2>2, <2>3
<1>3. ASSUME Has(Tail(s), x) PROVE Has(s, x)
  <2>1. PICK i \in 1 .. Len(Tail(s)) : Tail(s)[i] = x
    BY <1>3 DEF Has
  <2>2. i + 1 \in 1 .. Len(s) /\ s[i + 1] = x
    BY <1>1, <2>1
  <2>3. QED  BY <2>2 DEF Has
<1>4. Head(s) = x => Has(s, x)
  BY <1>1 DEF Has
<1>5. QED  BY <1>2, <1>3, <1>4

\* What the body of a getter is: calls of less depth, then its own steps, kept last.
BodyOf(g, b) ==
  /\ b \in Seq(Steps) /\ Len(b) > 0 /\ b[Len(b)] = <<"keep", g>>
  /\ InOrder(b) /\ Supplied(b, {})
  /\ \A i \in 1 .. Len(b) : \A h \in Getters :
       /\ b[i] = <<"call", h>> => Depth[h] < Depth[g]
       /\ b[i] = <<"keep", h>> => h = g

\* The steps and what they use, spelled out.
LEMMA StepFacts ==
  /\ \A g \in Getters : <<"call", g>> \in Steps /\ <<"make", g>> \in Steps /\ <<"keep", g>> \in Steps
  /\ {<<"seed", "rag">>, <<"mirror", "rag">>, <<"predict", "">>, <<"run", "">>} \subseteq Steps
  /\ \A g \in Getters : Gives(<<"call", g>>) = {<<"got", g>>} /\ Gives(<<"make", g>>) = {<<"made", g>>}
                        /\ Gives(<<"keep", g>>) = {<<"got", g>>}
  /\ Gives(<<"seed", "rag">>) = {} /\ Gives(<<"mirror", "rag">>) = {}
<1>1. \A g \in Getters : <<"call", g>> \in Steps /\ <<"make", g>> \in Steps /\ <<"keep", g>> \in Steps
  BY DEF Steps, Verbs
<1>2. {<<"seed", "rag">>, <<"mirror", "rag">>, <<"predict", "">>, <<"run", "">>} \subseteq Steps
  <2>1. <<"seed", "rag">> \in Steps /\ <<"mirror", "rag">> \in Steps
    BY DEF Steps, Verbs, Getters
  <2>2. <<"predict", "">> \in Steps /\ <<"run", "">> \in Steps
    BY DEF Steps, Verbs
  <2>3. QED  BY <2>1, <2>2
<1>3. QED  BY <1>1, <1>2 DEF Gives

LEMMA UsesFacts ==
  /\ \A g \in Getters : Uses(<<"call", g>>) = {}
  /\ Uses(<<"make", "market">>) = {} /\ Uses(<<"make", "rag">>) = {}
  /\ Uses(<<"make", "orchestrator">>)
       = {<<"got", "market">>, <<"got", "rag">>, <<"got", "audit">>}
  /\ Uses(<<"keep", "audit">>) = {} /\ Uses(<<"keep", "market">>) = {}
  /\ Uses(<<"keep", "rag">>) = {<<"made", "rag">>}
  /\ Uses(<<"keep", "orchestrator">>) = {<<"made", "orchestrator">>}
  /\ Uses(<<"seed", "rag">>) = {<<"got", "market">>, <<"made", "rag">>}
  /\ Uses(<<"mirror", "rag">>) = {<<"made", "rag">>}
  /\ Uses(<<"predict", "">>) = {} /\ Uses(<<"run", "">>) = {<<"got", "orchestrator">>}
<1>1. \A g \in Getters : Uses(<<"call", g>>) = {}
  BY DEF Uses
<1>2. Uses(<<"make", "market">>) = {} /\ Uses(<<"make", "rag">>) = {}
  BY DEF Uses
<1>3. Uses(<<"make", "orchestrator">>) = {<<"got", "market">>, <<"got", "rag">>, <<"got", "audit">>}
  BY DEF Uses
<1>4. Uses(<<"keep", "audit">>) = {} /\ Uses(<<"keep", "market">>) = {}
  BY DEF Uses
<1>5. Uses(<<"keep", "rag">>) = {<<"made", "rag">>} /\ Uses(<<"mirror", "rag">>) = {<<"made", "rag">>}
  BY DEF Uses
<1>6. Uses(<<"keep", "orchestrator">>) = {<<"made", "orchestrator">>}
  BY DEF Uses
<1>7. Uses(<<"seed", "rag">>) = {<<"got", "market">>, <<"made", "rag">>}
  BY DEF Uses
<1>8. Uses(<<"predict", "">>) = {} /\ Uses(<<"run", "">>) = {<<"got", "orchestrator">>}
  BY DEF Uses
<1>9. QED  BY <1>1, <1>2, <1>3, <1>4, <1>5, <1>6, <1>7, <1>8

LEMMA AuditBody == BodyOf("audit", Api!Body("audit"))
<1> DEFINE k == <<"keep", "audit">>  b == <<k>>
<1>1. Api!Body("audit") = b
  BY DEF Api!Body
<1>2. k \in Steps
  BY StepFacts DEF Getters
<1>3. b \in Seq(Steps) /\ Len(b) = 1 /\ b[1] = k /\ 1 .. 1 = {1}
  BY <1>2
<1> HIDE DEF b
<1>4. InOrder(b)
  BY <1>3 DEF InOrder
<1>5. Uses(k) = {}
  BY UsesFacts
<1>6. Supplied(b, {})
  BY <1>3, <1>5 DEF Supplied
<1>7. \A i \in 1 .. Len(b) : \A h \in Getters :
        /\ b[i] = <<"call", h>> => Depth[h] < Depth["audit"]
        /\ b[i] = <<"keep", h>> => h = "audit"
  BY <1>3
<1>8. QED  BY <1>1, <1>3, <1>4, <1>6, <1>7 DEF BodyOf

LEMMA MarketBody == BodyOf("market", Api!Body("market"))
<1> DEFINE m == <<"make", "market">>  k == <<"keep", "market">>  b == <<m, k>>
<1>1. Api!Body("market") = b
  BY DEF Api!Body
<1>2. m \in Steps /\ k \in Steps
  BY StepFacts DEF Getters
<1>3. b \in Seq(Steps) /\ Len(b) = 2 /\ b[1] = m /\ b[2] = k /\ 1 .. 2 = {1, 2}
  BY <1>2
<1> HIDE DEF b
<1>4. InOrder(b)
  BY <1>3 DEF InOrder
<1>5. Uses(m) = {} /\ Uses(k) = {}
  BY UsesFacts
<1>6. Supplied(b, {})
  BY <1>3, <1>5 DEF Supplied
<1>7. \A i \in 1 .. Len(b) : \A h \in Getters :
        /\ b[i] = <<"call", h>> => Depth[h] < Depth["market"]
        /\ b[i] = <<"keep", h>> => h = "market"
  BY <1>3
<1>8. b \in Seq(Steps) /\ Len(b) > 0 /\ b[Len(b)] = <<"keep", "market">>
  BY <1>3
<1>9. QED  BY <1>1, <1>4, <1>6, <1>7, <1>8 DEF BodyOf

LEMMA RagBody == BodyOf("rag", Api!Body("rag"))
<1> DEFINE m == <<"make", "rag">>  c == <<"call", "market">>  s == <<"seed", "rag">>
           r == <<"mirror", "rag">>  k == <<"keep", "rag">>  b == <<m, c, s, r, k>>
<1>1. Api!Body("rag") = b
  BY DEF Api!Body
<1>2. m \in Steps /\ c \in Steps /\ s \in Steps /\ r \in Steps /\ k \in Steps
  BY StepFacts DEF Getters
<1>3. /\ b \in Seq(Steps) /\ Len(b) = 5 /\ 1 .. 5 = {1, 2, 3, 4, 5}
      /\ b[1] = m /\ b[2] = c /\ b[3] = s /\ b[4] = r /\ b[5] = k
  BY <1>2
<1> HIDE DEF b
<1>4. InOrder(b)
  BY <1>3 DEF InOrder, Depth
<1>5. /\ Uses(m) = {} /\ Uses(c) = {} /\ Uses(s) = {<<"got", "market">>, <<"made", "rag">>}
      /\ Uses(r) = {<<"made", "rag">>} /\ Uses(k) = {<<"made", "rag">>}
      /\ Gives(m) = {<<"made", "rag">>} /\ Gives(c) = {<<"got", "market">>}
  BY UsesFacts, StepFacts DEF Getters
<1>6. \A i \in 1 .. Len(b) : \A h \in Getters :
        /\ b[i] = <<"call", h>> => Depth[h] < Depth["rag"]
        /\ b[i] = <<"keep", h>> => h = "rag"
  BY <1>3 DEF Depth
<1>7. b[Len(b)] = <<"keep", "rag">>
  BY <1>3
<1> HIDE DEF m, c, s, r, k
<1>8. Supplied(b, {})
  BY <1>3, <1>5 DEF Supplied
<1>9. b \in Seq(Steps) /\ Len(b) > 0
  BY <1>3
<1>10. QED  BY <1>1, <1>4, <1>6, <1>7, <1>8, <1>9 DEF BodyOf

LEMMA OrchestratorBody == BodyOf("orchestrator", Api!Body("orchestrator"))
<1> DEFINE m == <<"call", "market">>  r == <<"call", "rag">>  a == <<"call", "audit">>
           o == <<"make", "orchestrator">>  k == <<"keep", "orchestrator">>
           b == <<m, r, a, o, k>>
<1>1. Api!Body("orchestrator") = b
  BY DEF Api!Body
<1>2. m \in Steps /\ r \in Steps /\ a \in Steps /\ o \in Steps /\ k \in Steps
  BY StepFacts DEF Getters
<1>3. /\ b \in Seq(Steps) /\ Len(b) = 5 /\ 1 .. 5 = {1, 2, 3, 4, 5}
      /\ b[1] = m /\ b[2] = r /\ b[3] = a /\ b[4] = o /\ b[5] = k
  BY <1>2
<1> HIDE DEF b
<1>4. InOrder(b)
  BY <1>3 DEF InOrder, Depth
<1>5. /\ Uses(m) = {} /\ Uses(r) = {} /\ Uses(a) = {}
      /\ Uses(o) = {<<"got", "market">>, <<"got", "rag">>, <<"got", "audit">>}
      /\ Uses(k) = {<<"made", "orchestrator">>} /\ Gives(o) = {<<"made", "orchestrator">>}
      /\ Gives(m) = {<<"got", "market">>} /\ Gives(r) = {<<"got", "rag">>}
      /\ Gives(a) = {<<"got", "audit">>}
  BY UsesFacts, StepFacts DEF Getters
<1>6. \A i \in 1 .. Len(b) : \A h \in Getters :
        /\ b[i] = <<"call", h>> => Depth[h] < Depth["orchestrator"]
        /\ b[i] = <<"keep", h>> => h = "orchestrator"
  BY <1>3 DEF Depth
<1>7. b[Len(b)] = <<"keep", "orchestrator">>
  BY <1>3
<1> HIDE DEF m, r, a, o, k
<1>8. Supplied(b, {})
  BY <1>3, <1>5 DEF Supplied
<1>9. b \in Seq(Steps) /\ Len(b) > 0
  BY <1>3
<1>10. QED  BY <1>1, <1>4, <1>6, <1>7, <1>8, <1>9 DEF BodyOf

LEMMA EveryBody == \A g \in Getters : BodyOf(g, Api!Body(g))
BY AuditBody, MarketBody, RagBody, OrchestratorBody DEF Getters

\* A call that misses is replaced by the body of its getter.
LEMMA Expanded ==
  ASSUME NEW s \in Seq(Steps), s # <<>>, InOrder(s), NEW g \in Getters, Head(s) = <<"call", g>>,
         NEW b, BodyOf(g, b), NEW known, Supplied(s, known)
  PROVE  LET c == b \o Tail(s)
         IN  /\ c \in Seq(Steps) /\ InOrder(c) /\ Supplied(c, known)
             /\ \A x : Has(c, x) <=> Has(b, x) \/ Has(Tail(s), x)
<1> DEFINE r == Tail(s)  n == Len(b)  c == b \o r
<1>1. /\ Len(s) \in Nat \ {0} /\ Head(s) = s[1] /\ r \in Seq(Steps) /\ Len(r) = Len(s) - 1
      /\ \A i \in 1 .. Len(r) : r[i] = s[i + 1]
  BY HeadTailProperties
<1>2. b \in Seq(Steps) /\ n \in Nat \ {0} /\ b[n] = <<"keep", g>> /\ InOrder(b) /\ Supplied(b, {})
  BY DEF BodyOf
<1>3. InOrder(r)
  BY TailInOrder
<1>4. \A j \in 1 .. Len(r), h \in Getters : r[j] = <<"keep", h>> => Depth[g] < Depth[h]
  <2> SUFFICES ASSUME NEW j \in 1 .. Len(r), NEW h \in Getters, r[j] = <<"keep", h>>
               PROVE  Depth[g] < Depth[h]
    OBVIOUS
  <2>1. 1 \in 1 .. Len(s) /\ j + 1 \in 1 .. Len(s) /\ 1 < j + 1
    BY <1>1
  <2>2. s[1] = <<"call", g>> /\ s[j + 1] = <<"keep", h>>
    BY <1>1
  <2>3. QED  BY <2>1, <2>2 DEF InOrder
<1>5. /\ c \in Seq(Steps) /\ Len(c) = n + Len(r) /\ Len(r) \in Nat
      /\ \A i \in 1 .. n : c[i] = b[i]
      /\ \A i \in 1 .. Len(r) : c[n + i] = r[i]
  <2>1. c \in Seq(Steps) /\ Len(c) = n + Len(r)
    BY <1>1, <1>2, ConcatProperties
  <2>2. \A i \in 1 .. n + Len(r) : c[i] = IF i <= n THEN b[i] ELSE r[i - n]
    BY <1>1, <1>2, ConcatProperties
  <2>3. n \in Nat /\ Len(r) \in Nat
    BY <1>1, <1>2
  <2> HIDE DEF c, r, n
  <2>4. \A i \in 1 .. Len(r) : n + i \in 1 .. n + Len(r) /\ ~(n + i <= n) /\ (n + i) - n = i
    BY <2>3
  <2>5. \A i \in 1 .. n : i \in 1 .. n + Len(r) /\ i <= n
    BY <2>3
  <2>6. QED  BY <2>1, <2>2, <2>3, <2>4, <2>5
<1>6. \A i \in 1 .. n, h \in Getters : /\ b[i] = <<"call", h>> => Depth[h] < Depth[g]
                                       /\ b[i] = <<"keep", h>> => h = g
  BY DEF BodyOf
<1>7. \A h \in Getters : Depth[h] \in Int
  BY DEF Depth, Getters
<1>8. \A j \in 1 .. Len(s) : j # 1 => j - 1 \in 1 .. Len(r) /\ r[j - 1] = s[j]
  BY <1>1
<1> HIDE DEF c, r, n
<1>9. \A i \in 1 .. Len(c) : i \in 1 .. n \/ \E k \in 1 .. Len(r) : i = n + k
  <2> SUFFICES ASSUME NEW i \in 1 .. n + Len(r), i \notin 1 .. n
               PROVE  \E k \in 1 .. Len(r) : i = n + k
    BY <1>5
  <2>1. i - n \in 1 .. Len(r) /\ i = n + (i - n)
    BY <1>2, <1>5
  <2>2. QED  BY <2>1
<1>10. \A i \in 1 .. n : i \in 1 .. Len(c)
  BY <1>2, <1>5
<1>11. \A k \in 1 .. Len(r) : n + k \in 1 .. Len(c) /\ n + k \notin 1 .. n /\ c[n + k] = r[k]
  BY <1>2, <1>5
<1>12. \A x : Has(c, x) <=> Has(b, x) \/ Has(r, x)
  <2> SUFFICES ASSUME NEW x
               PROVE  (\E i \in 1 .. Len(c) : c[i] = x)
                        <=> (\E i \in 1 .. n : b[i] = x) \/ (\E k \in 1 .. Len(r) : r[k] = x)
    BY DEF Has, n
  <2>1. ASSUME NEW i \in 1 .. Len(c), c[i] = x
        PROVE  (\E j \in 1 .. n : b[j] = x) \/ (\E k \in 1 .. Len(r) : r[k] = x)
    BY <1>5, <1>9, <2>1
  <2>2. QED  BY <1>5, <1>10, <1>11, <2>1
<1>13. InOrder(c)
  <2> SUFFICES ASSUME NEW i \in 1 .. Len(c)
      PROVE  /\ \A j \in 1 .. Len(c), f, h \in Getters :
                  /\ i < j /\ c[i] = <<"call", h>> /\ c[j] = <<"keep", f>> => Depth[h] < Depth[f]
                  /\ c[i] = <<"keep", f>> /\ c[j] = <<"keep", f>> => i = j
             /\ \A f \in Getters : c[i] = <<"make", f>> =>
                  \E j \in 1 .. Len(c) : i < j /\ c[j] = <<"keep", f>>
             /\ c[i] = <<"make", "rag">> => \E j \in 1 .. Len(c) : i < j /\ c[j] = <<"seed", "rag">>
             /\ c[i] = <<"seed", "rag">> => i < Len(c) /\ c[i + 1] = <<"mirror", "rag">>
             /\ c[i] = <<"mirror", "rag">> => i < Len(c) /\ c[i + 1] = <<"keep", "rag">>
    BY DEF InOrder
  <2>1. CASE i \in 1 .. n
    <3>1. c[i] = b[i] /\ i \in 1 .. Len(b)
      BY <1>5, <2>1 DEF n
    <3>2. ASSUME NEW j \in 1 .. Len(c), NEW f \in Getters, NEW h \in Getters
          PROVE  /\ i < j /\ c[i] = <<"call", h>> /\ c[j] = <<"keep", f>> => Depth[h] < Depth[f]
                 /\ c[i] = <<"keep", f>> /\ c[j] = <<"keep", f>> => i = j
      <4>1. CASE j \in 1 .. n
        <5>1. c[j] = b[j] /\ j \in 1 .. Len(b)
          BY <1>5, <4>1 DEF n
        <5>2. QED  BY <1>2, <3>1, <5>1, SMTT(30) DEF InOrder
      <4>2. CASE j \notin 1 .. n
        <5>1. PICK k \in 1 .. Len(r) : j = n + k
          BY <1>9, <4>2
        <5>2. c[j] = r[k]
          BY <1>5, <5>1
        <5>3. c[j] = <<"keep", f>> => Depth[g] < Depth[f]
          BY <1>4, <5>2
        <5>4. /\ c[i] = <<"call", h>> => Depth[h] < Depth[g]
              /\ c[i] = <<"keep", f>> => f = g
          BY <1>6, <2>1, <3>1
        <5>5. QED  BY <1>7, <5>3, <5>4, SMTT(30)
      <4>3. QED  BY <4>1, <4>2
    <3>3. ASSUME NEW x, \E j \in 1 .. Len(b) : i < j /\ b[j] = x
          PROVE  \E j \in 1 .. Len(c) : i < j /\ c[j] = x
      BY <1>5, <1>10, <3>3 DEF n
    <3>4. ASSUME NEW x, i < Len(b), b[i + 1] = x
          PROVE  i < Len(c) /\ c[i + 1] = x
      <4>1. i \in Int /\ i + 1 \in 1 .. n /\ n \in Nat
        BY <1>2, <2>1, <3>4 DEF n
      <4>2. c[i + 1] = x
        BY <1>5, <3>4, <4>1
      <4>3. i < Len(c)
        BY <1>5, <4>1
      <4>4. QED  BY <4>2, <4>3
    <3>5. /\ \A f \in Getters : b[i] = <<"make", f>> => \E j \in 1 .. Len(b) : i < j /\ b[j] = <<"keep", f>>
          /\ b[i] = <<"make", "rag">> => \E j \in 1 .. Len(b) : i < j /\ b[j] = <<"seed", "rag">>
          /\ b[i] = <<"seed", "rag">> => i < Len(b) /\ b[i + 1] = <<"mirror", "rag">>
          /\ b[i] = <<"mirror", "rag">> => i < Len(b) /\ b[i + 1] = <<"keep", "rag">>
      BY <1>2, <3>1 DEF InOrder
    <3>6. QED  BY <3>1, <3>2, <3>3, <3>4, <3>5
  <2>2. CASE i \notin 1 .. n
    <3>1. PICK k \in 1 .. Len(r) : i = n + k
      BY <1>9, <2>2
    <3>2. c[i] = r[k] /\ k \in Int /\ n \in Nat /\ n > 0 /\ Len(r) \in Nat
      BY <1>2, <1>5, <3>1
    <3>3. ASSUME NEW j \in 1 .. Len(c), NEW f \in Getters, NEW h \in Getters
          PROVE  /\ i < j /\ c[i] = <<"call", h>> /\ c[j] = <<"keep", f>> => Depth[h] < Depth[f]
                 /\ c[i] = <<"keep", f>> /\ c[j] = <<"keep", f>> => i = j
      <4>1. CASE j \in 1 .. n
        <5>1. c[j] = b[j] /\ ~(i < j)
          BY <1>5, <3>1, <3>2, <4>1
        <5>2. c[j] = <<"keep", f>> => f = g
          BY <1>6, <4>1, <5>1
        <5>3. c[i] = <<"keep", f>> => Depth[g] < Depth[f]
          BY <1>4, <3>2
        <5>4. QED  BY <1>7, <5>1, <5>2, <5>3
      <4>2. CASE j \notin 1 .. n
        <5>1. PICK l \in 1 .. Len(r) : j = n + l
          BY <1>9, <4>2
        <5>2. c[j] = r[l] /\ (i < j => k < l) /\ (k = l => i = j)
          BY <1>5, <3>1, <3>2, <5>1, SMTT(30)
        <5>3. /\ k < l /\ r[k] = <<"call", h>> /\ r[l] = <<"keep", f>> => Depth[h] < Depth[f]
              /\ r[k] = <<"keep", f>> /\ r[l] = <<"keep", f>> => k = l
          BY <1>3, SMTT(30) DEF InOrder
        <5>4. QED  BY <3>2, <5>2, <5>3
      <4>3. QED  BY <4>1, <4>2
    <3>4. ASSUME NEW x, \E l \in 1 .. Len(r) : k < l /\ r[l] = x
          PROVE  \E j \in 1 .. Len(c) : i < j /\ c[j] = x
      <4>1. PICK l \in 1 .. Len(r) : k < l /\ r[l] = x
        BY <3>4
      <4>2. n + l \in 1 .. Len(c) /\ c[n + l] = x /\ i < n + l
        BY <1>11, <3>1, <3>2, <4>1
      <4>3. QED  BY <4>2
    <3>5. ASSUME NEW x, k < Len(r), r[k + 1] = x
          PROVE  i < Len(c) /\ c[i + 1] = x
      <4>1. k + 1 \in 1 .. Len(r) /\ n + (k + 1) = i + 1 /\ i < n + Len(r)
        BY <3>1, <3>2, <3>5, SMTT(30)
      <4>2. QED  BY <1>5, <1>11, <3>5, <4>1
    <3>6. /\ \A f \in Getters : r[k] = <<"make", f>> => \E j \in 1 .. Len(r) : k < j /\ r[j] = <<"keep", f>>
          /\ r[k] = <<"make", "rag">> => \E j \in 1 .. Len(r) : k < j /\ r[j] = <<"seed", "rag">>
          /\ r[k] = <<"seed", "rag">> => k < Len(r) /\ r[k + 1] = <<"mirror", "rag">>
          /\ r[k] = <<"mirror", "rag">> => k < Len(r) /\ r[k + 1] = <<"keep", "rag">>
      BY <1>3 DEF InOrder
    <3>7. QED  BY <3>2, <3>3, <3>4, <3>5, <3>6
  <2>3. QED  BY <2>1, <2>2
<1>14. Supplied(c, known)
  <2> SUFFICES ASSUME NEW i \in 1 .. Len(c), NEW m \in Uses(c[i]), m \notin known
               PROVE  \E j \in 1 .. Len(c) : j < i /\ m \in Gives(c[j])
    BY DEF Supplied
  <2>1. CASE i \in 1 .. n
    <3>1. c[i] = b[i]
      BY <1>5, <2>1
    <3>2. PICK j \in 1 .. n : j < i /\ m \in Gives(b[j])
      BY <1>2, <2>1, <3>1 DEF Supplied, n
    <3>3. QED  BY <1>5, <1>10, <3>2
  <2>2. CASE i \notin 1 .. n
    <3>1. PICK k \in 1 .. Len(r) : i = n + k
      BY <1>9, <2>2
    <3>2. /\ c[i] = r[k] /\ r[k] = s[k + 1] /\ k + 1 \in 1 .. Len(s)
          /\ k \in Int /\ n \in Nat /\ n > 0 /\ Len(r) \in Nat
      BY <1>1, <1>2, <1>5, <3>1 DEF r
    <3>3. PICK j \in 1 .. Len(s) : j < k + 1 /\ m \in Gives(s[j])
      BY <3>2 DEF Supplied
    <3>4. CASE j = 1
      <4>1. Gives(s[j]) = Gives(b[n])
        BY <1>1, <1>2, <3>4, StepFacts, ZenonT(40)
      <4>2. n \in 1 .. n /\ n < i
        BY <3>1, <3>2
      <4>3. n \in 1 .. Len(c) /\ m \in Gives(c[n])
        BY <1>5, <1>10, <3>3, <4>1, <4>2
      <4>4. QED  BY <4>2, <4>3
    <3>5. CASE j # 1
      <4>1. j - 1 \in 1 .. Len(r) /\ r[j - 1] = s[j]
        BY <1>8, <3>5
      <4>2. n + (j - 1) \in 1 .. Len(c) /\ c[n + (j - 1)] = s[j]
        BY <1>11, <4>1
      <4>3. j \in Int /\ j < k + 1 /\ i = n + k
        BY <3>1, <3>3, <1>1
      <4>4. n + (j - 1) < i
        BY <3>2, <4>3
      <4>5. QED  BY <3>3, <4>2, <4>4
    <3>6. QED  BY <3>4, <3>5
  <2>3. QED  BY <2>1, <2>2
<1>15. QED  BY <1>5, <1>12, <1>13, <1>14 DEF c, r

-----------------------------------------------------------------------------
(* The API process: what holds between two steps *)

Instances == Procs \cup {None}
Sources == {"db", "fixture"}
RagServices == [market : Instances, index : SUBSET (NewsRows \cup FixtureRows), available : BOOLEAN]
Orchestrators == [market : Procs, rag : Procs, audit : Procs]

ApiType ==
  /\ todo \in [Procs -> Seq(Steps)]
  /\ got \in [Procs -> [Getters -> Instances]]
  /\ cache \in [Getters -> Instances]
  /\ made \in [market : [Procs -> Sources \cup {None}], rag : [Procs -> RagServices \cup {None}],
               audit : [Procs -> SUBSET Nat], orchestrator : [Procs -> Orchestrators \cup {None}]]
  /\ runs \in Nat
  /\ world \in [db : BOOLEAN, qdrant : BOOLEAN, model : Nat]

\* What a thread was given, and what it built (no step needs a source of prices it built).
Known(t) ==
  {<<"got", g>> : g \in {h \in Getters : got[t][h] # None}} \cup {<<"made", "market">>}
    \cup (IF made.rag[t] # None THEN {<<"made", "rag">>} ELSE {})
    \cup (IF made.orchestrator[t] # None THEN {<<"made", "orchestrator">>} ELSE {})

Orderly == \A t \in Procs : InOrder(todo[t]) /\ Supplied(todo[t], Known(t))

\* The instance of g that u built is complete, and is the one kept unless first calls
\* overlapped.
Finished(u, g) ==
  /\ u \in Procs /\ cache[g] # None /\ ~Has(todo[u], <<"keep", g>>)
  /\ g = "rag" => made.rag[u] # None
  /\ g = "orchestrator" => made.orchestrator[u] # None
Agreed(u, g) == Finished(u, g) /\ (g \in raced \/ u = cache[g])

KeptIsFinished == \A g \in Getters : cache[g] # None => Finished(cache[g], g)
GivenIsAgreed == \A t \in Procs, g \in Getters : got[t][g] # None => Agreed(got[t][g], g)
PartsAreAgreed ==
  \A t \in Procs : made.orchestrator[t] # None =>
    \A g \in {"market", "rag", "audit"} : Agreed(made.orchestrator[t][g], g)
SeededIsAgreed ==
  \A u \in Procs : made.rag[u] # None /\ ~Has(todo[u], <<"seed", "rag">>) =>
    Agreed(made.rag[u].market, "market")

Mirrored(rag) ==
  rag.available => \A i \in rag.index :
    i \in DOMAIN mirror /\ (mirror[i] = made.market[rag.market] \/ i \in rewritten \/ "market" \in raced)
MirroredIsThere ==
  \A u \in Procs : made.rag[u] # None /\ ~Has(todo[u], <<"mirror", "rag">>) => Mirrored(made.rag[u])

TrailIsWhole ==
  /\ cache["audit"] = None => runs = 0 /\ \A t \in Procs : made.audit[t] = {}
  /\ cache["audit"] # None => "audit" \in raced \/ made.audit[cache["audit"]] = 1 .. runs
RunsAreListed ==
  /\ cache["orchestrator"] = None => runs = 0 /\ \A t \in Procs : made.audit[t] = {}
  /\ cache["orchestrator"] # None =>
       \/ "orchestrator" \in raced
       \/ made.audit[made.orchestrator[cache["orchestrator"]].audit] = 1 .. runs
RunsAreRecorded == TrailIsWhole /\ RunsAreListed

ApiInv ==
  /\ ApiType /\ Orderly /\ KeptIsFinished /\ GivenIsAgreed /\ PartsAreAgreed /\ SeededIsAgreed
  /\ MirroredIsThere /\ RunsAreRecorded /\ Api!TrainedModelStays

\* What every step but a restart respects: a kept instance stays, no step of a kept service
\* comes back, nothing built is lost.
Grows ==
  /\ \A g \in Getters : cache[g] # None => cache'[g] = cache[g]
  /\ \A u \in Procs, g \in Getters :
       Has(todo'[u], <<"keep", g>>) => Has(todo[u], <<"keep", g>>) \/ cache[g] = None
  /\ \A u \in Procs : /\ made.rag[u] # None => made'.rag[u] # None
                      /\ made.orchestrator[u] # None => made'.orchestrator[u] # None
  /\ raced \subseteq raced'

LEMMA AgreedStays ==
  ASSUME Grows, NEW u, NEW g \in Getters
  PROVE  /\ Finished(u, g) => Finished(u, g)'
         /\ Agreed(u, g) => Agreed(u, g)'
<1>1. Finished(u, g) => Finished(u, g)'
  BY DEF Grows, Finished
<1>2. Agreed(u, g) => Agreed(u, g)'
  BY <1>1 DEF Agreed, Grows, Finished
<1>3. QED  BY <1>1, <1>2

\* A list without a step that mirrors has no step that seeds, and one that keeps mirrors before.
LEMMA PendingRag ==
  ASSUME NEW s \in Seq(Steps), InOrder(s)
  PROVE  /\ Has(s, <<"seed", "rag">>) => Has(s, <<"mirror", "rag">>)
         /\ Has(s, <<"mirror", "rag">>) => Has(s, <<"keep", "rag">>)
         /\ Has(s, <<"make", "rag">>) => Has(s, <<"seed", "rag">>)
         /\ \A g \in Getters : Has(s, <<"make", g>>) => Has(s, <<"keep", g>>)
<1>1. Len(s) \in Nat
  OBVIOUS
<1>2. \A i \in 1 .. Len(s) : i < Len(s) => i + 1 \in 1 .. Len(s)
  BY <1>1
<1>3. \A i \in 1 .. Len(s) :
        /\ s[i] = <<"seed", "rag">> => i + 1 \in 1 .. Len(s) /\ s[i + 1] = <<"mirror", "rag">>
        /\ s[i] = <<"mirror", "rag">> => i + 1 \in 1 .. Len(s) /\ s[i + 1] = <<"keep", "rag">>
  BY <1>2 DEF InOrder
<1>4. /\ Has(s, <<"seed", "rag">>) => Has(s, <<"mirror", "rag">>)
      /\ Has(s, <<"mirror", "rag">>) => Has(s, <<"keep", "rag">>)
  BY <1>3 DEF Has
<1>5. /\ Has(s, <<"make", "rag">>) => Has(s, <<"seed", "rag">>)
      /\ \A g \in Getters : Has(s, <<"make", g>>) => Has(s, <<"keep", g>>)
  BY DEF Has, InOrder
<1>6. QED  BY <1>4, <1>5

\* At the head of a list, what is still to come.
LEMMA HeadInOrder ==
  ASSUME NEW s \in Seq(Steps), s # <<>>, InOrder(s)
  PROVE  /\ \A g \in Getters :
              /\ Head(s) = <<"keep", g>> => ~Has(Tail(s), <<"keep", g>>)
              /\ Head(s) = <<"make", g>> => Has(Tail(s), <<"keep", g>>)
         /\ Head(s) = <<"make", "rag">> => Has(Tail(s), <<"seed", "rag">>)
         /\ Head(s) = <<"seed", "rag">> => Has(Tail(s), <<"mirror", "rag">>)
         /\ Head(s) = <<"mirror", "rag">> => Has(Tail(s), <<"keep", "rag">>) /\ ~Has(s, <<"seed", "rag">>)
<1>1. /\ Len(s) \in Nat \ {0} /\ Head(s) = s[1] /\ Len(Tail(s)) = Len(s) - 1 /\ 1 \in 1 .. Len(s)
      /\ \A i \in 1 .. Len(Tail(s)) : Tail(s)[i] = s[i + 1] /\ i + 1 \in 1 .. Len(s) /\ i + 1 # 1
  BY HeadTailProperties
<1>2. \A j \in 1 .. Len(s) : 1 < j => j - 1 \in 1 .. Len(Tail(s)) /\ Tail(s)[j - 1] = s[j]
  BY <1>1
<1>3. \A x : (\E j \in 1 .. Len(s) : 1 < j /\ s[j] = x) => Has(Tail(s), x)
  BY <1>2 DEF Has
<1>4. \A g \in Getters : Head(s) = <<"keep", g>> => ~Has(Tail(s), <<"keep", g>>)
  BY <1>1 DEF InOrder, Has
<1>5. \A g \in Getters : Head(s) = <<"make", g>> => Has(Tail(s), <<"keep", g>>)
  BY <1>1, <1>3 DEF InOrder
<1>6. Head(s) = <<"make", "rag">> => Has(Tail(s), <<"seed", "rag">>)
  BY <1>1, <1>3 DEF InOrder
<1>7. \A x : 1 < Len(s) /\ s[2] = x => Has(Tail(s), x)
  <2>1. 1 < Len(s) => 2 \in 1 .. Len(s) /\ 1 < 2
    BY <1>1
  <2>2. QED  BY <1>3, <2>1
<1>8. 1 + 1 = 2
  OBVIOUS
<1>9. Head(s) = <<"seed", "rag">> => Has(Tail(s), <<"mirror", "rag">>)
  BY <1>1, <1>7, <1>8 DEF InOrder
<1>10. Head(s) = <<"mirror", "rag">> => 1 < Len(s) /\ s[2] = <<"keep", "rag">>
  BY <1>1, <1>8 DEF InOrder
<1>11. ASSUME Head(s) = <<"mirror", "rag">>, NEW j \in 1 .. Len(s), s[j] = <<"seed", "rag">>
       PROVE  FALSE
  <2>1. j < Len(s) /\ s[j + 1] = <<"mirror", "rag">>
    BY <1>11 DEF InOrder
  <2>2. j + 1 \in 1 .. Len(s) /\ j \in Int
    BY <1>1, <2>1
  <2>3. j + 1 < Len(s) /\ s[(j + 1) + 1] = <<"keep", "rag">>
    BY <2>1, <2>2 DEF InOrder
  <2>4. 2 \in 1 .. Len(s) /\ s[2] = <<"keep", "rag">>
    BY <1>1, <1>10, <1>11
  <2>5. (j + 1) + 1 \in 1 .. Len(s) /\ (j + 1) + 1 # 2
    BY <1>1, <2>2, <2>3
  <2>6. QED  BY <2>3, <2>4, <2>5 DEF InOrder, Getters
<1>12. QED  BY <1>4, <1>5, <1>6, <1>7, <1>9, <1>10, <1>11 DEF Has

\* The step at the head of a thread's list is done.
LEMMA Popped ==
  ASSUME ApiType, Orderly, NEW t \in Procs, todo[t] # <<>>, todo' = [todo EXCEPT ![t] = Tail(@)]
  PROVE  /\ todo' \in [Procs -> Seq(Steps)] /\ todo'[t] = Tail(todo[t])
         /\ \A u \in Procs : InOrder(todo'[u]) /\ (u # t => todo'[u] = todo[u])
         /\ \A u \in Procs : \A x : Has(todo'[u], x) => Has(todo[u], x)
         /\ \A u \in Procs : \A x :
              Has(todo[u], x) => Has(todo'[u], x) \/ (u = t /\ x = Head(todo[t]))
         /\ Uses(Head(todo[t])) \subseteq Known(t)
         /\ \A more : Known(t) \cup Gives(Head(todo[t])) \subseteq more => Supplied(todo'[t], more)
<1>1. todo \in [Procs -> Seq(Steps)] /\ todo[t] \in Seq(Steps) /\ InOrder(todo[t])
      /\ Supplied(todo[t], Known(t)) /\ \A u \in Procs : InOrder(todo[u])
  BY DEF ApiType, Orderly
<1>2. Tail(todo[t]) \in Seq(Steps) /\ InOrder(Tail(todo[t]))
  BY <1>1, TailInOrder
<1>3. todo' \in [Procs -> Seq(Steps)] /\ todo'[t] = Tail(todo[t])
      /\ \A u \in Procs : u # t => todo'[u] = todo[u]
  BY <1>1, <1>2
<1>4. \A x : Has(todo[t], x) <=> Head(todo[t]) = x \/ Has(Tail(todo[t]), x)
  BY <1>1, HasTail
<1>5. /\ Uses(Head(todo[t])) \subseteq Known(t)
      /\ \A more : Known(t) \cup Gives(Head(todo[t])) \subseteq more => Supplied(Tail(todo[t]), more)
  BY <1>1, HeadIsSupplied
<1>6. QED  BY <1>1, <1>2, <1>3, <1>4, <1>5

\* Nothing is known to be lost: the lists stay supplied.
LEMMA StaySupplied ==
  ASSUME ApiType, Orderly, NEW t \in Procs, todo[t] # <<>>, NEW given \in [Getters -> Instances],
         Api!DoneWith(t, given),
         \A g \in Getters : got[t][g] # None => given[g] # None,
         \A u \in Procs : /\ made.rag[u] # None => made'.rag[u] # None
                          /\ made.orchestrator[u] # None => made'.orchestrator[u] # None,
         \A n \in Gives(Head(todo[t])) :
           \/ \E g \in Getters : n = <<"got", g>> /\ given[g] # None
           \/ n = <<"made", "rag">> /\ made'.rag[t] # None
           \/ n = <<"made", "orchestrator">> /\ made'.orchestrator[t] # None
           \/ n = <<"made", "market">>
  PROVE  /\ Orderly' /\ todo' \in [Procs -> Seq(Steps)]
         /\ got' \in [Procs -> [Getters -> Instances]]
<1>1. todo' = [todo EXCEPT ![t] = Tail(@)]
  BY DEF Api!DoneWith
<1>2. /\ todo' \in [Procs -> Seq(Steps)] /\ todo'[t] = Tail(todo[t])
      /\ \A u \in Procs : InOrder(todo'[u]) /\ (u # t => todo'[u] = todo[u])
      /\ \A more : Known(t) \cup Gives(Head(todo[t])) \subseteq more => Supplied(todo'[t], more)
  BY <1>1, Popped
<1>3. got' = [got EXCEPT ![t] = IF Tail(todo[t]) = <<>> THEN Api!Unasked ELSE given]
  BY DEF Api!DoneWith
<1>4. Api!Unasked \in [Getters -> Instances]
  BY DEF Api!Unasked, Api!Getters, Getters, Instances
<1>5. got' \in [Procs -> [Getters -> Instances]]
  BY <1>3, <1>4 DEF ApiType
<1>6. ASSUME NEW u \in Procs, u # t PROVE Supplied(todo'[u], Known(u)')
  <2>1. got'[u] = got[u]
    BY <1>3, <1>6 DEF ApiType
  <2>2. Known(u) \subseteq Known(u)'
    BY <1>6, <2>1 DEF Known
  <2>3. QED  BY <1>2, <1>6, <2>2, MoreIsKnown DEF Orderly
<1>7. CASE Tail(todo[t]) = <<>>
  <2>1. todo'[t] = <<>> /\ Len(<<>>) = 0
    BY <1>2, <1>7
  <2>2. Supplied(todo'[t], Known(t)')
    BY <2>1 DEF Supplied
  <2>3. QED  BY <1>2, <1>5, <1>6, <2>2 DEF Orderly
<1>8. CASE Tail(todo[t]) # <<>>
  <2>1. got'[t] = given
    BY <1>3, <1>8 DEF ApiType
  <2>2. Known(t) \cup Gives(Head(todo[t])) \subseteq Known(t)'
    BY <2>1 DEF Known
  <2>3. QED  BY <1>2, <1>5, <1>6, <2>2 DEF Orderly
<1>9. QED  BY <1>7, <1>8

\* A thread's step grows what there is when it loses no service.
LEMMA PopGrows ==
  ASSUME ApiType, Orderly, NEW t \in Procs, todo[t] # <<>>, todo' = [todo EXCEPT ![t] = Tail(@)],
         \A g \in Getters : cache[g] # None => cache'[g] = cache[g],
         \A u \in Procs : /\ made.rag[u] # None => made'.rag[u] # None
                          /\ made.orchestrator[u] # None => made'.orchestrator[u] # None,
         raced \subseteq raced'
  PROVE  Grows
<1>1. \A u \in Procs : \A x : Has(todo'[u], x) => Has(todo[u], x)
  BY Popped
<1>2. QED  BY <1>1 DEF Grows

LEMMA KeptStay ==
  ASSUME KeptIsFinished, Grows,
         \A g \in Getters : cache'[g] # None => cache[g] = cache'[g] \/ Finished(cache[g], g)'
  PROVE  KeptIsFinished'
<1> SUFFICES ASSUME NEW g \in Getters, cache'[g] # None PROVE Finished(cache[g], g)'
  BY DEF KeptIsFinished
<1>1. CASE Finished(cache[g], g)'
  BY <1>1
<1>2. CASE cache[g] = cache'[g]
  <2>1. PICK u : u = cache[g]
    OBVIOUS
  <2>2. Finished(u, g)'
    BY <1>2, <2>1, AgreedStays DEF KeptIsFinished
  <2>3. QED  BY <1>2, <2>1, <2>2 DEF Finished
<1>3. QED  BY <1>1, <1>2

LEMMA GivenStay ==
  ASSUME GivenIsAgreed, Grows,
         \A t \in Procs, g \in Getters :
           got'[t][g] # None => got[t][g] = got'[t][g] \/ Agreed(got[t][g], g)'
  PROVE  GivenIsAgreed'
<1> SUFFICES ASSUME NEW t \in Procs, NEW g \in Getters, got'[t][g] # None
             PROVE  Agreed(got[t][g], g)'
  BY DEF GivenIsAgreed
<1>1. CASE Agreed(got[t][g], g)'
  BY <1>1
<1>2. CASE got[t][g] = got'[t][g]
  <2>1. PICK u : u = got[t][g]
    OBVIOUS
  <2>2. Agreed(u, g)'
    BY <1>2, <2>1, AgreedStays DEF GivenIsAgreed
  <2>3. QED  BY <1>2, <2>1, <2>2 DEF Agreed, Finished
<1>3. QED  BY <1>1, <1>2

LEMMA PartsStay ==
  ASSUME PartsAreAgreed, Grows,
         \A t \in Procs : made'.orchestrator[t] # None =>
           \/ made.orchestrator[t] = made'.orchestrator[t]
           \/ \A g \in {"market", "rag", "audit"} : Agreed(made.orchestrator[t][g], g)'
  PROVE  PartsAreAgreed'
<1> SUFFICES ASSUME NEW t \in Procs, made'.orchestrator[t] # None, NEW g \in {"market", "rag", "audit"}
             PROVE  Agreed(made.orchestrator[t][g], g)'
  BY DEF PartsAreAgreed
<1>1. CASE Agreed(made.orchestrator[t][g], g)'
  BY <1>1
<1>2. CASE made.orchestrator[t] = made'.orchestrator[t]
  <2>1. PICK u : u = made.orchestrator[t][g]
    OBVIOUS
  <2>2. g \in Getters
    BY DEF Getters
  <2>3. Agreed(u, g)
    BY <1>2, <2>1 DEF PartsAreAgreed
  <2>4. Agreed(u, g)'
    BY <2>2, <2>3, AgreedStays
  <2>5. QED  BY <1>2, <2>1, <2>4 DEF Agreed, Finished
<1>3. QED  BY <1>1, <1>2

LEMMA SeededStay ==
  ASSUME SeededIsAgreed, Grows,
         \A u \in Procs : made'.rag[u] # None /\ ~Has(todo'[u], <<"seed", "rag">>) =>
           \/ /\ made.rag[u] # None /\ ~Has(todo[u], <<"seed", "rag">>)
              /\ made'.rag[u].market = made.rag[u].market
           \/ Agreed(made.rag[u].market, "market")'
  PROVE  SeededIsAgreed'
<1> SUFFICES ASSUME NEW u \in Procs, made'.rag[u] # None, ~Has(todo'[u], <<"seed", "rag">>)
             PROVE  Agreed(made.rag[u].market, "market")'
  BY DEF SeededIsAgreed
<1>1. CASE Agreed(made.rag[u].market, "market")'
  BY <1>1
<1>2. CASE /\ made.rag[u] # None /\ ~Has(todo[u], <<"seed", "rag">>)
           /\ made'.rag[u].market = made.rag[u].market
  <2>1. PICK m : m = made.rag[u].market
    OBVIOUS
  <2>2. Agreed(m, "market")
    BY <1>2, <2>1 DEF SeededIsAgreed
  <2>3. Agreed(m, "market")'
    BY <2>2, AgreedStays DEF Getters
  <2>4. QED  BY <1>2, <2>1, <2>3 DEF Agreed, Finished
<1>3. QED  BY <1>1, <1>2

\* The mirror changes by what the kept source says, or by another process.
LEMMA MirroredStay ==
  ASSUME ApiType, Orderly, SeededIsAgreed, MirroredIsThere, Grows,
         \A m \in Procs : Finished(m, "market") => made'.market[m] = made.market[m],
         \A i \in DOMAIN mirror :
           /\ i \in DOMAIN mirror'
           /\ \/ i \in rewritten' \/ "market" \in raced'
              \/ mirror'[i] = mirror[i] /\ i \notin rewritten
              \/ mirror'[i] = made.market[cache["market"]],
         \A u \in Procs : made'.rag[u] # None /\ ~Has(todo'[u], <<"mirror", "rag">>) =>
           \/ made.rag[u] = made'.rag[u] /\ ~Has(todo[u], <<"mirror", "rag">>)
           \/ Mirrored(made.rag[u])'
  PROVE  MirroredIsThere'
<1> SUFFICES ASSUME NEW u \in Procs, made'.rag[u] # None, made.rag[u] = made'.rag[u],
                    ~Has(todo[u], <<"mirror", "rag">>)
             PROVE  Mirrored(made.rag[u])'
  BY DEF MirroredIsThere
<1>1. PICK rag : rag = made.rag[u]
  OBVIOUS
<1>2. ~Has(todo[u], <<"seed", "rag">>)
  BY PendingRag DEF ApiType, Orderly
<1>3. Agreed(rag.market, "market")
  BY <1>1, <1>2 DEF SeededIsAgreed
<1>4. rag.market \in Procs /\ made'.market[rag.market] = made.market[rag.market]
  BY <1>3 DEF Agreed, Finished
<1>5. rag.market = cache["market"] \/ "market" \in raced'
  BY <1>3 DEF Agreed, Grows
<1>6. Mirrored(rag)
  BY <1>1 DEF MirroredIsThere
<1>7. raced \subseteq raced'
  BY DEF Grows
<1>8. Mirrored(rag)'
  BY <1>4, <1>5, <1>6, <1>7 DEF Mirrored
<1>9. QED  BY <1>1, <1>8 DEF Mirrored

LEMMA RunsStay ==
  ASSUME RunsAreRecorded, cache'["audit"] = cache["audit"],
         cache'["orchestrator"] = cache["orchestrator"], runs' = runs,
         made'.audit = made.audit, raced \subseteq raced',
         \/ cache["orchestrator"] = None
         \/ made'.orchestrator[cache["orchestrator"]] = made.orchestrator[cache["orchestrator"]]
  PROVE  RunsAreRecorded'
<1>1. TrailIsWhole'
  BY DEF RunsAreRecorded, TrailIsWhole
<1>2. RunsAreListed'
  BY DEF RunsAreRecorded, RunsAreListed
<1>3. QED  BY <1>1, <1>2 DEF RunsAreRecorded

-----------------------------------------------------------------------------
(* The API process: its steps *)

\* What a request asks for is supplied, and keeps nothing by itself.
RequestOf(r) ==
  /\ r \in Seq(Steps) /\ InOrder(r) /\ Supplied(r, {})
  /\ \A g \in Getters : ~Has(r, <<"keep", g>>)
  /\ ~Has(r, <<"seed", "rag">>) /\ ~Has(r, <<"mirror", "rag">>)

LEMMA OneStep ==
  ASSUME NEW x \in Steps, Uses(x) = {}, x[1] \notin {"keep", "make", "seed", "mirror"}
  PROVE  RequestOf(<<x>>)
<1> DEFINE b == <<x>>
<1>1. b \in Seq(Steps) /\ Len(b) = 1 /\ b[1] = x /\ 1 .. 1 = {1}
  OBVIOUS
<1> HIDE DEF b
<1>2. /\ \A g \in Getters : x # <<"keep", g>> /\ x # <<"make", g>>
      /\ x # <<"seed", "rag">> /\ x # <<"mirror", "rag">> /\ x # <<"make", "rag">>
  OBVIOUS
<1>3. InOrder(b)
  BY <1>1, <1>2 DEF InOrder
<1>4. Supplied(b, {})
  BY <1>1 DEF Supplied
<1>5. QED  BY <1>1, <1>2, <1>3, <1>4 DEF RequestOf, Has, b

LEMMA TwoSteps ==
  ASSUME NEW x \in Steps, NEW y \in Steps, Uses(x) = {}, Uses(y) \subseteq Gives(x),
         x[1] \notin {"keep", "make", "seed", "mirror"},
         y[1] \notin {"keep", "make", "seed", "mirror"}
  PROVE  RequestOf(<<x, y>>)
<1> DEFINE b == <<x, y>>
<1>1. b \in Seq(Steps) /\ Len(b) = 2 /\ b[1] = x /\ b[2] = y /\ 1 .. 2 = {1, 2}
  OBVIOUS
<1> HIDE DEF b
<1>2. /\ \A g \in Getters : x # <<"keep", g>> /\ x # <<"make", g>> /\ y # <<"keep", g>> /\ y # <<"make", g>>
      /\ x # <<"seed", "rag">> /\ x # <<"mirror", "rag">> /\ x # <<"make", "rag">>
      /\ y # <<"seed", "rag">> /\ y # <<"mirror", "rag">> /\ y # <<"make", "rag">>
  OBVIOUS
<1>3. InOrder(b)
  BY <1>1, <1>2 DEF InOrder
<1>4. Supplied(b, {})
  BY <1>1 DEF Supplied
<1>5. /\ \A g \in Getters : ~Has(b, <<"keep", g>>)
      /\ ~Has(b, <<"seed", "rag">>) /\ ~Has(b, <<"mirror", "rag">>)
  BY <1>1, <1>2 DEF Has
<1>6. QED  BY <1>1, <1>3, <1>4, <1>5 DEF RequestOf, b

LEMMA EveryRequest == \A r \in Api!Requests : RequestOf(r)
<1>1. RequestOf(<< <<"call", "rag">> >>)
  <2>1. <<"call", "rag">> \in Steps /\ Uses(<<"call", "rag">>) = {}
    BY StepFacts, UsesFacts DEF Getters
  <2>2. QED  BY <2>1, OneStep
<1>2. RequestOf(<< <<"call", "market">>, <<"predict", "">> >>)
  <2>1. /\ <<"call", "market">> \in Steps /\ Uses(<<"call", "market">>) = {}
        /\ <<"predict", "">> \in Steps /\ Uses(<<"predict", "">>) = {}
    BY StepFacts, UsesFacts DEF Getters
  <2>2. QED  BY <2>1, TwoSteps
<1>3. RequestOf(<< <<"call", "orchestrator">>, <<"run", "">> >>)
  <2>1. <<"call", "orchestrator">> \in Steps /\ Uses(<<"call", "orchestrator">>) = {}
    BY StepFacts, UsesFacts DEF Getters
  <2>2. <<"run", "">> \in Steps
    BY StepFacts
  <2>3. Uses(<<"run", "">>) = Gives(<<"call", "orchestrator">>)
    BY StepFacts, UsesFacts DEF Getters
  <2>4. QED  BY <2>1, <2>2, <2>3, TwoSteps
<1>4. QED  BY <1>1, <1>2, <1>3 DEF Api!Requests

LEMMA NothingInEmpty == \A x : ~Has(<<>>, x)
BY Len(<<>>) = 0 DEF Has

LEMMA AskKeeps ==
  ASSUME ApiInv, NEW t \in Procs, Api!Ask(t)
  PROVE  ApiInv'
<1>1. PICK r \in Api!Requests : todo' = [todo EXCEPT ![t] = r]
  BY DEF Api!Ask
<1>2. todo[t] = <<>> /\ UNCHANGED <<mode, world, changes, mirror, cache, made, got, registry, runs,
                                    raced, rewritten, loadable>>
  BY DEF Api!Ask
<1>3. RequestOf(r)
  BY EveryRequest
<1>4. /\ ApiType /\ Orderly /\ KeptIsFinished /\ GivenIsAgreed /\ PartsAreAgreed
      /\ SeededIsAgreed /\ MirroredIsThere /\ RunsAreRecorded /\ Api!TrainedModelStays
  BY DEF ApiInv
<1>5. todo' \in [Procs -> Seq(Steps)] /\ todo'[t] = r /\ \A u \in Procs : u # t => todo'[u] = todo[u]
  BY <1>1, <1>3, <1>4 DEF ApiType, RequestOf
<1>6. /\ \A u \in Procs, g \in Getters : Has(todo'[u], <<"keep", g>>) => Has(todo[u], <<"keep", g>>)
      /\ \A u \in Procs : Has(todo[u], <<"seed", "rag">>) => Has(todo'[u], <<"seed", "rag">>)
      /\ \A u \in Procs : Has(todo[u], <<"mirror", "rag">>) => Has(todo'[u], <<"mirror", "rag">>)
  BY <1>2, <1>3, <1>5, NothingInEmpty DEF RequestOf
<1>7. ApiType'
  BY <1>2, <1>4, <1>5 DEF ApiType
<1>8. Orderly'
  <2>1. \A u \in Procs : Known(u)' = Known(u)
    BY <1>2 DEF Known
  <2>2. Supplied(r, Known(t))
    BY <1>3, MoreIsKnown DEF RequestOf
  <2>3. QED  BY <1>3, <1>4, <1>5, <2>1, <2>2 DEF Orderly, RequestOf
<1>9. Grows
  BY <1>2, <1>6 DEF Grows
<1>10. KeptIsFinished' /\ GivenIsAgreed' /\ PartsAreAgreed'
  BY <1>2, <1>4, <1>9, KeptStay, GivenStay, PartsStay
<1>11. SeededIsAgreed'
  BY <1>2, <1>4, <1>6, <1>9, SeededStay
<1>12. MirroredIsThere'
  BY <1>2, <1>4, <1>6, <1>9, MirroredStay
<1>13. RunsAreRecorded' /\ Api!TrainedModelStays'
  BY <1>2, <1>4, RunsStay DEF Api!TrainedModelStays
<1>14. QED  BY <1>7, <1>8, <1>10, <1>11, <1>12, <1>13 DEF ApiInv

\* The conjuncts of the invariant, for the proofs below.
LEMMA ApiParts ==
  ASSUME ApiInv
  PROVE  /\ ApiType /\ Orderly /\ KeptIsFinished /\ GivenIsAgreed /\ PartsAreAgreed
         /\ SeededIsAgreed /\ MirroredIsThere /\ RunsAreRecorded /\ Api!TrainedModelStays
         /\ None \notin Procs /\ Api!Getters = Getters
         /\ \A g \in Getters : cache[g] # None => cache[g] \in Procs
         /\ \A t \in Procs, g \in Getters : got[t][g] # None => got[t][g] \in Procs
BY NoneIsNothing DEF ApiInv, ApiType, Instances, Api!Getters, Getters

\* What a thread was given stays agreed when its step gives it at most k, which is.
LEMMA GivenAfter ==
  ASSUME ApiInv, Grows, NEW t \in Procs, NEW given, Api!DoneWith(t, given), NEW k,
         \A g \in Getters : given[g] = got[t][g] \/ (given[g] = k /\ Agreed(k, g)')
  PROVE  GivenIsAgreed'
<1>1. \A u \in Procs, g \in Getters : got'[u][g] # None =>
        got[u][g] = got'[u][g] \/ (got'[u][g] = k /\ Agreed(k, g)')
  <2>1. got' = [got EXCEPT ![t] = IF Tail(todo[t]) = <<>> THEN Api!Unasked ELSE given]
    BY DEF Api!DoneWith
  <2>2. \A g \in Getters : Api!Unasked[g] = None
    BY DEF Api!Unasked, Api!Getters, Getters
  <2>3. QED  BY <2>1, <2>2, ApiParts DEF ApiType
<1>2. \A u \in Procs, g \in Getters : got'[u][g] # None =>
        got[u][g] = got'[u][g] \/ Agreed(got[u][g], g)'
  BY <1>1 DEF Agreed, Finished
<1>3. QED  BY <1>2, ApiParts, GivenStay

LEMMA HitKeeps ==
  ASSUME ApiInv, NEW t \in Procs, NEW g \in Getters, Api!Call(t, g), cache[g] # None
  PROVE  ApiInv'
<1> DEFINE given == [got[t] EXCEPT ![g] = cache[g]]
<1>1. /\ todo[t] # <<>> /\ Head(todo[t]) = <<"call", g>> /\ Api!DoneWith(t, given)
      /\ UNCHANGED <<mode, world, changes, mirror, cache, made, registry, runs, raced, rewritten,
                     loadable>>
      /\ todo' = [todo EXCEPT ![t] = Tail(@)]
  BY DEF Api!Call, Api!Doing, Api!DoneWith
<1>2. given \in [Getters -> Instances] /\ given[g] = cache[g] /\ \A h \in Getters : h # g => given[h] = got[t][h]
  BY ApiParts DEF ApiType
<1> HIDE DEF given
<1>3. /\ \A u \in Procs : \A x : Has(todo'[u], x) => Has(todo[u], x)
      /\ \A u \in Procs : \A x : Has(todo[u], x) => Has(todo'[u], x) \/ x = <<"call", g>>
  BY <1>1, ApiParts, Popped
<1>4. Grows
  BY <1>1, <1>3 DEF Grows
<1>5. Orderly' /\ todo' \in [Procs -> Seq(Steps)] /\ got' \in [Procs -> [Getters -> Instances]]
  <2>1. Gives(Head(todo[t])) = {<<"got", g>>}
    BY <1>1, StepFacts
  <2>2. /\ \A h \in Getters : got[t][h] # None => given[h] # None
        /\ \A n \in Gives(Head(todo[t])) : \E h \in Getters : n = <<"got", h>> /\ given[h] # None
    BY <1>2, <2>1
  <2>3. \A u \in Procs : /\ made.rag[u] # None => made'.rag[u] # None
                         /\ made.orchestrator[u] # None => made'.orchestrator[u] # None
    BY <1>1
  <2>4. QED  BY <1>1, <1>2, <2>2, <2>3, ApiParts, StaySupplied
<1>6. ApiType'
  BY <1>1, <1>5, ApiParts DEF ApiType
<1>7. KeptIsFinished' /\ PartsAreAgreed'
  BY <1>1, <1>4, ApiParts, KeptStay, PartsStay
<1>8. GivenIsAgreed'
  <2>1. PICK k : k = cache[g]
    OBVIOUS
  <2>2. Agreed(k, g)'
    BY <2>1, <1>4, ApiParts, AgreedStays DEF KeptIsFinished, Agreed
  <2>3. \A h \in Getters : given[h] = got[t][h] \/ (given[h] = k /\ Agreed(k, h)')
    BY <1>2, <2>1, <2>2
  <2>4. QED  BY <1>1, <1>4, <2>3, GivenAfter, SMTT(30)
<1>9. SeededIsAgreed'
  <2>1. \A u \in Procs : Has(todo[u], <<"seed", "rag">>) => Has(todo'[u], <<"seed", "rag">>)
    BY <1>3
  <2>2. QED  BY <1>1, <2>1, <1>4, ApiParts, SeededStay
<1>10. MirroredIsThere'
  <2>1. \A u \in Procs : Has(todo[u], <<"mirror", "rag">>) => Has(todo'[u], <<"mirror", "rag">>)
    BY <1>3
  <2>2. QED  BY <1>1, <2>1, <1>4, ApiParts, MirroredStay
<1>11. RunsAreRecorded' /\ Api!TrainedModelStays'
  BY <1>1, ApiParts, RunsStay DEF Api!TrainedModelStays
<1>12. QED  BY <1>5, <1>6, <1>7, <1>8, <1>9, <1>10, <1>11 DEF ApiInv

LEMMA MissKeeps ==
  ASSUME ApiInv, NEW t \in Procs, NEW g \in Getters, Api!Call(t, g), cache[g] = None
  PROVE  ApiInv'
<1> DEFINE b == Api!Body(g)  c == b \o Tail(todo[t])
<1>1. /\ todo[t] # <<>> /\ Head(todo[t]) = <<"call", g>>
      /\ UNCHANGED <<mode, world, changes, mirror, cache, made, got, registry, runs, raced, rewritten,
                     loadable>>
      /\ todo' = [todo EXCEPT ![t] = c]
  BY DEF Api!Call, Api!Doing
<1>2. BodyOf(g, b)
  BY EveryBody
<1> HIDE DEF b
<1>3. /\ todo \in [Procs -> Seq(Steps)] /\ todo[t] \in Seq(Steps) /\ InOrder(todo[t])
      /\ Supplied(todo[t], Known(t))
  BY ApiParts DEF ApiType, Orderly
<1>4. /\ c \in Seq(Steps) /\ InOrder(c) /\ Supplied(c, Known(t))
      /\ \A x : Has(c, x) <=> Has(b, x) \/ Has(Tail(todo[t]), x)
  BY <1>1, <1>2, <1>3, Expanded
<1>5. \A x : Has(todo[t], x) <=> x = <<"call", g>> \/ Has(Tail(todo[t]), x)
  BY <1>1, <1>3, HasTail
<1> HIDE DEF c
<1>6. todo' \in [Procs -> Seq(Steps)] /\ todo'[t] = c /\ \A u \in Procs : u # t => todo'[u] = todo[u]
  BY <1>1, <1>3, <1>4
<1>7. \A u \in Procs, h \in Getters : Has(todo'[u], <<"keep", h>>) => Has(todo[u], <<"keep", h>>) \/ cache[h] = None
  <2>1. \A h \in Getters : Has(b, <<"keep", h>>) => h = g
    BY <1>2 DEF BodyOf, Has
  <2>2. QED  BY <1>4, <1>5, <1>6, <2>1
<1>8. \A u \in Procs : \A x : Has(todo[u], x) => Has(todo'[u], x) \/ x = <<"call", g>>
  BY <1>4, <1>5, <1>6
<1>9. Grows
  BY <1>1, <1>7 DEF Grows
<1>10. ApiType'
  BY <1>1, <1>6, ApiParts DEF ApiType
<1>11. Orderly'
  <2>1. \A u \in Procs : Known(u)' = Known(u)
    BY <1>1 DEF Known
  <2>2. QED  BY <1>4, <1>6, <2>1, ApiParts DEF Orderly
<1>12. KeptIsFinished' /\ GivenIsAgreed' /\ PartsAreAgreed'
  BY <1>1, <1>9, ApiParts, KeptStay, GivenStay, PartsStay
<1>13. SeededIsAgreed'
  <2>1. \A u \in Procs : Has(todo[u], <<"seed", "rag">>) => Has(todo'[u], <<"seed", "rag">>)
    BY <1>8
  <2>2. QED  BY <1>1, <2>1, <1>9, ApiParts, SeededStay
<1>14. MirroredIsThere'
  <2>1. \A u \in Procs : Has(todo[u], <<"mirror", "rag">>) => Has(todo'[u], <<"mirror", "rag">>)
    BY <1>8
  <2>2. QED  BY <1>1, <2>1, <1>9, ApiParts, MirroredStay
<1>15. RunsAreRecorded' /\ Api!TrainedModelStays'
  BY <1>1, ApiParts, RunsStay DEF Api!TrainedModelStays
<1>16. QED  BY <1>10, <1>11, <1>12, <1>13, <1>14, <1>15 DEF ApiInv

LEMMA KeepKeeps ==
  ASSUME ApiInv, NEW t \in Procs, NEW g \in Getters, Api!Keep(t, g)
  PROVE  ApiInv'
<1> DEFINE given == [got[t] EXCEPT ![g] = t]
<1>1. /\ todo[t] # <<>> /\ Head(todo[t]) = <<"keep", g>> /\ Api!DoneWith(t, given)
      /\ UNCHANGED <<mode, world, changes, mirror, made, registry, runs, rewritten, loadable>>
      /\ todo' = [todo EXCEPT ![t] = Tail(@)]
  BY DEF Api!Keep, Api!Doing, Api!DoneWith
<1>2. \/ cache[g] = None /\ cache' = [cache EXCEPT ![g] = t] /\ raced' = raced
      \/ cache[g] # None /\ cache' = cache /\ raced' = raced \cup {g}
  BY DEF Api!Keep
<1>3. t \in Instances /\ t # None
  BY ApiParts DEF Instances
<1>4. given \in [Getters -> Instances] /\ given[g] = t /\ \A h \in Getters : h # g => given[h] = got[t][h]
  BY <1>3, ApiParts DEF ApiType
<1> HIDE DEF given
<1>5. /\ cache' \in [Getters -> Instances] /\ cache'[g] # None /\ raced \subseteq raced'
      /\ \A h \in Getters : h # g => cache'[h] = cache[h]
      /\ g \in raced' \/ cache'[g] = t
      /\ cache[g] # None => cache'[g] = cache[g]
      /\ cache'[g] = cache[g] \/ cache'[g] = t
      /\ cache[g] # None => g \in raced'
  <2>1. cache \in [Getters -> Instances]
    BY ApiParts DEF ApiType
  <2>2. CASE cache[g] = None /\ cache' = [cache EXCEPT ![g] = t] /\ raced' = raced
    BY <1>3, <2>1, <2>2
  <2>3. CASE cache[g] # None /\ cache' = cache /\ raced' = raced \cup {g}
    BY <2>1, <2>3
  <2>4. QED  BY <1>2, <2>2, <2>3
<1>6. /\ todo \in [Procs -> Seq(Steps)] /\ todo[t] \in Seq(Steps) /\ InOrder(todo[t])
  BY ApiParts DEF ApiType, Orderly
<1>7. /\ todo' \in [Procs -> Seq(Steps)] /\ todo'[t] = Tail(todo[t])
      /\ \A u \in Procs : \A x : Has(todo[u], x) => Has(todo'[u], x) \/ x = <<"keep", g>>
      /\ Uses(Head(todo[t])) \subseteq Known(t)
  <2>1. ApiType /\ Orderly
    BY ApiParts
  <2>2. /\ todo' \in [Procs -> Seq(Steps)] /\ todo'[t] = Tail(todo[t])
        /\ Uses(Head(todo[t])) \subseteq Known(t)
    BY <1>1, <2>1, Popped
  <2>3. \A u \in Procs : \A x : Has(todo[u], x) => Has(todo'[u], x) \/ x = <<"keep", g>>
    BY <1>1, <2>1, Popped
  <2>4. QED  BY <2>2, <2>3
<1>8. ~Has(todo'[t], <<"keep", g>>)
  BY <1>1, <1>6, <1>7, HeadInOrder
<1>9. Grows
  BY <1>1, <1>5, ApiParts, PopGrows
<1>10. Orderly' /\ got' \in [Procs -> [Getters -> Instances]]
  <2>1. Gives(Head(todo[t])) = {<<"got", g>>}
    BY <1>1, StepFacts
  <2>2. /\ \A h \in Getters : got[t][h] # None => given[h] # None
        /\ \A n \in Gives(Head(todo[t])) : \E h \in Getters : n = <<"got", h>> /\ given[h] # None
    BY <1>3, <1>4, <2>1
  <2>3. \A u \in Procs : /\ made.rag[u] # None => made'.rag[u] # None
                         /\ made.orchestrator[u] # None => made'.orchestrator[u] # None
    BY <1>1
  <2>4. QED  BY <1>1, <1>4, <2>2, <2>3, ApiParts, StaySupplied
<1>11. ApiType'
  BY <1>1, <1>5, <1>7, <1>10, ApiParts DEF ApiType
<1>12. Finished(t, g)'
  <2>1. g = "rag" => made.rag[t] # None
    <3>1. g = "rag" => <<"made", "rag">> \in Known(t)
      BY <1>1, <1>7, UsesFacts
    <3>2. QED  BY <3>1 DEF Known
  <2>2. g = "orchestrator" => made.orchestrator[t] # None
    <3>1. g = "orchestrator" => <<"made", "orchestrator">> \in Known(t)
      BY <1>1, <1>7, UsesFacts
    <3>2. QED  BY <3>1 DEF Known
  <2>3. QED  BY <1>1, <1>5, <1>8, <2>1, <2>2 DEF Finished
<1>13. Agreed(t, g)'
  BY <1>5, <1>12 DEF Agreed
<1>14. KeptIsFinished'
  <2>1. \A h \in Getters : cache'[h] # None => cache[h] = cache'[h] \/ Finished(cache[h], h)'
    BY <1>5, <1>12 DEF Finished
  <2>2. QED  BY <2>1, <1>9, ApiParts, KeptStay
<1>15. GivenIsAgreed'
  <2>1. \A h \in Getters : given[h] = got[t][h] \/ (given[h] = t /\ Agreed(t, h)')
    BY <1>4, <1>13
  <2>2. QED  BY <1>1, <1>9, <2>1, GivenAfter
<1>16. PartsAreAgreed'
  BY <1>1, <1>9, ApiParts, PartsStay
<1>17. SeededIsAgreed'
  <2>1. \A u \in Procs : Has(todo[u], <<"seed", "rag">>) => Has(todo'[u], <<"seed", "rag">>)
    BY <1>7
  <2>2. QED  BY <1>1, <2>1, <1>9, ApiParts, SeededStay
<1>18. MirroredIsThere'
  <2>1. \A u \in Procs : Has(todo[u], <<"mirror", "rag">>) => Has(todo'[u], <<"mirror", "rag">>)
    BY <1>7
  <2>2. QED  BY <1>1, <2>1, <1>9, ApiParts, MirroredStay
<1>19. RunsAreRecorded'
  <2>1. CASE g \notin {"audit", "orchestrator"}
    <3>1. cache'["audit"] = cache["audit"] /\ cache'["orchestrator"] = cache["orchestrator"]
      BY <1>5, <2>1 DEF Getters
    <3>2. QED  BY <1>1, <1>5, <3>1, ApiParts, RunsStay
  <2>2. CASE cache[g] # None
    <3>1. cache' = cache
      BY <1>2, <2>2
    <3>2. QED  BY <1>1, <1>5, <3>1, ApiParts, RunsStay
  <2>3. CASE g = "audit" /\ cache[g] = None
    <3>1. runs = 0 /\ made.audit[t] = {} /\ 1 .. 0 = {}
      BY <2>3, ApiParts DEF RunsAreRecorded, TrailIsWhole
    <3>2. TrailIsWhole'
      BY <1>1, <1>5, <2>3, <3>1 DEF TrailIsWhole
    <3>3. cache'["orchestrator"] = cache["orchestrator"]
      BY <1>5, <2>3 DEF Getters
    <3>4. RunsAreListed'
      BY <1>1, <1>5, <3>3, ApiParts DEF RunsAreRecorded, RunsAreListed
    <3>5. QED  BY <3>2, <3>4 DEF RunsAreRecorded
  <2>4. CASE g = "orchestrator" /\ cache[g] = None
    <3>1. runs = 0 /\ (\A u \in Procs : made.audit[u] = {}) /\ 1 .. 0 = {}
      BY <2>4, ApiParts DEF RunsAreRecorded, RunsAreListed
    <3>2. made.orchestrator[t].audit \in Procs
      BY <1>1, <1>12, <2>4, ApiParts DEF Finished, ApiType, Orchestrators
    <3>3. cache'["orchestrator"] = t /\ cache'["audit"] = cache["audit"]
      BY <1>2, <1>5, <2>4, ApiParts DEF Getters, ApiType
    <3>4. RunsAreListed'
      BY <1>1, <1>3, <3>1, <3>2, <3>3 DEF RunsAreListed
    <3>5. TrailIsWhole'
      BY <1>1, <1>5, <3>3, ApiParts DEF RunsAreRecorded, TrailIsWhole
    <3>6. QED  BY <3>4, <3>5 DEF RunsAreRecorded
  <2>5. QED  BY <2>1, <2>2, <2>3, <2>4
<1>20. Api!TrainedModelStays'
  BY <1>1, ApiParts DEF Api!TrainedModelStays
<1>21. QED  BY <1>10, <1>11, <1>14, <1>15, <1>16, <1>17, <1>18, <1>19, <1>20 DEF ApiInv

\* A step that is no call of a getter and keeps nothing.
LEMMA DoneKeeps ==
  ASSUME ApiInv, NEW t \in Procs, todo[t] # <<>>, Api!Done(t), cache' = cache, raced' = raced,
         \A u \in Procs : /\ made.rag[u] # None => made'.rag[u] # None
                          /\ made.orchestrator[u] # None => made'.orchestrator[u] # None,
         \A n \in Gives(Head(todo[t])) :
           \/ n = <<"made", "rag">> /\ made'.rag[t] # None
           \/ n = <<"made", "orchestrator">> /\ made'.orchestrator[t] # None
           \/ n = <<"made", "market">>
  PROVE  /\ Grows /\ Orderly' /\ KeptIsFinished' /\ GivenIsAgreed'
         /\ todo' \in [Procs -> Seq(Steps)] /\ got' \in [Procs -> [Getters -> Instances]]
         /\ todo'[t] = Tail(todo[t])
         /\ \A u \in Procs : \A x :
              Has(todo[u], x) => Has(todo'[u], x) \/ (u = t /\ x = Head(todo[t]))
         /\ Uses(Head(todo[t])) \subseteq Known(t)
<1>1. Api!DoneWith(t, got[t]) /\ todo' = [todo EXCEPT ![t] = Tail(@)]
  BY DEF Api!Done, Api!DoneWith
<1>2. ApiType /\ Orderly
  BY ApiParts
<1>3. got[t] \in [Getters -> Instances]
  BY <1>2 DEF ApiType
<1>4. Grows
  BY <1>1, <1>2, PopGrows
<1>5. Orderly' /\ todo' \in [Procs -> Seq(Steps)] /\ got' \in [Procs -> [Getters -> Instances]]
  BY <1>1, <1>2, <1>3, StaySupplied
<1>6. KeptIsFinished'
  BY <1>4, ApiParts, KeptStay
<1>7. GivenIsAgreed'
  BY <1>1, <1>4, GivenAfter
<1>8. /\ todo'[t] = Tail(todo[t]) /\ Uses(Head(todo[t])) \subseteq Known(t)
      /\ \A u \in Procs : \A x :
           Has(todo[u], x) => Has(todo'[u], x) \/ (u = t /\ x = Head(todo[t]))
  BY <1>1, <1>2, Popped
<1>9. QED  BY <1>4, <1>5, <1>6, <1>7, <1>8

LEMMA PredictKeeps ==
  ASSUME ApiInv, NEW t \in Procs, Api!Predict(t)
  PROVE  ApiInv'
<1>1. /\ todo[t] # <<>> /\ Head(todo[t]) = <<"predict", "">> /\ Api!Done(t)
      /\ registry' = Api!WithModel(registry)
      /\ UNCHANGED <<mode, world, changes, mirror, cache, made, runs, raced, rewritten, loadable>>
  BY DEF Api!Predict, Api!Doing
<1>2. /\ Gives(<<"predict", "">>) = {} /\ <<"predict", "">> # <<"seed", "rag">>
      /\ <<"predict", "">> # <<"mirror", "rag">>
  BY DEF Gives
<1>3. /\ Grows /\ Orderly' /\ KeptIsFinished' /\ GivenIsAgreed'
      /\ todo' \in [Procs -> Seq(Steps)] /\ got' \in [Procs -> [Getters -> Instances]]
  BY <1>1, <1>2, DoneKeeps
<1>4. \A u \in Procs : \A x : Has(todo[u], x) => Has(todo'[u], x) \/ (u = t /\ x = Head(todo[t]))
  BY <1>1, <1>2, DoneKeeps
<1>5. ApiType'
  BY <1>1, <1>3, ApiParts DEF ApiType
<1>6. PartsAreAgreed'
  BY <1>1, <1>3, ApiParts, PartsStay
<1>7. SeededIsAgreed'
  <2>1. \A u \in Procs : Has(todo[u], <<"seed", "rag">>) => Has(todo'[u], <<"seed", "rag">>)
    BY <1>1, <1>2, <1>4
  <2>2. QED  BY <1>1, <1>3, <2>1, ApiParts, SeededStay
<1>8. MirroredIsThere'
  <2>1. \A u \in Procs : Has(todo[u], <<"mirror", "rag">>) => Has(todo'[u], <<"mirror", "rag">>)
    BY <1>1, <1>2, <1>4
  <2>2. QED  BY <1>1, <1>3, <2>1, ApiParts, MirroredStay
<1>9. RunsAreRecorded'
  BY <1>1, ApiParts, RunsStay
<1>10. Api!TrainedModelStays'
  BY <1>1, ApiParts DEF Api!TrainedModelStays, Api!WithModel
<1>11. QED  BY <1>3, <1>5, <1>6, <1>7, <1>8, <1>9, <1>10 DEF ApiInv

LEMMA RunKeeps ==
  ASSUME ApiInv, NEW t \in Procs, Api!Run(t)
  PROVE  ApiInv'
<1> DEFINE o == got[t]["orchestrator"]
<1>1. /\ todo[t] # <<>> /\ Head(todo[t]) = <<"run", "">> /\ Api!Done(t)
      /\ registry' = Api!WithModel(registry) /\ runs' = runs + 1
      /\ UNCHANGED <<mode, world, changes, mirror, cache, raced, rewritten, loadable>>
      /\ made' = [made EXCEPT !.audit[made.orchestrator[o].audit] = @ \cup {runs + 1}]
  BY DEF Api!Run, Api!Doing
<1>2. /\ Gives(<<"run", "">>) = {} /\ Uses(<<"run", "">>) = {<<"got", "orchestrator">>}
      /\ <<"run", "">> # <<"seed", "rag">> /\ <<"run", "">> # <<"mirror", "rag">>
  BY UsesFacts, ZenonT(40) DEF Gives
<1>3. /\ made'.rag = made.rag /\ made'.orchestrator = made.orchestrator /\ made'.market = made.market
      /\ made'.audit = [made.audit EXCEPT ![made.orchestrator[o].audit] = @ \cup {runs + 1}]
      /\ made' \in [market : [Procs -> Sources \cup {None}], rag : [Procs -> RagServices \cup {None}],
                    audit : [Procs -> SUBSET Nat],
                    orchestrator : [Procs -> Orchestrators \cup {None}]]
      /\ runs' \in Nat
  <2>1. ApiType
    BY ApiParts
  <2>2. PICK trail : trail = made.orchestrator[o].audit
    OBVIOUS
  <2>3. made' = [made EXCEPT !.audit = [made.audit EXCEPT ![trail] = @ \cup {runs + 1}]]
    BY <1>1, <2>1, <2>2 DEF ApiType
  <2>4. [made.audit EXCEPT ![trail] = @ \cup {runs + 1}] \in [Procs -> SUBSET Nat] /\ runs' \in Nat
    <3>1. runs + 1 \in Nat /\ runs' \in Nat /\ made.audit \in [Procs -> SUBSET Nat]
      <4>1. runs \in Nat /\ made.audit \in [Procs -> SUBSET Nat]
        BY <2>1 DEF ApiType
      <4>2. runs' = runs + 1
        BY <1>1
      <4>3. QED  BY <4>1, <4>2
    <3>2. \A ids \in SUBSET Nat : ids \cup {runs + 1} \in SUBSET Nat
      BY <3>1
    <3>3. QED  BY <3>1, <3>2
  <2>5. QED  BY <2>1, <2>2, <2>3, <2>4 DEF ApiType
<1>4. /\ Grows /\ Orderly' /\ KeptIsFinished' /\ GivenIsAgreed'
      /\ todo' \in [Procs -> Seq(Steps)] /\ got' \in [Procs -> [Getters -> Instances]]
      /\ Uses(Head(todo[t])) \subseteq Known(t)
  BY <1>1, <1>2, <1>3, DoneKeeps, ZenonT(40)
<1>5. \A u \in Procs : \A x : Has(todo[u], x) => Has(todo'[u], x) \/ (u = t /\ x = Head(todo[t]))
  BY <1>1, <1>2, <1>3, DoneKeeps, ZenonT(40)
<1>6. ApiType'
  BY <1>1, <1>3, <1>4, ApiParts, ZenonT(40) DEF ApiType
<1>7. PartsAreAgreed'
  <2>1. PartsAreAgreed /\ Grows
    BY <1>4, ApiParts, Zenon
  <2>2. \A u \in Procs : made.orchestrator[u] = made'.orchestrator[u]
    BY <1>3, Zenon
  <2>3. QED  BY <2>1, <2>2, PartsStay, Zenon
<1>8. SeededIsAgreed'
  <2>1. \A u \in Procs : Has(todo[u], <<"seed", "rag">>) => Has(todo'[u], <<"seed", "rag">>)
    BY <1>1, <1>2, <1>5, ZenonT(40)
  <2>2. SeededIsAgreed /\ Grows
    BY <1>4, ApiParts, Zenon
  <2>3. \A u \in Procs : made'.rag[u] = made.rag[u]
    BY <1>3, Zenon
  <2>4. \A u \in Procs : made'.rag[u] # None /\ ~Has(todo'[u], <<"seed", "rag">>) =>
          /\ made.rag[u] # None /\ ~Has(todo[u], <<"seed", "rag">>)
          /\ made'.rag[u].market = made.rag[u].market
    BY <2>1, <2>3, Zenon
  <2>5. QED  BY <2>2, <2>4, SeededStay, Zenon
<1>9. MirroredIsThere'
  <2>1. \A u \in Procs : Has(todo[u], <<"mirror", "rag">>) => Has(todo'[u], <<"mirror", "rag">>)
    BY <1>1, <1>2, <1>5
  <2>2. QED  BY <1>1, <1>3, <1>4, <2>1, ApiParts, MirroredStay
<1>10. RunsAreRecorded'
  <2>1. <<"got", "orchestrator">> \in Known(t)
    BY <1>1, <1>2, <1>4
  <2>2. o # None
    BY <2>1 DEF Known
  <2>3. o \in Procs /\ made.orchestrator[o] # None
    BY <2>2, ApiParts DEF GivenIsAgreed, Agreed, Finished, Getters
  <2>4. Agreed(made.orchestrator[o].audit, "audit")
    BY <2>3, ApiParts DEF PartsAreAgreed
  <2>5. PICK a : a = made.orchestrator[o].audit
    OBVIOUS
  <2>6. a \in Procs /\ cache["audit"] # None /\ ("audit" \in raced \/ a = cache["audit"])
    BY <2>4, <2>5, SMTT(30) DEF Agreed, Finished
  <2>7. ASSUME made.audit[a] = 1 .. runs, runs \in Nat PROVE made'.audit[a] = 1 .. runs + 1
    <3>1. (1 .. runs) \cup {runs + 1} = 1 .. runs + 1
      BY <2>7
    <3>2. made'.audit[a] = made.audit[a] \cup {runs + 1}
      BY <1>3, <2>5, <2>6, ApiParts DEF ApiType
    <3>3. QED  BY <2>7, <3>1, <3>2
  <2>8. TrailIsWhole'
    <3>1. CASE "audit" \in raced
      BY <1>1, <2>6, <3>1, ZenonT(40) DEF TrailIsWhole
    <3>2. CASE "audit" \notin raced
      <4>1. made.audit[a] = 1 .. runs /\ runs \in Nat
        BY <2>6, <3>2, ApiParts, SMTT(30) DEF RunsAreRecorded, TrailIsWhole, ApiType
      <4>2. made'.audit[a] = 1 .. runs + 1
        BY <2>7, <4>1
      <4>3. QED  BY <1>1, <2>6, <3>2, <4>2 DEF TrailIsWhole
    <3>3. QED  BY <3>1, <3>2
  <2>9. RunsAreListed'
    <3>1. cache["orchestrator"] # None /\ ("orchestrator" \in raced \/ o = cache["orchestrator"])
      BY <2>2, ApiParts, SMTT(30) DEF GivenIsAgreed, Agreed, Finished, Getters
    <3>2. CASE "orchestrator" \in raced
      BY <1>1, <3>1, <3>2, ZenonT(40) DEF RunsAreListed
    <3>3. CASE "orchestrator" \notin raced
      <4>1. made.audit[a] = 1 .. runs /\ runs \in Nat
        BY <2>5, <3>1, <3>3, ApiParts, SMTT(30) DEF RunsAreRecorded, RunsAreListed, ApiType
      <4>2. made'.audit[a] = 1 .. runs + 1
        BY <2>7, <4>1
      <4>3. made'.orchestrator[cache["orchestrator"]].audit = a
        BY <1>3, <2>5, <3>1, <3>3
      <4>4. QED  BY <1>1, <3>1, <3>3, <4>2, <4>3 DEF RunsAreListed
    <3>4. QED  BY <3>2, <3>3
  <2>10. QED  BY <2>8, <2>9 DEF RunsAreRecorded
<1>11. Api!TrainedModelStays'
  BY <1>1, ApiParts DEF Api!TrainedModelStays, Api!WithModel
<1>12. QED  BY <1>4, <1>6, <1>7, <1>8, <1>9, <1>10, <1>11, SMTT(30) DEF ApiInv

LEMMA MakeMarketKeeps ==
  ASSUME ApiInv, NEW t \in Procs, Api!Make(t, "market")
  PROVE  ApiInv'
<1>1. /\ todo[t] # <<>> /\ Head(todo[t]) = <<"make", "market">> /\ Api!Done(t)
      /\ UNCHANGED <<mode, world, changes, mirror, cache, registry, runs, raced, rewritten, loadable>>
      /\ made' = [made EXCEPT !.market[t] = Api!Built(t, "market")]
  BY DEF Api!Make, Api!Doing
<1>2. Api!Built(t, "market") \in Sources
  BY DEF Api!Built, Api!Serving, Sources
<1>3. /\ Gives(<<"make", "market">>) = {<<"made", "market">>}
      /\ <<"make", "market">> # <<"seed", "rag">> /\ <<"make", "market">> # <<"mirror", "rag">>
  BY StepFacts DEF Getters
<1>4. /\ made'.rag = made.rag /\ made'.orchestrator = made.orchestrator /\ made'.audit = made.audit
      /\ \A m \in Procs : m # t => made'.market[m] = made.market[m]
      /\ made' \in [market : [Procs -> Sources \cup {None}], rag : [Procs -> RagServices \cup {None}],
                    audit : [Procs -> SUBSET Nat],
                    orchestrator : [Procs -> Orchestrators \cup {None}]]
  BY <1>1, <1>2, ApiParts DEF ApiType
<1>5. /\ Grows /\ Orderly' /\ KeptIsFinished' /\ GivenIsAgreed'
      /\ todo' \in [Procs -> Seq(Steps)] /\ got' \in [Procs -> [Getters -> Instances]]
  BY <1>1, <1>3, <1>4, DoneKeeps
<1>6. \A u \in Procs : \A x : Has(todo[u], x) => Has(todo'[u], x) \/ (u = t /\ x = Head(todo[t]))
  BY <1>1, <1>3, <1>4, DoneKeeps, ZenonT(40)
<1>7. ApiType'
  BY <1>1, <1>4, <1>5, ApiParts DEF ApiType
<1>8. PartsAreAgreed'
  BY <1>4, <1>5, ApiParts, PartsStay
<1>9. SeededIsAgreed'
  <2>1. \A u \in Procs : Has(todo[u], <<"seed", "rag">>) => Has(todo'[u], <<"seed", "rag">>)
    BY <1>1, <1>3, <1>6
  <2>2. QED  BY <1>4, <1>5, <2>1, ApiParts, SeededStay
<1>10. MirroredIsThere'
  <2>1. \A u \in Procs : Has(todo[u], <<"mirror", "rag">>) => Has(todo'[u], <<"mirror", "rag">>)
    BY <1>1, <1>3, <1>6
  <2>2. ~Finished(t, "market")
    <3>1. todo[t] \in Seq(Steps) /\ InOrder(todo[t])
      BY ApiParts DEF ApiType, Orderly
    <3>2. Has(Tail(todo[t]), <<"keep", "market">>)
      BY <1>1, <3>1, HeadInOrder DEF Getters
    <3>3. Has(todo[t], <<"keep", "market">>)
      BY <1>1, <3>1, <3>2, HasTail
    <3>4. QED  BY <3>3 DEF Finished
  <2>3. \A m \in Procs : Finished(m, "market") => made'.market[m] = made.market[m]
    BY <1>4, <2>2
  <2>4. QED  BY <1>1, <1>4, <1>5, <2>1, <2>3, ApiParts, MirroredStay
<1>11. RunsAreRecorded' /\ Api!TrainedModelStays'
  BY <1>1, <1>4, ApiParts, RunsStay DEF Api!TrainedModelStays
<1>12. QED  BY <1>5, <1>7, <1>8, <1>9, <1>10, <1>11 DEF ApiInv

LEMMA MakeRagKeeps ==
  ASSUME ApiInv, NEW t \in Procs, Api!Make(t, "rag")
  PROVE  ApiInv'
<1>1. /\ todo[t] # <<>> /\ Head(todo[t]) = <<"make", "rag">> /\ Api!Done(t)
      /\ UNCHANGED <<mode, world, changes, mirror, cache, registry, runs, raced, rewritten, loadable>>
      /\ made' = [made EXCEPT !.rag[t] = Api!Built(t, "rag")]
  BY DEF Api!Make, Api!Doing
<1>2. Api!Built(t, "rag") \in RagServices /\ Api!Built(t, "rag") # None
  <2>1. Api!Built(t, "rag") = [market |-> None, index |-> {}, available |-> world.qdrant]
    BY DEF Api!Built
  <2>2. world.qdrant \in BOOLEAN
    BY ApiParts DEF ApiType
  <2>3. QED  BY <2>1, <2>2, NoneIsNothing DEF RagServices, Instances
<1>3. /\ Gives(<<"make", "rag">>) = {<<"made", "rag">>}
      /\ <<"make", "rag">> # <<"seed", "rag">> /\ <<"make", "rag">> # <<"mirror", "rag">>
  BY StepFacts DEF Getters
<1>4. /\ made'.market = made.market /\ made'.orchestrator = made.orchestrator
      /\ made'.audit = made.audit /\ made'.rag[t] # None
      /\ \A u \in Procs : u # t => made'.rag[u] = made.rag[u]
      /\ made' \in [market : [Procs -> Sources \cup {None}], rag : [Procs -> RagServices \cup {None}],
                    audit : [Procs -> SUBSET Nat],
                    orchestrator : [Procs -> Orchestrators \cup {None}]]
  BY <1>1, <1>2, ApiParts DEF ApiType
<1>5. /\ Grows /\ Orderly' /\ KeptIsFinished' /\ GivenIsAgreed'
      /\ todo' \in [Procs -> Seq(Steps)] /\ got' \in [Procs -> [Getters -> Instances]]
      /\ todo'[t] = Tail(todo[t])
  BY <1>1, <1>3, <1>4, DoneKeeps
<1>6. \A u \in Procs : \A x : Has(todo[u], x) => Has(todo'[u], x) \/ (u = t /\ x = Head(todo[t]))
  BY <1>1, <1>3, <1>4, DoneKeeps, ZenonT(40)
<1>7. ApiType'
  BY <1>1, <1>4, <1>5, ApiParts DEF ApiType
<1>8. PartsAreAgreed'
  BY <1>4, <1>5, ApiParts, PartsStay
<1>9. Has(todo'[t], <<"seed", "rag">>) /\ Has(todo'[t], <<"mirror", "rag">>)
  <2>1. todo[t] \in Seq(Steps) /\ InOrder(todo[t])
    BY ApiParts DEF ApiType, Orderly
  <2>2. Has(todo'[t], <<"seed", "rag">>)
    BY <1>1, <1>5, <2>1, HeadInOrder
  <2>3. todo'[t] \in Seq(Steps) /\ InOrder(todo'[t])
    BY <1>5 DEF Orderly
  <2>4. QED  BY <2>2, <2>3, PendingRag
<1>10. SeededIsAgreed'
  <2>1. \A u \in Procs : Has(todo[u], <<"seed", "rag">>) => Has(todo'[u], <<"seed", "rag">>)
    BY <1>1, <1>3, <1>6
  <2>2. QED  BY <1>4, <1>5, <1>9, <2>1, ApiParts, SeededStay
<1>11. MirroredIsThere'
  <2>1. \A u \in Procs : Has(todo[u], <<"mirror", "rag">>) => Has(todo'[u], <<"mirror", "rag">>)
    BY <1>1, <1>3, <1>6
  <2>2. QED  BY <1>1, <1>4, <1>5, <1>9, <2>1, ApiParts, MirroredStay
<1>12. RunsAreRecorded' /\ Api!TrainedModelStays'
  BY <1>1, <1>4, ApiParts, RunsStay DEF Api!TrainedModelStays
<1>13. QED  BY <1>5, <1>7, <1>8, <1>10, <1>11, <1>12 DEF ApiInv

LEMMA MakeOrchestratorKeeps ==
  ASSUME ApiInv, NEW t \in Procs, Api!Make(t, "orchestrator")
  PROVE  ApiInv'
<1> DEFINE o == Api!Built(t, "orchestrator")
<1>1. /\ todo[t] # <<>> /\ Head(todo[t]) = <<"make", "orchestrator">> /\ Api!Done(t)
      /\ UNCHANGED <<mode, world, changes, mirror, cache, registry, runs, raced, rewritten, loadable>>
      /\ made' = [made EXCEPT !.orchestrator[t] = o]
  BY DEF Api!Make, Api!Doing
<1>2. /\ Gives(<<"make", "orchestrator">>) = {<<"made", "orchestrator">>}
      /\ Uses(<<"make", "orchestrator">>)
           = {<<"got", "market">>, <<"got", "rag">>, <<"got", "audit">>}
      /\ <<"make", "orchestrator">> # <<"seed", "rag">>
      /\ <<"make", "orchestrator">> # <<"mirror", "rag">>
  BY StepFacts, UsesFacts DEF Getters
<1>3. todo' = [todo EXCEPT ![t] = Tail(@)] /\ ApiType /\ Orderly
  BY <1>1, ApiParts DEF Api!Done, Api!DoneWith
<1>4. Uses(Head(todo[t])) \subseteq Known(t)
  BY <1>1, <1>3, Popped
<1>5. \A g \in {"market", "rag", "audit"} : got[t][g] # None /\ g \in Getters
  <2>1. /\ <<"got", "market">> \in Known(t) /\ <<"got", "rag">> \in Known(t)
        /\ <<"got", "audit">> \in Known(t)
    BY <1>1, <1>2, <1>4
  <2>2. QED  BY <2>1 DEF Known, Getters
<1>6. o = [market |-> got[t]["market"], rag |-> got[t]["rag"], audit |-> got[t]["audit"]]
  BY DEF Api!Built, Api!GivenTrail
<1> HIDE DEF o
<1>7. o \in Orchestrators /\ o # None /\ \A g \in {"market", "rag", "audit"} : o[g] = got[t][g]
  <2>1. \A g \in {"market", "rag", "audit"} : got[t][g] \in Procs
    BY <1>5, ApiParts
  <2>2. QED  BY <1>6, <2>1, NoneIsNothing DEF Orchestrators
<1>8. /\ made'.market = made.market /\ made'.rag = made.rag
      /\ made'.audit = made.audit /\ made'.orchestrator[t] = o
      /\ \A u \in Procs : u # t => made'.orchestrator[u] = made.orchestrator[u]
      /\ made' \in [market : [Procs -> Sources \cup {None}], rag : [Procs -> RagServices \cup {None}],
                    audit : [Procs -> SUBSET Nat],
                    orchestrator : [Procs -> Orchestrators \cup {None}]]
  BY <1>1, <1>7, ApiParts DEF ApiType
<1>9. /\ Grows /\ Orderly' /\ KeptIsFinished' /\ GivenIsAgreed'
      /\ todo' \in [Procs -> Seq(Steps)] /\ got' \in [Procs -> [Getters -> Instances]]
  BY <1>1, <1>2, <1>7, <1>8, DoneKeeps, SMTT(30)
<1>10. \A u \in Procs : \A x : Has(todo[u], x) => Has(todo'[u], x) \/ (u = t /\ x = Head(todo[t]))
  BY <1>1, <1>2, <1>7, <1>8, DoneKeeps, ZenonT(40)
<1>11. ApiType'
  BY <1>1, <1>8, <1>9, ApiParts DEF ApiType
<1>12. PartsAreAgreed'
  <2>1. \A g \in {"market", "rag", "audit"} : Agreed(made.orchestrator[t][g], g)'
    <3> SUFFICES ASSUME NEW g \in {"market", "rag", "audit"}
                 PROVE  Agreed(made.orchestrator[t][g], g)'
      OBVIOUS
    <3>1. PICK u : u = got[t][g]
      OBVIOUS
    <3>2. Agreed(u, g)
      BY <1>5, <3>1, ApiParts DEF GivenIsAgreed
    <3>3. Agreed(u, g)'
      BY <1>5, <1>9, <3>2, AgreedStays
    <3>4. made'.orchestrator[t][g] = u
      BY <1>7, <1>8, <3>1
    <3>5. QED  BY <3>3, <3>4 DEF Agreed, Finished
  <2>2. QED  BY <1>8, <1>9, <2>1, ApiParts, PartsStay
<1>13. SeededIsAgreed'
  <2>1. \A u \in Procs : Has(todo[u], <<"seed", "rag">>) => Has(todo'[u], <<"seed", "rag">>)
    BY <1>1, <1>2, <1>10
  <2>2. QED  BY <1>8, <1>9, <2>1, ApiParts, SeededStay
<1>14. MirroredIsThere'
  <2>1. \A u \in Procs : Has(todo[u], <<"mirror", "rag">>) => Has(todo'[u], <<"mirror", "rag">>)
    BY <1>1, <1>2, <1>10
  <2>2. QED  BY <1>1, <1>8, <1>9, <2>1, ApiParts, MirroredStay
<1>15. RunsAreRecorded' /\ Api!TrainedModelStays'
  <2>1. cache["orchestrator"] # t \/ cache["orchestrator"] = None
    <3>1. todo[t] \in Seq(Steps) /\ InOrder(todo[t])
      BY <1>3 DEF ApiType, Orderly
    <3>2. Has(Tail(todo[t]), <<"keep", "orchestrator">>)
      BY <1>1, <3>1, HeadInOrder DEF Getters
    <3>3. Has(todo[t], <<"keep", "orchestrator">>)
      BY <1>1, <3>1, <3>2, HasTail
    <3>4. QED  BY <3>3, ApiParts DEF KeptIsFinished, Finished, Getters
  <2>2. \/ cache["orchestrator"] = None
        \/ made'.orchestrator[cache["orchestrator"]] = made.orchestrator[cache["orchestrator"]]
    BY <1>8, <2>1, ApiParts DEF KeptIsFinished, Finished, Getters
  <2>3. QED  BY <1>1, <1>8, <2>2, ApiParts, RunsStay DEF Api!TrainedModelStays
<1>16. QED  BY <1>9, <1>11, <1>12, <1>13, <1>14, <1>15 DEF ApiInv

LEMMA SeedKeeps ==
  ASSUME ApiInv, NEW t \in Procs, Api!Seed(t)
  PROVE  ApiInv'
<1> DEFINE m == got[t]["market"]  ids == Api!News(made.market[m])  old == made.rag[t]
           new == [old EXCEPT !.market = m, !.index = ids]
<1>1. /\ todo[t] # <<>> /\ Head(todo[t]) = <<"seed", "rag">> /\ Api!Done(t)
      /\ UNCHANGED <<mode, world, changes, mirror, cache, registry, runs, raced, rewritten, loadable>>
      /\ made' = [made EXCEPT !.rag[t].market = m, !.rag[t].index = ids]
  BY DEF Api!Seed, Api!Doing
<1>2. ids \in SUBSET (NewsRows \cup FixtureRows)
  BY DEF Api!News
<1>3. /\ Gives(<<"seed", "rag">>) = {} /\ Uses(<<"seed", "rag">>) = {<<"got", "market">>, <<"made", "rag">>}
      /\ <<"seed", "rag">> # <<"mirror", "rag">>
  BY StepFacts, UsesFacts
<1>4. todo' = [todo EXCEPT ![t] = Tail(@)] /\ ApiType /\ Orderly
  BY <1>1, ApiParts DEF Api!Done, Api!DoneWith
<1>5. Uses(Head(todo[t])) \subseteq Known(t)
  BY <1>1, <1>4, Popped
<1>6. m # None /\ old # None
  <2>1. <<"got", "market">> \in Known(t) /\ <<"made", "rag">> \in Known(t)
    BY <1>1, <1>3, <1>5
  <2>2. m # None
    BY <2>1 DEF Known
  <2>3. old # None
    BY <2>1 DEF Known
  <2>4. QED  BY <2>2, <2>3
<1>7. m \in Procs /\ Agreed(m, "market")
  BY <1>6, ApiParts DEF GivenIsAgreed, Getters
<1>8. old \in RagServices
  BY <1>4, <1>6 DEF ApiType
<1> HIDE DEF ids
<1>9. new \in RagServices /\ new # None /\ new.market = m
  BY <1>2, <1>7, <1>8, NoneIsNothing DEF RagServices, Instances
<1>10. made' = [made EXCEPT !.rag = [made.rag EXCEPT ![t] = new]]
  BY <1>1, <1>4, <1>8 DEF ApiType, RagServices
<1> HIDE DEF new
<1>11. /\ made'.market = made.market /\ made'.orchestrator = made.orchestrator
       /\ made'.audit = made.audit /\ made'.rag[t] = new
       /\ \A u \in Procs : u # t => made'.rag[u] = made.rag[u]
       /\ made' \in [market : [Procs -> Sources \cup {None}], rag : [Procs -> RagServices \cup {None}],
                    audit : [Procs -> SUBSET Nat],
                    orchestrator : [Procs -> Orchestrators \cup {None}]]
  BY <1>4, <1>9, <1>10 DEF ApiType
<1>12. /\ Grows /\ Orderly' /\ KeptIsFinished' /\ GivenIsAgreed'
       /\ todo' \in [Procs -> Seq(Steps)] /\ got' \in [Procs -> [Getters -> Instances]]
       /\ todo'[t] = Tail(todo[t])
  BY <1>1, <1>3, <1>9, <1>11, DoneKeeps, SMTT(30)
<1>13. \A u \in Procs : \A x : Has(todo[u], x) => Has(todo'[u], x) \/ (u = t /\ x = Head(todo[t]))
  BY <1>1, <1>3, <1>9, <1>11, DoneKeeps, ZenonT(40)
<1>14. ApiType'
  BY <1>1, <1>4, <1>11, <1>12 DEF ApiType
<1>15. PartsAreAgreed'
  BY <1>11, <1>12, ApiParts, PartsStay
<1>16. SeededIsAgreed'
  <2>1. \A u \in Procs : u # t /\ Has(todo[u], <<"seed", "rag">>) => Has(todo'[u], <<"seed", "rag">>)
    BY <1>13
  <2>2. PICK k : k = m
    OBVIOUS
  <2>3. Agreed(k, "market")' /\ made'.rag[t].market = k
    BY <1>7, <1>9, <1>11, <1>12, <2>2, AgreedStays DEF Getters
  <2>4. Agreed(made.rag[t].market, "market")'
    BY <2>3 DEF Agreed, Finished
  <2>5. \A u \in Procs : made'.rag[u] # None /\ ~Has(todo'[u], <<"seed", "rag">>) =>
          \/ /\ made.rag[u] # None /\ ~Has(todo[u], <<"seed", "rag">>)
             /\ made'.rag[u].market = made.rag[u].market
          \/ Agreed(made.rag[u].market, "market")'
    BY <1>11, <2>1, <2>4, SMTT(30)
  <2>6. QED  BY <1>12, <2>5, ApiParts, SeededStay
<1>17. MirroredIsThere'
  <2>1. \A u \in Procs : Has(todo[u], <<"mirror", "rag">>) => Has(todo'[u], <<"mirror", "rag">>)
    BY <1>1, <1>3, <1>13
  <2>2. Has(todo'[t], <<"mirror", "rag">>)
    <3>1. todo[t] \in Seq(Steps) /\ InOrder(todo[t])
      BY <1>4 DEF ApiType, Orderly
    <3>2. QED  BY <1>1, <1>12, <3>1, HeadInOrder
  <2>3. QED  BY <1>1, <1>11, <1>12, <2>1, <2>2, ApiParts, MirroredStay
<1>18. RunsAreRecorded' /\ Api!TrainedModelStays'
  BY <1>1, <1>11, ApiParts, RunsStay DEF Api!TrainedModelStays
<1>19. QED  BY <1>12, <1>14, <1>15, <1>16, <1>17, <1>18 DEF ApiInv

LEMMA MirrorKeeps ==
  ASSUME ApiInv, NEW t \in Procs, Api!MirrorNews(t)
  PROVE  ApiInv'
<1> DEFINE old == made.rag[t]  sends == old.available /\ old.index # {}
           lost == [old EXCEPT !.available = FALSE]
<1>1. /\ todo[t] # <<>> /\ Head(todo[t]) = <<"mirror", "rag">> /\ Api!Done(t)
      /\ UNCHANGED <<mode, world, changes, cache, registry, runs, raced, loadable>>
      /\ IF sends /\ world.qdrant
         THEN /\ mirror' = Api!Put(mirror, old.index, made.market[old.market])
              /\ rewritten' = rewritten \ old.index
         ELSE UNCHANGED <<mirror, rewritten>>
      /\ made' = IF sends /\ ~world.qdrant THEN [made EXCEPT !.rag[t] = lost] ELSE made
  BY DEF Api!MirrorNews, Api!Doing, Api!Failed
<1>2. /\ Gives(<<"mirror", "rag">>) = {} /\ Uses(<<"mirror", "rag">>) = {<<"made", "rag">>}
      /\ <<"mirror", "rag">> # <<"seed", "rag">>
  BY StepFacts, UsesFacts
<1>3. todo' = [todo EXCEPT ![t] = Tail(@)] /\ ApiType /\ Orderly
  BY <1>1, ApiParts DEF Api!Done, Api!DoneWith
<1>4. Uses(Head(todo[t])) \subseteq Known(t)
  BY <1>1, <1>3, Popped
<1>5. old # None
  <2>1. <<"made", "rag">> \in Known(t)
    BY <1>1, <1>2, <1>4
  <2>2. QED  BY <2>1 DEF Known
<1>6. old \in RagServices
  BY <1>3, <1>5 DEF ApiType
<1>7. /\ lost \in RagServices /\ lost # None /\ lost.market = old.market /\ ~lost.available
      /\ lost.index = old.index
  BY <1>6, NoneIsNothing DEF RagServices, Instances
<1> HIDE DEF lost
<1>8. /\ made'.market = made.market /\ made'.orchestrator = made.orchestrator
      /\ made'.audit = made.audit /\ made'.rag[t] = (IF sends /\ ~world.qdrant THEN lost ELSE old)
      /\ \A u \in Procs : u # t => made'.rag[u] = made.rag[u]
      /\ made' \in [market : [Procs -> Sources \cup {None}], rag : [Procs -> RagServices \cup {None}],
                    audit : [Procs -> SUBSET Nat],
                    orchestrator : [Procs -> Orchestrators \cup {None}]]
  <2>1. CASE sends /\ ~world.qdrant
    <3>1. made' = [made EXCEPT !.rag[t] = lost]
      BY <1>1, <2>1
    <3>2. QED  BY <1>3, <1>7, <2>1, <3>1 DEF ApiType
  <2>2. CASE ~(sends /\ ~world.qdrant)
    <3>1. made' = made
      BY <1>1, <2>2
    <3>2. QED  BY <1>3, <2>2, <3>1 DEF ApiType
  <2>3. QED  BY <2>1, <2>2
<1>9. made'.rag[t] # None /\ made'.rag[t].market = old.market /\ made'.rag[t].index = old.index
  BY <1>5, <1>7, <1>8, SMTT(30)
<1>10. /\ Grows /\ Orderly' /\ KeptIsFinished' /\ GivenIsAgreed'
       /\ todo' \in [Procs -> Seq(Steps)] /\ got' \in [Procs -> [Getters -> Instances]]
  BY <1>1, <1>2, <1>8, <1>9, DoneKeeps
<1>11. \A u \in Procs : \A x : Has(todo[u], x) => Has(todo'[u], x) \/ (u = t /\ x = Head(todo[t]))
  BY <1>1, <1>2, <1>8, <1>9, DoneKeeps
<1>12. ApiType'
  BY <1>1, <1>3, <1>8, <1>10 DEF ApiType
<1>13. PartsAreAgreed'
  BY <1>8, <1>10, ApiParts, PartsStay
<1>14. SeededIsAgreed'
  <2>1. \A u \in Procs : Has(todo[u], <<"seed", "rag">>) => Has(todo'[u], <<"seed", "rag">>)
    BY <1>1, <1>2, <1>11
  <2>2. \A u \in Procs : made'.rag[u].market = made.rag[u].market
    BY <1>8, <1>9
  <2>3. \A u \in Procs : made'.rag[u] # None => made.rag[u] # None
    BY <1>5, <1>8
  <2>4. QED  BY <1>10, <2>1, <2>2, <2>3, ApiParts, SeededStay
<1>15. Agreed(old.market, "market")
  <2>1. todo[t] \in Seq(Steps) /\ InOrder(todo[t])
    BY <1>3 DEF ApiType, Orderly
  <2>2. ~Has(todo[t], <<"seed", "rag">>)
    BY <1>1, <2>1, HeadInOrder
  <2>3. QED  BY <1>5, <2>2, ApiParts DEF SeededIsAgreed
<1>16. Mirrored(made.rag[t])'
  <2>1. CASE sends /\ world.qdrant
    <3>1. mirror' = [i \in DOMAIN mirror \cup old.index |->
                       IF i \in old.index THEN made.market[old.market] ELSE mirror[i]]
      BY <1>1, <2>1 DEF Api!Put
    <3>2. \A i \in old.index : i \in DOMAIN mirror' /\ mirror'[i] = made.market[old.market]
      BY <3>1
    <3>3. QED  BY <1>8, <1>9, <3>2 DEF Mirrored
  <2>2. CASE sends /\ ~world.qdrant
    BY <1>7, <1>8, <2>2 DEF Mirrored
  <2>3. CASE ~sends
    BY <1>8, <2>3 DEF Mirrored
  <2>4. QED  BY <2>1, <2>2, <2>3, SMTT(30)
<1>17. MirroredIsThere'
  <2>1. \A u \in Procs : u # t /\ Has(todo[u], <<"mirror", "rag">>) => Has(todo'[u], <<"mirror", "rag">>)
    BY <1>11
  <2>2. \A u \in Procs : made'.rag[u] # None /\ ~Has(todo'[u], <<"mirror", "rag">>) =>
           \/ made.rag[u] = made'.rag[u] /\ ~Has(todo[u], <<"mirror", "rag">>)
           \/ Mirrored(made.rag[u])'
    BY <1>8, <1>16, <2>1
  <2>3. old.market = cache["market"] \/ "market" \in raced'
    BY <1>1, <1>15 DEF Agreed
  <2>4. \A i \in DOMAIN mirror :
          /\ i \in DOMAIN mirror'
          /\ \/ i \in rewritten' \/ "market" \in raced'
             \/ mirror'[i] = mirror[i] /\ i \notin rewritten
             \/ mirror'[i] = made.market[cache["market"]]
    <3>1. CASE sends /\ world.qdrant
      <4>1. /\ mirror' = [i \in DOMAIN mirror \cup old.index |->
                           IF i \in old.index THEN made.market[old.market] ELSE mirror[i]]
            /\ rewritten' = rewritten \ old.index
        BY <1>1, <3>1 DEF Api!Put
      <4>2. QED  BY <2>3, <4>1
    <3>2. CASE ~(sends /\ world.qdrant)
      <4>1. mirror' = mirror /\ rewritten' = rewritten
        BY <1>1, <3>2
      <4>2. QED  BY <4>1
    <3>3. QED  BY <3>1, <3>2
  <2>5. \A k \in Procs : Finished(k, "market") => made'.market[k] = made.market[k]
    BY <1>8
  <2>6. QED  BY <1>10, <2>2, <2>4, <2>5, ApiParts, MirroredStay
<1>18. RunsAreRecorded' /\ Api!TrainedModelStays'
  BY <1>1, <1>8, ApiParts, RunsStay DEF Api!TrainedModelStays
<1>19. QED  BY <1>10, <1>12, <1>13, <1>14, <1>17, <1>18 DEF ApiInv

\* The world changes around the process.
LEMMA WorldKeeps ==
  ASSUME ApiInv, UNCHANGED <<cache, made, todo, got, registry, runs, raced, loadable>>,
         world' \in [db : BOOLEAN, qdrant : BOOLEAN, model : Nat],
         \A i \in DOMAIN mirror :
           i \in DOMAIN mirror' /\ (i \in rewritten' \/ (mirror'[i] = mirror[i] /\ i \notin rewritten))
  PROVE  ApiInv'
<1>1. ApiType'
  BY ApiParts DEF ApiType
<1>2. Orderly'
  <2>1. \A u \in Procs : Known(u)' = Known(u)
    BY DEF Known
  <2>2. QED  BY <2>1, ApiParts DEF Orderly
<1>3. Grows
  BY DEF Grows
<1>4. KeptIsFinished' /\ GivenIsAgreed' /\ PartsAreAgreed'
  BY <1>3, ApiParts, KeptStay, GivenStay, PartsStay
<1>5. SeededIsAgreed'
  BY <1>3, ApiParts, SeededStay
<1>6. MirroredIsThere'
  BY <1>3, ApiParts, MirroredStay
<1>7. RunsAreRecorded' /\ Api!TrainedModelStays'
  BY ApiParts, RunsStay DEF Api!TrainedModelStays
<1>8. QED  BY <1>1, <1>2, <1>4, <1>5, <1>6, <1>7 DEF ApiInv

\* A process that starts has built nothing.
JustStarted ==
  /\ cache = Api!Unasked /\ made = Api!Unmade /\ todo = Api!ById(<<>>)
  /\ got = Api!ById(Api!Unasked) /\ runs = 0 /\ registry = loadable
  /\ world \in [db : BOOLEAN, qdrant : BOOLEAN, model : Nat]

LEMMA FreshIsSound == JustStarted => ApiInv
<1> SUFFICES ASSUME JustStarted PROVE ApiInv
  OBVIOUS
<1> USE DEF JustStarted
<1>1. /\ cache \in [Getters -> Instances] /\ \A g \in Getters : cache[g] = None
      /\ got \in [Procs -> [Getters -> Instances]]
      /\ \A t \in Procs, g \in Getters : got[t][g] = None
  BY DEF Api!Unasked, Api!ById, Api!Getters, Getters, Instances
<1>2. /\ made = [market |-> [t \in Procs |-> None], rag |-> [t \in Procs |-> None],
                 audit |-> [t \in Procs |-> {}], orchestrator |-> [t \in Procs |-> None]]
  BY DEF Api!Unmade, Api!ById
<1>3. todo \in [Procs -> Seq(Steps)] /\ \A t \in Procs : todo[t] = <<>>
  BY DEF Api!ById
<1>4. ApiType
  BY <1>1, <1>2, <1>3 DEF ApiType
<1>5. Orderly
  <2>1. InOrder(<<>>) /\ \A known : Supplied(<<>>, known)
    BY Len(<<>>) = 0 DEF InOrder, Supplied
  <2>2. QED  BY <1>3, <2>1 DEF Orderly
<1>6. KeptIsFinished /\ GivenIsAgreed
  BY <1>1 DEF KeptIsFinished, GivenIsAgreed
<1>7. PartsAreAgreed /\ SeededIsAgreed /\ MirroredIsThere
  BY <1>2 DEF PartsAreAgreed, SeededIsAgreed, MirroredIsThere
<1>8. RunsAreRecorded
  BY <1>1, <1>2 DEF RunsAreRecorded, TrailIsWhole, RunsAreListed, Getters
<1>9. Api!TrainedModelStays
  BY DEF Api!TrainedModelStays
<1>10. QED  BY <1>4, <1>5, <1>6, <1>7, <1>8, <1>9 DEF ApiInv

LEMMA ChangeKeeps ==
  ASSUME ApiInv, Api!Flip \/ Api!Train \/ Api!MirrorElsewhere \/ Api!Restart
  PROVE  ApiInv'
<1>1. world \in [db : BOOLEAN, qdrant : BOOLEAN, model : Nat]
  BY ApiParts DEF ApiType
<1>2. CASE Api!Flip
  <2>1. PICK s \in {"db", "qdrant"} : Api!Change([world EXCEPT ![s] = ~@]) /\ Api!Untouched
    BY <1>2 DEF Api!Flip
  <2>2. world' = [world EXCEPT ![s] = ~@] /\ mirror' = mirror /\ rewritten' = rewritten
        /\ UNCHANGED <<cache, made, todo, got, registry, runs, raced, loadable>>
    BY <2>1 DEF Api!Change, Api!Untouched
  <2>3. world' \in [db : BOOLEAN, qdrant : BOOLEAN, model : Nat]
    BY <1>1, <2>2
  <2>4. QED  BY <2>2, <2>3, WorldKeeps
<1>3. CASE Api!Train
  <2>1. world' = [world EXCEPT !.model = @ + 1] /\ mirror' = mirror /\ rewritten' = rewritten
        /\ UNCHANGED <<cache, made, todo, got, registry, runs, raced, loadable>>
    BY <1>3 DEF Api!Train, Api!Change, Api!Untouched
  <2>2. world' \in [db : BOOLEAN, qdrant : BOOLEAN, model : Nat]
    BY <1>1, <2>1
  <2>3. QED  BY <2>1, <2>2, WorldKeeps
<1>4. CASE Api!MirrorElsewhere
  <2>1. PICK source \in {"fixture", "db"} :
          /\ mirror' = Api!Put(mirror, Api!News(source), source)
          /\ rewritten' = rewritten \cup Api!News(source)
    BY <1>4 DEF Api!MirrorElsewhere
  <2>2. world' = world /\ UNCHANGED <<cache, made, todo, got, registry, runs, raced, loadable>>
    BY <1>4 DEF Api!MirrorElsewhere, Api!Change
  <2>3. \A i \in DOMAIN mirror :
          i \in DOMAIN mirror' /\ (i \in rewritten' \/ (mirror'[i] = mirror[i] /\ i \notin rewritten))
    BY <2>1 DEF Api!Put
  <2>4. QED  BY <1>1, <2>2, <2>3, WorldKeeps
<1>5. CASE Api!Restart
  <2>1. /\ cache' = Api!Unasked /\ made' = Api!Unmade /\ todo' = Api!ById(<<>>)
        /\ got' = Api!ById(Api!Unasked) /\ runs' = 0 /\ registry' = loadable' /\ world' = world
    BY <1>5 DEF Api!Restart, Api!Fresh
  <2>2. JustStarted'
    BY <1>1, <2>1 DEF JustStarted
  <2>3. JustStarted' => ApiInv'
    BY FreshIsSound, PTL
  <2>4. QED  BY <2>2, <2>3
<1>6. QED  BY <1>2, <1>3, <1>4, <1>5

LEMMA ApiStart == Api!ApiInit => ApiInv
<1> SUFFICES ASSUME Api!ApiInit PROVE ApiInv
  OBVIOUS
<1>1. world \in [db : BOOLEAN, qdrant : BOOLEAN, model : Nat]
  BY DEF Api!ApiInit
<1>2. /\ cache = Api!Unasked /\ made = Api!Unmade /\ todo = Api!ById(<<>>)
      /\ got = Api!ById(Api!Unasked) /\ runs = 0 /\ registry = loadable
  BY DEF Api!ApiInit
<1>3. QED  BY <1>1, <1>2, FreshIsSound DEF JustStarted

LEMMA ApiStep == ApiInv /\ Api!ApiNext => ApiInv'
<1> SUFFICES ASSUME ApiInv, Api!ApiNext PROVE ApiInv'
  OBVIOUS
<1>1. ASSUME NEW t \in Procs, Api!Ask(t) PROVE ApiInv'
  BY <1>1, AskKeeps
<1>2. ASSUME NEW t \in Procs, NEW g \in Getters, Api!Call(t, g) PROVE ApiInv'
  BY <1>2, HitKeeps, MissKeeps
<1>3. ASSUME NEW t \in Procs, NEW g \in Getters, Api!Keep(t, g) PROVE ApiInv'
  BY <1>3, KeepKeeps
<1>4. ASSUME NEW t \in Procs, NEW g \in Getters \ {"audit"}, Api!Make(t, g) PROVE ApiInv'
  <2>1. g = "market" \/ g = "rag" \/ g = "orchestrator"
    BY <1>4 DEF Getters
  <2>2. QED  BY <1>4, <2>1, MakeMarketKeeps, MakeRagKeeps, MakeOrchestratorKeeps
<1>5. ASSUME NEW t \in Procs, Api!Seed(t) \/ Api!MirrorNews(t) \/ Api!Predict(t) \/ Api!Run(t)
      PROVE  ApiInv'
  BY <1>5, SeedKeeps, MirrorKeeps, PredictKeeps, RunKeeps
<1>6. CASE Api!Flip \/ Api!Train \/ Api!MirrorElsewhere \/ Api!Restart
  BY <1>6, ChangeKeeps
<1>7. Api!Getters = Getters
  BY ApiParts
<1>8. QED  BY <1>1, <1>2, <1>3, <1>4, <1>5, <1>6, <1>7 DEF Api!ApiNext

LEMMA ApiStutters == ApiInv /\ UNCHANGED apiVars => ApiInv'
<1> SUFFICES ASSUME ApiInv, UNCHANGED apiVars PROVE ApiInv'
  OBVIOUS
<1>1. UNCHANGED <<cache, made, todo, got, registry, runs, raced, loadable, mirror, rewritten, world>>
  BY DEF apiVars
<1>2. world' \in [db : BOOLEAN, qdrant : BOOLEAN, model : Nat]
  BY <1>1, ApiParts DEF ApiType
<1>3. QED  BY <1>1, <1>2, WorldKeeps

LEMMA ApiAlways == Spec => []ApiInv
<1>1. Init => ApiInv
  BY ApiStart DEF Init
<1>2. ApiInv /\ [Next]_vars => ApiInv'
  BY ApiStep, ApiStutters DEF Next, Ingest, Serve, Monitor, vars
<1>3. QED  BY <1>1, <1>2, PTL DEF Spec

\* Whatever the order of the first requests, the changes of the servers and the restarts:
\* the routes and the agents use the same instance of a service unless first calls of that
\* service overlapped; GET /agents/runs answers every run of the process unless those of the
\* trail and those of the orchestrator did both; and a trained model loaded at startup is
\* not replaced by the stub (the lru_cache'd getters, ensure_default_model).
THEOREM OneServiceOfEach == Spec => []ServicesAreKept
<1>1. ApiInv => ServicesAreKept
  <2> SUFFICES ASSUME ApiInv PROVE Api!OneOfEach /\ Api!TrainedModelStays
    BY SMTT(30) DEF ServicesAreKept
  <2> DEFINE k == cache["orchestrator"]  o == made.orchestrator[k]
  <2>1. SUFFICES ASSUME k # None
        PROVE  /\ {"audit", "orchestrator"} \subseteq raced \/ made.audit[o.audit] = 1 .. runs
               /\ \A g \in {"market", "rag", "audit"} : g \in raced \/ o[g] = cache[g]
               /\ "market" \in raced \/ made.rag[o.rag].market = cache["market"]
    BY ApiParts DEF Api!OneOfEach, Api!OneServiceOfEachBut
  <2>2. k \in Procs /\ o # None
    BY <2>1, ApiParts DEF KeptIsFinished, Finished, Getters
  <2>3. \A g \in {"market", "rag", "audit"} : Agreed(o[g], g)
    BY <2>2, ApiParts DEF PartsAreAgreed
  <2>4. \A g \in {"market", "rag", "audit"} : g \in raced \/ o[g] = cache[g]
    BY <2>3, SMTT(30) DEF Agreed
  <2>5. {"audit", "orchestrator"} \subseteq raced \/ made.audit[o.audit] = 1 .. runs
    <3>1. CASE "audit" \notin raced
      BY <2>3, <2>4, <3>1, ApiParts, SMTT(30) DEF Agreed, Finished, RunsAreRecorded, TrailIsWhole
    <3>2. CASE "orchestrator" \notin raced
      BY <2>1, <3>2, ApiParts DEF RunsAreRecorded, RunsAreListed
    <3>3. QED  BY <3>1, <3>2
  <2>6. "market" \in raced \/ made.rag[o.rag].market = cache["market"]
    <3>1. o.rag \in Procs /\ made.rag[o.rag] # None /\ ~Has(todo[o.rag], <<"keep", "rag">>)
      BY <2>3 DEF Agreed, Finished
    <3>2. ~Has(todo[o.rag], <<"seed", "rag">>)
      BY <3>1, ApiParts, PendingRag DEF ApiType, Orderly
    <3>3. QED  BY <3>1, <3>2, ApiParts DEF SeededIsAgreed, Agreed
  <2>7. QED  BY <2>4, <2>5, <2>6
<1>2. QED  BY <1>1, ApiAlways, PTL

\* For any number of threads, news and changes: a kept evidence index that reports its
\* Qdrant mirror available has each of its items there, with the text of the source the
\* process serves, unless another process wrote the point or two sources were built
\* (get_rag_service, the mirror of RagService).
THEOREM TheMirrorIsComplete == Spec => []MirrorHoldsIndex
<1>1. ApiInv => MirrorHoldsIndex
  <2> SUFFICES ASSUME ApiInv PROVE Api!MirrorHoldsIndex
    BY DEF MirrorHoldsIndex
  <2> DEFINE k == cache["rag"]  rag == made.rag[k]
  <2>1. SUFFICES ASSUME k # None, rag.available, NEW i \in rag.index
        PROVE  /\ i \in DOMAIN mirror
               /\ mirror[i] = made.market[rag.market] \/ i \in rewritten \/ "market" \in raced
    BY DEF Api!MirrorHoldsIndex
  <2>2. k \in Procs /\ rag # None /\ ~Has(todo[k], <<"keep", "rag">>)
    BY <2>1, ApiParts DEF KeptIsFinished, Finished, Getters
  <2>3. ~Has(todo[k], <<"mirror", "rag">>)
    BY <2>2, ApiParts, PendingRag DEF ApiType, Orderly
  <2>4. QED  BY <2>1, <2>2, <2>3, ApiParts DEF MirroredIsThere, Mirrored
<1>2. QED  BY <1>1, ApiAlways, PTL

-----------------------------------------------------------------------------
(* The monitoring agent: what holds between two steps *)

IsSeq(f) == \E S : f \in Seq(S)
Recall(known, s) == Watching!Recall(known, s)
WatchSteps == {"idle", "price", "rank", "compare", "remember", "report"}

WatchTyped(r) ==
  LET w == watch[r]
  IN /\ w.step \in WatchSteps /\ w.agent \in {"shared", r} /\ w.list \in Seq(Watched)
     /\ IsSeq(w.found) /\ Len(w.found) <= Len(w.list)
     /\ w.step = "idle" => w.list = <<>> /\ w.agent = "shared"
     /\ w.step \in {"price", "rank", "compare", "remember"} => Len(w.found) < Len(w.list)
     /\ w.step = "report" => Len(w.found) = Len(w.list) /\ 0 < Len(w.list)

\* The symbol is met in the first n of the watch, and where it is met last.
Met(r, s, n) == \E i \in 1 .. n : watch[r].list[i] = s
LastMet(r, s, n) == Watching!Max({i \in 1 .. n : watch[r].list[i] = s})

\* No other watch of the shared agent disturbs this one.
Alone(r) == watch[r].agent = "shared" /\ r \notin crowded
MeetingsAreCrowded ==
  \A r, q \in Procs :
    r # q /\ watch[r].agent = "shared" /\ watch[q].agent = "shared" =>
      Watching!SymbolsOf(r) \cap Watching!SymbolsOf(q) = {} \/ (r \in crowded /\ q \in crowded)

\* The agent remembers what a watch found last, and else what was reported.
FoundIsRemembered(r) ==
  LET w == watch[r]
      n == Len(w.found)
  IN \A s \in Watched :
       /\ (Alone(r) \/ w.agent = r) /\ Met(r, s, n)
            => Recall(memory[w.agent], s) = w.found[LastMet(r, s, n)].signal
       /\ w.agent = r /\ ~Met(r, s, n) => Recall(memory[r], s) = None
ReportsAreRemembered ==
  \A s \in Watched :
    \/ s \in spoilt
    \/ \E r \in Procs : watch[r].agent = "shared" /\ Met(r, s, Len(watch[r].found))
    \/ Recall(memory["shared"], s) = reported[s]

\* The alerts about the i-th symbol tell its change.
Tells(r, i, alerts, signal) ==
  \/ watch[r].agent = "shared" /\ (watch[r].list[i] \in spoilt \/ r \in crowded)
  \/ {a \in alerts : a.type = "signal_changed"} = Watching!SignalAlerts(Watching!Before(r, i), signal)
ToldSoFar(r) ==
  LET w == watch[r]
  IN /\ \A i \in 1 .. Len(w.found) : Tells(r, i, w.found[i].alerts, w.found[i].signal)
     /\ w.step = "remember" => Tells(r, Len(w.found) + 1, w.alerts, w.signal)
     /\ w.step \in {"rank", "compare"} => \A a \in w.alerts : a.type # "signal_changed"

WatchInv ==
  /\ DOMAIN watch = Procs /\ DOMAIN memory = Procs \cup {"shared"} /\ DOMAIN reported = Watched
  /\ MeetingsAreCrowded /\ ReportsAreRemembered
  /\ \A r \in Procs : WatchTyped(r) /\ FoundIsRemembered(r) /\ ToldSoFar(r)

LEMMA LargestOf ==
  ASSUME NEW n \in Nat, NEW T, T \subseteq 1 .. n, T # {}
  PROVE  Watching!Max(T) \in T /\ \A y \in T : y <= Watching!Max(T)
<1> DEFINE U == {n - x : x \in T}  R == OpToRel(<, Nat)
<1>1. IsWellFoundedOn(R, Nat)
  BY NatLessThanWellFounded
<1>2. \A a, b \in Nat : a < b => <<a, b>> \in R
  BY DEF OpToRel
<1>3. U \subseteq Nat /\ U # {}
  <2>1. \A x \in T : n - x \in Nat
    OBVIOUS
  <2>2. QED  BY <2>1
<1> HIDE DEF R
<1>4. PICK u \in U : \A y \in U : ~(<<y, u>> \in R)
  <2> HIDE DEF U
  <2>1. \E x \in U : \A y \in U : ~(<<y, x>> \in R)
    BY <1>1, <1>3, WFMin
  <2>2. QED  BY <2>1
<1>5. PICK m \in T : u = n - m
  OBVIOUS
<1>6. \A y \in T : y <= m
  <2> SUFFICES ASSUME NEW y \in T, ~(y <= m) PROVE FALSE
    OBVIOUS
  <2>1. n - y \in U /\ n - y \in Nat /\ u \in Nat /\ n - y < u
    BY <1>5
  <2>2. QED  BY <1>2, <1>4, <2>1
<1>7. QED  BY <1>6 DEF Watching!Max

LEMMA LargestIs ==
  ASSUME NEW T, T \subseteq Int, NEW m \in T, \A y \in T : y <= m
  PROVE  Watching!Max(T) = m
<1>1. \A x \in T : (\A y \in T : x >= y) => x = m
  OBVIOUS
<1>2. \A y \in T : m >= y
  OBVIOUS
<1>3. QED  BY <1>1, <1>2 DEF Watching!Max

LEMMA Appended ==
  ASSUME NEW f, IsSeq(f), NEW e
  PROVE  /\ IsSeq(Append(f, e)) /\ Len(Append(f, e)) = Len(f) + 1 /\ Len(f) \in Nat
         /\ \A i \in 1 .. Len(f) : Append(f, e)[i] = f[i]
         /\ Append(f, e)[Len(f) + 1] = e
<1>1. PICK S : f \in Seq(S)
  BY DEF IsSeq
<1>2. f \in Seq(S \cup {e})
  <2>1. Len(f) \in Nat /\ f \in [1 .. Len(f) -> S]
    BY <1>1
  <2>2. f \in [1 .. Len(f) -> S \cup {e}]
    BY <2>1
  <2>3. QED  BY <2>1, <2>2, SeqDef
<1>3. QED  BY <1>2, AppendProperties DEF IsSeq

LEMMA Recalled ==
  /\ \A known, s, v, t : Recall(Watching!Remembered(known, s, v), t) = IF t = s THEN v ELSE Recall(known, t)
  /\ \A s : Recall(Watching!Nothing, s) = None
BY DEF Recall, Watching!Recall, Watching!Remembered, Watching!Nothing

Fields == {"step", "list", "given", "agent", "attempt", "signal", "alerts", "found"}

LEMMA Becoming ==
  ASSUME NEW r \in Procs, NEW to, Watching!Becomes(r, to), DOMAIN watch = Procs
  PROVE  /\ DOMAIN watch' = Procs
         /\ \A q \in Procs : q # r => watch'[q] = watch[q]
         /\ \A f \in Fields : watch'[r][f] = IF f \in DOMAIN to THEN to[f] ELSE watch[r][f]
<1>1. DOMAIN Watching!AtRest = Fields
  BY DEF Watching!AtRest, Fields
<1>2. watch' = [watch EXCEPT ![r] = [f \in Fields |-> IF f \in DOMAIN to THEN to[f] ELSE watch[r][f]]]
  BY <1>1 DEF Watching!Becomes
<1>3. QED  BY <1>2

LEMMA LastMetFacts ==
  ASSUME NEW r \in Procs, NEW s, NEW n \in Nat, Met(r, s, n)
  PROVE  /\ LastMet(r, s, n) \in 1 .. n /\ watch[r].list[LastMet(r, s, n)] = s
         /\ \A i \in 1 .. n : watch[r].list[i] = s => i <= LastMet(r, s, n)
<1> DEFINE T == {i \in 1 .. n : watch[r].list[i] = s}
<1>1. T \subseteq 1 .. n /\ T # {}
  BY DEF Met
<1>2. LastMet(r, s, n) \in T /\ \A y \in T : y <= LastMet(r, s, n)
  BY <1>1, LargestOf DEF LastMet
<1>3. QED  BY <1>2

\* One more symbol of the list is met.
LEMMA MetNext ==
  ASSUME NEW r \in Procs, NEW n \in Nat, NEW s
  PROVE  /\ Met(r, s, n + 1) <=> Met(r, s, n) \/ watch[r].list[n + 1] = s
         /\ watch[r].list[n + 1] = s => LastMet(r, s, n + 1) = n + 1
         /\ watch[r].list[n + 1] # s => LastMet(r, s, n + 1) = LastMet(r, s, n)
<1>1. 1 .. n + 1 = (1 .. n) \cup {n + 1}
  OBVIOUS
<1>2. Met(r, s, n + 1) <=> Met(r, s, n) \/ watch[r].list[n + 1] = s
  BY <1>1 DEF Met
<1>3. ASSUME watch[r].list[n + 1] = s PROVE LastMet(r, s, n + 1) = n + 1
  <2> DEFINE T == {i \in 1 .. n + 1 : watch[r].list[i] = s}
  <2>1. T \subseteq Int /\ n + 1 \in T /\ \A y \in T : y <= n + 1
    BY <1>3
  <2>2. QED  BY <2>1, LargestIs DEF LastMet
<1>4. ASSUME watch[r].list[n + 1] # s PROVE LastMet(r, s, n + 1) = LastMet(r, s, n)
  <2>1. {i \in 1 .. n + 1 : watch[r].list[i] = s} = {i \in 1 .. n : watch[r].list[i] = s}
    BY <1>1, <1>4
  <2>2. QED  BY <2>1 DEF LastMet
<1>5. QED  BY <1>2, <1>3, <1>4

\* What the signal of the i-th symbol was before.
BeforeAre ==
  \A r \in Procs, i \in Nat \ {0} :
    Watching!Before(r, i) =
      LET s == watch[r].list[i]
      IN IF Recall(watch[r].given, s) # None THEN watch[r].given[s]
         ELSE IF Met(r, s, i - 1) THEN watch[r].found[LastMet(r, s, i - 1)].signal
         ELSE IF watch[r].agent = "shared" THEN reported[s] ELSE None

LEMMA BeforeIs == BeforeAre
BY DEF BeforeAre, Watching!Before, Met, LastMet, Recall

SignalsOf(alerts) == {a \in alerts : a.type = "signal_changed"}

LEMMA OtherAlerts ==
  /\ \A board : SignalsOf(Watching!TechnicalAlerts(board) \cup Watching!RiskAlerts(board)) = {}
  /\ \A board : SignalsOf(Watching!NewsAlerts(board) \cup Watching!QualityAlerts(board)) = {}
<1>1. \A c, t, v : t # "signal_changed" => SignalsOf(Watching!When(c, Watching!Plain(t, v))) = {}
  BY DEF SignalsOf, Watching!When, Watching!Plain, Watching!Alert
<1>2. \A a, b : SignalsOf(a) = {} /\ SignalsOf(b) = {} => SignalsOf(a \cup b) = {}
  BY DEF SignalsOf
<1>3. \A board : SignalsOf(Watching!TechnicalAlerts(board)) = {}
  <2> SUFFICES ASSUME NEW board, NEW a \in Watching!TechnicalAlerts(board)
               PROVE  a.type # "signal_changed"
    BY DEF SignalsOf
  <2>1. \/ a = Watching!Plain("technical_breakout", "normal")
        \/ a = Watching!Plain("technical_breakout", "warning")
        \/ a = Watching!Plain("volume_spike", "normal")
    BY DEF Watching!TechnicalAlerts, Watching!When
  <2>2. QED  BY <2>1 DEF Watching!Plain, Watching!Alert
<1>4. \A board : SignalsOf(Watching!RiskAlerts(board)) = {}
  BY <1>1 DEF Watching!RiskAlerts
<1>5. \A board : SignalsOf(Watching!NewsAlerts(board)) = {}
  BY <1>1 DEF Watching!NewsAlerts
<1>6. \A board : SignalsOf(Watching!QualityAlerts(board)) = {}
  BY <1>1 DEF Watching!QualityAlerts
<1>7. QED  BY <1>2, <1>3, <1>4, <1>5, <1>6

LEMMA SignalAlert ==
  \A previous, signal : SignalsOf(Watching!SignalAlerts(previous, signal)) = Watching!SignalAlerts(previous, signal)
BY DEF SignalsOf, Watching!SignalAlerts, Watching!When, Watching!Alert

\* A step of another request leaves q's symbols to it, when it is alone.
Quiet(q) ==
  /\ watch'[q] = watch[q]
  /\ q \in crowded => q \in crowded'
  /\ watch[q].agent = "shared" =>
       \/ q \in crowded'
       \/ \A s \in Watching!SymbolsOf(q) :
            /\ Recall(memory'["shared"], s) = Recall(memory["shared"], s)
            /\ reported'[s] = reported[s] /\ (s \in spoilt => s \in spoilt')
  /\ watch[q].agent = q => memory'[q] = memory[q]

LEMMA ListedSymbols ==
  ASSUME NEW q \in Procs, WatchTyped(q)
  PROVE  /\ Len(watch[q].list) \in Nat /\ Len(watch[q].found) \in Nat
         /\ \A i \in 1 .. Len(watch[q].list) : watch[q].list[i] \in Watching!SymbolsOf(q) /\ watch[q].list[i] \in Watched
         /\ \A n \in Nat : \A s : n <= Len(watch[q].list) /\ Met(q, s, n) => s \in Watching!SymbolsOf(q)
         /\ \A s \in Watching!SymbolsOf(q) : Met(q, s, Len(watch[q].list)) /\ s \in Watched
<1>1. watch[q].list \in Seq(Watched) /\ DOMAIN watch[q].list = 1 .. Len(watch[q].list)
      /\ Len(watch[q].list) \in Nat
  BY DEF WatchTyped
<1>2. PICK S : watch[q].found \in Seq(S)
  BY DEF WatchTyped, IsSeq
<1>3. Len(watch[q].found) \in Nat
  BY <1>2
<1>4. \A i \in 1 .. Len(watch[q].list) : watch[q].list[i] \in Watching!SymbolsOf(q) /\ watch[q].list[i] \in Watched
  BY <1>1 DEF Watching!SymbolsOf
<1>5. \A n \in Nat : \A s : n <= Len(watch[q].list) /\ Met(q, s, n) => s \in Watching!SymbolsOf(q)
  BY <1>1, <1>4 DEF Met
<1>6. \A s \in Watching!SymbolsOf(q) : Met(q, s, Len(watch[q].list)) /\ s \in Watched
  BY <1>1 DEF Met, Watching!SymbolsOf
<1>7. QED  BY <1>1, <1>3, <1>4, <1>5, <1>6

WatchOk(r) == WatchTyped(r) /\ FoundIsRemembered(r) /\ ToldSoFar(r)

LEMMA QuietKeeps ==
  ASSUME NEW q \in Procs, WatchOk(q), Quiet(q)
  PROVE  WatchOk(q)'
<1> DEFINE w == watch[q]  n == Len(w.found)
<1>1. watch'[q] = watch[q] /\ WatchTyped(q) /\ n \in Nat /\ n <= Len(w.list) /\ w.agent \in {"shared", q}
  BY ListedSymbols DEF WatchOk, Quiet, WatchTyped
<1>2. WatchTyped(q)'
  BY <1>1 DEF WatchTyped
<1>3. /\ \A s, k : Met(q, s, k)' = Met(q, s, k) /\ LastMet(q, s, k)' = LastMet(q, s, k)
      /\ Alone(q)' => Alone(q)
  BY <1>1 DEF Met, LastMet, Alone, Quiet
<1>4. \A s : Met(q, s, n) => s \in Watching!SymbolsOf(q)
  BY <1>1, ListedSymbols
<1>5. "shared" # q
  BY WatchesAreOfSymbols
<1>6. FoundIsRemembered(q)'
  <2> SUFFICES ASSUME NEW s \in Watched
      PROVE  /\ (Alone(q)' \/ w.agent = q) /\ Met(q, s, n)
                  => Recall(memory'[w.agent], s) = w.found[LastMet(q, s, n)].signal
             /\ w.agent = q /\ ~Met(q, s, n) => Recall(memory'[q], s) = None
    BY <1>1, <1>3 DEF FoundIsRemembered
  <2>1. /\ (Alone(q) \/ w.agent = q) /\ Met(q, s, n)
             => Recall(memory[w.agent], s) = w.found[LastMet(q, s, n)].signal
        /\ w.agent = q /\ ~Met(q, s, n) => Recall(memory[q], s) = None
    BY DEF WatchOk, FoundIsRemembered
  <2>2. w.agent = q => memory'[q] = memory[q]
    BY DEF Quiet
  <2>3. Alone(q)' /\ Met(q, s, n) => Recall(memory'["shared"], s) = Recall(memory["shared"], s)
    BY <1>1, <1>4 DEF Quiet, Alone
  <2>4. QED  BY <1>3, <1>5, <2>1, <2>2, <2>3 DEF Alone
<1>7. ASSUME NEW i \in 1 .. Len(w.list), NEW alerts, NEW signal, Tells(q, i, alerts, signal)
      PROVE  Tells(q, i, alerts, signal)'
  <2>1. w.list[i] \in Watching!SymbolsOf(q)
    BY <1>1, <1>7, ListedSymbols
  <2>2. CASE w.agent = "shared" /\ q \in crowded'
    BY <1>1, <2>2 DEF Tells
  <2>3. CASE w.agent = "shared" /\ q \notin crowded'
    <3>1. reported'[w.list[i]] = reported[w.list[i]] /\ (w.list[i] \in spoilt => w.list[i] \in spoilt')
      BY <2>1, <2>3 DEF Quiet
    <3>2. Watching!Before(q, i)' = Watching!Before(q, i)
      BY <1>1, <3>1 DEF Watching!Before
    <3>3. q \in crowded => q \in crowded'
      BY DEF Quiet
    <3>4. QED  BY <1>1, <1>7, <3>1, <3>2, <3>3 DEF Tells
  <2>4. CASE w.agent # "shared"
    <3>1. Watching!Before(q, i)' = Watching!Before(q, i)
      BY <1>1, <2>4 DEF Watching!Before
    <3>2. QED  BY <1>1, <1>7, <2>4, <3>1 DEF Tells
  <2>5. QED  BY <2>2, <2>3, <2>4
<1>8. ToldSoFar(q)'
  <2>1. \A i \in 1 .. n : i \in 1 .. Len(w.list)
    BY <1>1, ListedSymbols
  <2>2. w.step = "remember" => n + 1 \in 1 .. Len(w.list)
    BY <1>1, ListedSymbols DEF WatchTyped
  <2>3. \A i \in 1 .. n : Tells(q, i, w.found[i].alerts, w.found[i].signal)
    BY DEF WatchOk, ToldSoFar
  <2>4. w.step = "remember" => Tells(q, n + 1, w.alerts, w.signal)
    BY DEF WatchOk, ToldSoFar
  <2>5. w.step \in {"rank", "compare"} => \A a \in w.alerts : a.type # "signal_changed"
    BY DEF WatchOk, ToldSoFar
  <2>6. \A i \in 1 .. Len(w.list) : \A a, v : Tells(q, i, a, v) => Tells(q, i, a, v)'
    BY <1>7
  <2>7. \A i \in 1 .. n : Tells(q, i, w.found[i].alerts, w.found[i].signal)'
    <3> SUFFICES ASSUME NEW i \in 1 .. n PROVE Tells(q, i, w.found[i].alerts, w.found[i].signal)'
      OBVIOUS
    <3>1. PICK a, v : a = w.found[i].alerts /\ v = w.found[i].signal
      OBVIOUS
    <3>2. Tells(q, i, a, v)'
      BY <2>1, <2>3, <2>6, <3>1
    <3>3. QED  BY <1>1, <3>1, <3>2 DEF Tells
  <2>8. w.step = "remember" => Tells(q, n + 1, w.alerts, w.signal)'
    <3>1. PICK a, v, k : a = w.alerts /\ v = w.signal /\ k = n + 1
      OBVIOUS
    <3>2. w.step = "remember" => Tells(q, k, a, v)'
      BY <2>2, <2>4, <2>6, <3>1
    <3>3. QED  BY <1>1, <3>1, <3>2, ZenonT(40) DEF Tells, Watching!Before
  <2>9. QED  BY <1>1, <2>5, <2>7, <2>8 DEF ToldSoFar
<1>9. QED  BY <1>2, <1>6, <1>8 DEF WatchOk

LEMMA MeetingsStay ==
  ASSUME MeetingsAreCrowded,
         \A q \in Procs :
           \/ Watching!SymbolsOf(q)' = {}
           \/ /\ Watching!SymbolsOf(q)' \subseteq Watching!SymbolsOf(q)
              /\ watch'[q].agent = watch[q].agent
              /\ q \in crowded => q \in crowded'
  PROVE  MeetingsAreCrowded'
BY DEF MeetingsAreCrowded

LEMMA ReportsStay ==
  ASSUME ReportsAreRemembered, UNCHANGED <<memory, reported, spoilt>>,
         \A q \in Procs : /\ watch'[q].agent = watch[q].agent /\ watch'[q].list = watch[q].list
                          /\ watch'[q].found = watch[q].found
  PROVE  ReportsAreRemembered'
<1>1. \A q \in Procs : \A s, n : Met(q, s, n)' = Met(q, s, n)
  BY DEF Met
<1>2. \A q \in Procs : \A s : Met(q, s, Len(watch[q].found))' <=> Met(q, s, Len(watch[q].found))
  BY DEF Met
<1>3. QED  BY <1>2 DEF ReportsAreRemembered

LEMMA WatchParts ==
  ASSUME WatchInv
  PROVE  /\ DOMAIN watch = Procs /\ DOMAIN memory = Procs \cup {"shared"} /\ DOMAIN reported = Watched
         /\ MeetingsAreCrowded /\ ReportsAreRemembered /\ "shared" \notin Procs
         /\ \A r \in Procs : WatchOk(r)
BY WatchesAreOfSymbols DEF WatchInv, WatchOk

\* The conclusion, request by request.
LEMMA WatchesStay ==
  ASSUME WatchInv, DOMAIN watch' = Procs, DOMAIN memory' = Procs \cup {"shared"},
         DOMAIN reported' = Watched, MeetingsAreCrowded', ReportsAreRemembered',
         \A q \in Procs : Quiet(q) \/ WatchOk(q)'
  PROVE  WatchInv'
<1>1. \A q \in Procs : WatchOk(q)'
  BY WatchParts, QuietKeeps
<1>2. QED  BY <1>1 DEF WatchInv, WatchOk

\* The request looks up, ranks or compares: it stays at the same symbol.
LEMMA StaysAtSymbol ==
  ASSUME WatchInv, NEW r \in Procs, DOMAIN watch' = Procs,
         UNCHANGED <<memory, reported, spoilt, crowded>>,
         \A q \in Procs : q # r => watch'[q] = watch[q],
         \A f \in {"list", "given", "agent", "found"} : watch'[r][f] = watch[r][f],
         watch[r].step \in {"price", "rank", "compare"},
         watch'[r].step \in {"rank", "compare", "remember"},
         watch'[r].step = "remember" =>
           Tells(r, Len(watch[r].found) + 1, watch'[r].alerts, watch'[r].signal),
         watch'[r].step \in {"rank", "compare"} => \A a \in watch'[r].alerts : a.type # "signal_changed"
  PROVE  WatchInv'
<1> DEFINE w == watch[r]
<1>1. /\ watch'[r].list = w.list /\ watch'[r].given = w.given /\ watch'[r].agent = w.agent
      /\ watch'[r].found = w.found
  OBVIOUS
<1>2. WatchOk(r)
  BY WatchParts
<1>3. WatchTyped(r)'
  BY <1>1, <1>2 DEF WatchOk, WatchTyped, WatchSteps
<1>4. \A s, k : Met(r, s, k)' = Met(r, s, k) /\ LastMet(r, s, k)' = LastMet(r, s, k)
  BY <1>1 DEF Met, LastMet
<1>5. FoundIsRemembered(r)'
  <2>1. Alone(r)' = Alone(r) /\ memory'[watch'[r].agent] = memory[w.agent] /\ memory'[r] = memory[r]
    BY <1>1 DEF Alone
  <2>2. \A s : /\ Met(r, s, Len(watch[r].found))' <=> Met(r, s, Len(w.found))
              /\ LastMet(r, s, Len(watch[r].found))' = LastMet(r, s, Len(w.found))
    BY <1>1 DEF Met, LastMet
  <2>3. \A s \in Watched :
          /\ (Alone(r) \/ w.agent = r) /\ Met(r, s, Len(w.found))
               => Recall(memory[w.agent], s) = w.found[LastMet(r, s, Len(w.found))].signal
          /\ w.agent = r /\ ~Met(r, s, Len(w.found)) => Recall(memory[r], s) = None
    BY <1>2 DEF WatchOk, FoundIsRemembered
  <2>4. QED  BY <1>1, <2>1, <2>2, <2>3 DEF FoundIsRemembered
<1>6. \A i : Watching!Before(r, i)' = Watching!Before(r, i)
  BY <1>1 DEF Watching!Before
<1>7. ToldSoFar(r)'
  <2>1. \A i \in 1 .. Len(w.found) : Tells(r, i, w.found[i].alerts, w.found[i].signal)'
    BY <1>1, <1>2, <1>6 DEF WatchOk, ToldSoFar, Tells
  <2>2. watch'[r].step = "remember" =>
          Tells(r, Len(watch[r].found) + 1, watch[r].alerts, watch[r].signal)'
    <3>1. PICK k, a, v : k = Len(w.found) + 1 /\ a = watch'[r].alerts /\ v = watch'[r].signal
      OBVIOUS
    <3>2. Watching!Before(r, k)' = Watching!Before(r, k)
      BY <1>6
    <3>3. Tells(r, k, a, v)' <=> Tells(r, k, a, v)
      BY <1>1, <3>2 DEF Tells
    <3>4. /\ Len(watch'[r].found) + 1 = k
          /\ watch'[r].step = "remember" => Tells(r, k, a, v)
      BY <1>1, <3>1
    <3>5. QED  BY <3>1, <3>3, <3>4 DEF Tells
  <2>3. QED  BY <1>1, <2>1, <2>2 DEF ToldSoFar
<1>8. \A q \in Procs : q # r => Quiet(q)
  BY DEF Quiet
<1>9. MeetingsAreCrowded'
  <2>1. \A q \in Procs : Watching!SymbolsOf(q)' = Watching!SymbolsOf(q) /\ watch'[q].agent = watch[q].agent
    BY <1>1 DEF Watching!SymbolsOf
  <2>2. QED  BY <2>1, WatchParts, MeetingsStay
<1>10. ReportsAreRemembered'
  BY <1>1, WatchParts, ReportsStay
<1>11. QED  BY <1>2, <1>3, <1>5, <1>7, <1>8, <1>9, <1>10, WatchParts, WatchesStay DEF WatchOk

LEMMA LookUpKeeps ==
  ASSUME WatchInv, NEW r \in Procs, Watching!LookUp(r) PROVE WatchInv'
<1> DEFINE a == Watching!TechnicalAlerts(market[Watching!Current(r)])
                  \cup Watching!RiskAlerts(market[Watching!Current(r)])
           to == [step |-> "rank", alerts |-> a]
<1>1. /\ watch[r].step = "price" /\ Watching!Becomes(r, to)
      /\ UNCHANGED <<memory, reported, spoilt, crowded>>
  BY DEF Watching!LookUp
<1>2. SignalsOf(a) = {}
  BY OtherAlerts
<1> HIDE DEF a
<1>3. DOMAIN to = {"step", "alerts"} /\ to["step"] = "rank" /\ to["alerts"] = a
  OBVIOUS
<1> HIDE DEF to
<1>4. /\ DOMAIN watch' = Procs /\ \A q \in Procs : q # r => watch'[q] = watch[q]
      /\ \A f \in {"list", "given", "agent", "found"} : watch'[r][f] = watch[r][f]
      /\ watch'[r].step = "rank" /\ watch'[r].alerts = a
  BY <1>1, <1>3, WatchParts, Becoming DEF Fields
<1>5. QED  BY <1>1, <1>2, <1>4, StaysAtSymbol DEF SignalsOf

LEMMA RankKeeps ==
  ASSUME WatchInv, NEW r \in Procs, Watching!Rank(r) PROVE WatchInv'
<1> DEFINE board == market[Watching!Current(r)]
           a == Watching!NewsAlerts(board) \cup Watching!QualityAlerts(board)
           v == IF board.signal = None THEN "NEUTRAL" ELSE board.signal
           to == [step |-> "compare", signal |-> v,
                  alerts |-> watch[r].alerts \cup Watching!NewsAlerts(board)
                               \cup Watching!QualityAlerts(board)]
<1>1. /\ watch[r].step = "rank" /\ Watching!Becomes(r, to)
      /\ UNCHANGED <<memory, reported, spoilt, crowded>>
  BY DEF Watching!Rank
<1>2. SignalsOf(a) = {}
  BY OtherAlerts
<1>3. \A x \in watch[r].alerts : x.type # "signal_changed"
  BY <1>1, WatchParts DEF WatchOk, ToldSoFar
<1>4. DOMAIN to = {"step", "alerts", "signal"} /\ to["step"] = "compare"
      /\ to["alerts"] = watch[r].alerts \cup a
  OBVIOUS
<1> HIDE DEF to, a
<1>5. /\ DOMAIN watch' = Procs /\ \A q \in Procs : q # r => watch'[q] = watch[q]
      /\ \A f \in {"list", "given", "agent", "found"} : watch'[r][f] = watch[r][f]
      /\ watch'[r].step = "compare" /\ watch'[r].alerts = watch[r].alerts \cup a
  BY <1>1, <1>4, WatchParts, Becoming DEF Fields
<1>6. \A x \in watch'[r].alerts : x.type # "signal_changed"
  BY <1>2, <1>3, <1>5 DEF SignalsOf
<1>7. QED  BY <1>1, <1>5, <1>6, StaysAtSymbol

LEMMA CompareKeeps ==
  ASSUME WatchInv, NEW r \in Procs, Watching!Compare(r) PROVE WatchInv'
<1> DEFINE w == watch[r]  n == Len(w.found)  s == w.list[n + 1]
           previous == Watching!Previous(w.given, memory[w.agent], s)
           a == Watching!SignalAlerts(previous, w.signal)
           to == [step |-> "remember", alerts |-> w.alerts \cup a]
<1>1. /\ w.step = "compare" /\ Watching!Becomes(r, to)
      /\ UNCHANGED <<memory, reported, spoilt, crowded>>
  BY DEF Watching!Compare, Watching!Current, Watching!Position
<1>2. DOMAIN to = {"step", "alerts"} /\ to["step"] = "remember" /\ to["alerts"] = w.alerts \cup a
  OBVIOUS
<1> HIDE DEF to, previous
<1>3. /\ DOMAIN watch' = Procs /\ \A q \in Procs : q # r => watch'[q] = watch[q]
      /\ \A f \in {"list", "given", "agent", "found"} : watch'[r][f] = watch[r][f]
      /\ watch'[r].step = "remember" /\ watch'[r].alerts = w.alerts \cup a
      /\ watch'[r].signal = w.signal
  BY <1>1, <1>2, WatchParts, Becoming DEF Fields
<1>4. WatchOk(r) /\ "shared" \notin Procs
  BY WatchParts
<1>5. SignalsOf(w.alerts \cup a) = a
  <2>1. SignalsOf(a) = a
    BY SignalAlert
  <2>2. \A x \in w.alerts : x.type # "signal_changed"
    BY <1>1, <1>4 DEF WatchOk, ToldSoFar
  <2> HIDE DEF a
  <2>3. QED  BY <2>1, <2>2 DEF SignalsOf
<1>6. /\ n \in Nat /\ n + 1 \in Nat \ {0} /\ n < Len(w.list) /\ w.agent \in {"shared", r}
      /\ n + 1 \in 1 .. Len(w.list) /\ (n + 1) - 1 = n /\ s \in Watched
      /\ s \in Watching!SymbolsOf(r)
  <2>1. n \in Nat /\ Len(w.list) \in Nat /\ n < Len(w.list) /\ w.agent \in {"shared", r}
    BY <1>1, <1>4, ListedSymbols DEF WatchOk, WatchTyped
  <2>2. n + 1 \in 1 .. Len(w.list) /\ (n + 1) - 1 = n /\ n + 1 \in Nat \ {0}
    BY <2>1
  <2>3. QED  BY <1>4, <2>1, <2>2, ListedSymbols DEF WatchOk
<1>7. Watching!Before(r, n + 1) =
        IF Recall(w.given, s) # None THEN w.given[s]
        ELSE IF Met(r, s, n) THEN w.found[LastMet(r, s, n)].signal
        ELSE IF w.agent = "shared" THEN reported[s] ELSE None
  BY <1>6, BeforeIs DEF BeforeAre
<1>8. previous = IF Recall(w.given, s) # None THEN Recall(w.given, s) ELSE Recall(memory[w.agent], s)
  BY DEF previous, Watching!Previous, Recall
<1>9. Recall(w.given, s) # None => Recall(w.given, s) = w.given[s]
  BY DEF Recall, Watching!Recall
<1>10. CASE w.agent = "shared" /\ (s \in spoilt \/ r \in crowded)
  <2>1. Tells(r, n + 1, watch'[r].alerts, watch'[r].signal)
    BY <1>10 DEF Tells
  <2>2. QED  BY <1>1, <1>3, <2>1, StaysAtSymbol
<1>11. CASE ~(w.agent = "shared" /\ (s \in spoilt \/ r \in crowded))
  <2>1. Recall(memory[w.agent], s) =
          IF Met(r, s, n) THEN w.found[LastMet(r, s, n)].signal
          ELSE IF w.agent = "shared" THEN reported[s] ELSE None
    <3>1. Alone(r) \/ w.agent = r
      BY <1>6, <1>11 DEF Alone
    <3>2. CASE Met(r, s, n)
      BY <1>4, <1>6, <3>1, <3>2 DEF WatchOk, FoundIsRemembered
    <3>3. CASE ~Met(r, s, n) /\ w.agent = r
      BY <1>4, <1>6, <3>3 DEF WatchOk, FoundIsRemembered
    <3>4. CASE ~Met(r, s, n) /\ w.agent = "shared"
      <4>1. ASSUME NEW q \in Procs, watch[q].agent = "shared", Met(q, s, Len(watch[q].found))
            PROVE  FALSE
        <5>1. q # r
          BY <3>4, <4>1
        <5>2. s \in Watching!SymbolsOf(q)
          BY <4>1, WatchParts, ListedSymbols DEF WatchOk, WatchTyped
        <5>3. r \in crowded
          BY <1>6, <3>4, <4>1, <5>1, <5>2, WatchParts DEF MeetingsAreCrowded
        <5>4. QED  BY <1>11, <3>4, <5>3
      <4>2. Recall(memory["shared"], s) = reported[s]
        BY <1>6, <1>11, <3>4, <4>1, WatchParts, SMTT(30) DEF ReportsAreRemembered
      <4>3. QED  BY <1>4, <3>4, <4>2
    <3>5. QED  BY <1>6, <3>2, <3>3, <3>4
  <2>2. previous = Watching!Before(r, n + 1)
    BY <1>7, <1>8, <1>9, <2>1
  <2>3. Tells(r, n + 1, watch'[r].alerts, watch'[r].signal)
    BY <1>3, <1>5, <2>2 DEF Tells, SignalsOf
  <2>4. QED  BY <1>1, <1>3, <2>3, StaysAtSymbol
<1>12. QED  BY <1>10, <1>11

LEMMA RememberKeeps ==
  ASSUME WatchInv, NEW r \in Procs, Watching!Remember(r) PROVE WatchInv'
<1> DEFINE w == watch[r]  n == Len(w.found)  s0 == w.list[n + 1]
           note == [signal |-> w.signal, alerts |-> w.alerts]
           next == IF n + 1 = Len(w.list) THEN "report" ELSE "price"
           to == [step |-> next, found |-> Append(w.found, note)]
<1>1. /\ w.step = "remember" /\ Watching!Becomes(r, to)
      /\ memory' = [memory EXCEPT ![w.agent] = Watching!Remembered(@, s0, w.signal)]
      /\ UNCHANGED <<reported, spoilt, crowded>>
  BY DEF Watching!Remember, Watching!Current, Watching!Position
<1>2. DOMAIN to = {"step", "found"} /\ to["step"] = next /\ to["found"] = Append(w.found, note)
      /\ note.signal = w.signal /\ note.alerts = w.alerts
  OBVIOUS
<1> HIDE DEF to, note
<1>3. /\ DOMAIN watch' = Procs /\ \A q \in Procs : q # r => watch'[q] = watch[q]
      /\ \A f \in {"list", "given", "agent", "signal", "alerts"} : watch'[r][f] = w[f]
      /\ watch'[r].step = next /\ watch'[r].found = Append(w.found, note)
  BY <1>1, <1>2, WatchParts, Becoming DEF Fields
<1>4. WatchOk(r) /\ "shared" \notin Procs /\ DOMAIN memory = Procs \cup {"shared"}
  BY WatchParts
<1>5. /\ n \in Nat /\ n + 1 \in Nat \ {0} /\ n < Len(w.list) /\ w.agent \in {"shared", r}
      /\ Len(w.list) \in Nat
      /\ n + 1 \in 1 .. Len(w.list) /\ s0 \in Watched /\ s0 \in Watching!SymbolsOf(r)
  <2>1. n \in Nat /\ Len(w.list) \in Nat /\ n < Len(w.list) /\ w.agent \in {"shared", r}
    BY <1>1, <1>4, ListedSymbols DEF WatchOk, WatchTyped
  <2>2. n + 1 \in 1 .. Len(w.list) /\ n + 1 \in Nat \ {0}
    BY <2>1, SMTT(30)
  <2>3. QED  BY <1>4, <2>1, <2>2, ListedSymbols DEF WatchOk
<1>6. /\ IsSeq(watch'[r].found) /\ Len(watch'[r].found) = n + 1
      /\ \A i \in 1 .. n : watch'[r].found[i] = w.found[i]
      /\ watch'[r].found[n + 1] = note
  <2>1. IsSeq(w.found)
    BY <1>4 DEF WatchOk, WatchTyped
  <2>2. QED  BY <1>3, <2>1, Appended
<1>7. /\ DOMAIN memory' = Procs \cup {"shared"}
      /\ \A s : Recall(memory'[w.agent], s) = IF s = s0 THEN w.signal ELSE Recall(memory[w.agent], s)
      /\ \A x \in Procs \cup {"shared"} : x # w.agent => memory'[x] = memory[x]
  <2>1. w.agent \in DOMAIN memory
    BY <1>4, <1>5
  <2>2. memory'[w.agent] = Watching!Remembered(memory[w.agent], s0, w.signal)
    BY <1>1, <2>1
  <2>3. QED  BY <1>1, <1>4, <2>2, Recalled
<1> HIDE DEF s0, n
<1>8. /\ watch'[r].list = w.list /\ watch'[r].given = w.given /\ watch'[r].agent = w.agent
      /\ watch'[r].alerts = w.alerts /\ watch'[r].signal = w.signal
  BY <1>3
<1>9. WatchTyped(r)'
  <2>1. next \in {"report", "price"} /\ (next = "report" => n + 1 = Len(w.list))
        /\ (next = "price" => n + 1 < Len(w.list)) /\ n + 1 <= Len(w.list)
    BY <1>5 DEF n
  <2>2. w.list \in Seq(Watched) /\ w.agent \in {"shared", r}
    BY <1>4 DEF WatchOk, WatchTyped
  <2> HIDE DEF next
  <2>3. QED  BY <1>3, <1>6, <1>8, <2>1, <2>2 DEF WatchTyped, WatchSteps
<1>10. \A s, k : Met(r, s, k)' = Met(r, s, k) /\ LastMet(r, s, k)' = LastMet(r, s, k)
  BY <1>8 DEF Met, LastMet
<1>11. \A s : /\ Met(r, s, n + 1) <=> Met(r, s, n) \/ s0 = s
              /\ s0 = s => LastMet(r, s, n + 1) = n + 1
              /\ s0 # s => LastMet(r, s, n + 1) = LastMet(r, s, n)
  BY <1>5, MetNext DEF s0, n
<1>12. \A s : Met(r, s, n) => LastMet(r, s, n) \in 1 .. n
  BY <1>5, LastMetFacts
<1>13. FoundIsRemembered(r)'
  <2>1. \A s : /\ Met(r, s, Len(watch[r].found))' <=> Met(r, s, n + 1)
               /\ LastMet(r, s, Len(watch[r].found))' = LastMet(r, s, n + 1)
    BY <1>6, <1>8 DEF Met, LastMet
  <2>2. Alone(r)' = Alone(r)
    BY <1>1, <1>8 DEF Alone
  <2>3. ASSUME NEW s \in Watched
        PROVE  /\ (Alone(r) \/ w.agent = r) /\ Met(r, s, n + 1)
                    => Recall(memory'[w.agent], s) = watch'[r].found[LastMet(r, s, n + 1)].signal
               /\ w.agent = r /\ ~Met(r, s, n + 1) => Recall(memory'[r], s) = None
    <3>1. CASE s = s0
      BY <1>2, <1>6, <1>7, <1>11, <3>1
    <3>2. CASE s # s0
      <4>1. /\ (Alone(r) \/ w.agent = r) /\ Met(r, s, n)
                 => Recall(memory[w.agent], s) = w.found[LastMet(r, s, n)].signal
            /\ w.agent = r /\ ~Met(r, s, n) => Recall(memory[r], s) = None
        BY <1>4 DEF WatchOk, FoundIsRemembered, n
      <4>2. Met(r, s, n) => watch'[r].found[LastMet(r, s, n)] = w.found[LastMet(r, s, n)]
        BY <1>6, <1>12
      <4>3. QED  BY <1>7, <1>11, <3>2, <4>1, <4>2
    <3>3. QED  BY <3>1, <3>2
  <2>4. QED  BY <1>8, <2>1, <2>2, <2>3 DEF FoundIsRemembered
<1>14. \A i \in 1 .. n + 1 : Watching!Before(r, i)' = Watching!Before(r, i)
  <2>1. BeforeAre /\ BeforeAre'
    BY BeforeIs, PTL
  <2>2. ASSUME NEW i \in 1 .. n + 1
        PROVE  /\ i \in Nat \ {0} /\ i - 1 \in Nat /\ i - 1 <= n
               /\ \A s : Met(r, s, i - 1) => LastMet(r, s, i - 1) \in 1 .. n
    <3>1. i \in Nat \ {0} /\ i - 1 \in Nat /\ i - 1 <= n
      BY <1>5
    <3>2. \A s : Met(r, s, i - 1) => LastMet(r, s, i - 1) \in 1 .. i - 1
      BY <3>1, LastMetFacts
    <3>3. QED  BY <1>5, <3>1, <3>2
  <2>3. ASSUME NEW i \in 1 .. n + 1
        PROVE  Watching!Before(r, i)' = Watching!Before(r, i)
    <3>1. PICK s : s = w.list[i]
      BY SMTT(30)
    <3>2. Watching!Before(r, i)' =
            IF Recall(w.given, s) # None THEN w.given[s]
            ELSE IF Met(r, s, i - 1) THEN watch'[r].found[LastMet(r, s, i - 1)].signal
            ELSE IF w.agent = "shared" THEN reported[s] ELSE None
      BY <1>1, <1>8, <1>10, <2>1, <2>2, <3>1 DEF BeforeAre
    <3>3. Watching!Before(r, i) =
            IF Recall(w.given, s) # None THEN w.given[s]
            ELSE IF Met(r, s, i - 1) THEN w.found[LastMet(r, s, i - 1)].signal
            ELSE IF w.agent = "shared" THEN reported[s] ELSE None
      BY <2>1, <2>2, <3>1 DEF BeforeAre
    <3>4. Met(r, s, i - 1) => watch'[r].found[LastMet(r, s, i - 1)] = w.found[LastMet(r, s, i - 1)]
      BY <1>6, <2>2
    <3>5. QED  BY <3>2, <3>3, <3>4
  <2>4. QED  BY <2>3
<1>15. ToldSoFar(r)'
  <2>1. \A i \in 1 .. n + 1 : \A a, v : Tells(r, i, a, v) => Tells(r, i, a, v)'
    BY <1>1, <1>8, <1>14 DEF Tells
  <2>2. ASSUME NEW i \in 1 .. n + 1
        PROVE  Tells(r, i, watch[r].found[i].alerts, watch[r].found[i].signal)'
    <3>1. PICK a, v : a = watch'[r].found[i].alerts /\ v = watch'[r].found[i].signal
      OBVIOUS
    <3>2. CASE i \in 1 .. n
      <4>1. Tells(r, i, a, v)
        BY <1>4, <1>6, <3>1, <3>2 DEF WatchOk, ToldSoFar, n
      <4>2. Tells(r, i, a, v)'
        BY <2>1, <4>1
      <4>3. QED  BY <3>1, <4>2 DEF Tells
    <3>3. CASE i \notin 1 .. n
      <4>1. i = n + 1
        BY <1>5, <3>3
      <4>2. a = w.alerts /\ v = w.signal
        BY <1>2, <1>6, <3>1, <4>1
      <4>3. Tells(r, n + 1, w.alerts, w.signal)
        BY <1>1, <1>4 DEF WatchOk, ToldSoFar, n
      <4>4. Tells(r, i, a, v)
        BY <4>1, <4>2, <4>3
      <4>5. Tells(r, i, a, v)'
        BY <2>1, <4>4
      <4>6. QED  BY <3>1, <4>5 DEF Tells
    <3>4. QED  BY <3>2, <3>3
  <2>3. next \notin {"remember", "rank", "compare"}
    OBVIOUS
  <2> HIDE DEF next
  <2>4. \A i \in 1 .. Len(watch'[r].found) :
          Tells(r, i, watch[r].found[i].alerts, watch[r].found[i].signal)'
    BY <1>6, <2>2
  <2>5. QED  BY <1>3, <2>3, <2>4 DEF ToldSoFar
<1>16. \A q \in Procs : q # r => Quiet(q)
  <2> SUFFICES ASSUME NEW q \in Procs, q # r PROVE Quiet(q)
    OBVIOUS
  <2>1. watch'[q] = watch[q] /\ crowded' = crowded /\ reported' = reported /\ spoilt' = spoilt
    BY <1>1, <1>3
  <2>2. watch[q].agent = q => memory'[q] = memory[q]
    BY <1>4, <1>5, <1>7
  <2>3. ASSUME watch[q].agent = "shared", q \notin crowded, NEW s \in Watching!SymbolsOf(q)
        PROVE  Recall(memory'["shared"], s) = Recall(memory["shared"], s)
    <3>1. CASE w.agent = "shared"
      <4>1. s # s0
        BY <1>5, <2>3, <3>1, WatchParts DEF MeetingsAreCrowded
      <4>2. QED  BY <1>7, <3>1, <4>1
    <3>2. CASE w.agent # "shared"
      BY <1>7, <3>2
    <3>3. QED  BY <3>1, <3>2
  <2>4. QED  BY <2>1, <2>2, <2>3 DEF Quiet
<1>17. MeetingsAreCrowded'
  <2>1. \A q \in Procs : Watching!SymbolsOf(q)' = Watching!SymbolsOf(q) /\ watch'[q].agent = watch[q].agent
    BY <1>3, <1>8 DEF Watching!SymbolsOf
  <2>2. QED  BY <1>1, <2>1, WatchParts, MeetingsStay
<1>18. ReportsAreRemembered'
  <2> SUFFICES ASSUME NEW s \in Watched, s \notin spoilt,
                      \A q \in Procs : ~(watch[q].agent = "shared" /\ Met(q, s, Len(watch[q].found)))'
               PROVE  Recall(memory'["shared"], s) = reported[s]
    BY <1>1 DEF ReportsAreRemembered
  <2>1. ASSUME NEW q \in Procs, watch[q].agent = "shared", Met(q, s, Len(watch[q].found)) PROVE FALSE
    <3>1. CASE q # r
      BY <1>3, <2>1, <3>1 DEF Met
    <3>2. CASE q = r
      <4>1. Met(r, s, Len(watch[r].found))' <=> Met(r, s, n + 1)
        BY <1>6, <1>8 DEF Met
      <4>2. QED  BY <1>8, <1>11, <2>1, <3>2, <4>1 DEF n
    <3>3. QED  BY <3>1, <3>2
  <2>2. Recall(memory["shared"], s) = reported[s]
    BY <2>1, WatchParts DEF ReportsAreRemembered
  <2>3. CASE w.agent # "shared"
    BY <1>7, <2>2, <2>3
  <2>4. CASE w.agent = "shared"
    <3>1. Met(r, s, Len(watch[r].found))' <=> Met(r, s, n + 1)
      BY <1>6, <1>8 DEF Met
    <3>2. s # s0
      BY <1>8, <1>11, <2>4, <3>1
    <3>3. QED  BY <1>7, <2>2, <2>4, <3>2
  <2>5. QED  BY <2>3, <2>4
<1>19. DOMAIN reported' = Watched
  BY <1>1, WatchParts
<1>20. WatchOk(r)'
  BY <1>9, <1>13, <1>15 DEF WatchOk
<1>21. QED  BY <1>3, <1>7, <1>16, <1>17, <1>18, <1>19, <1>20, WatchesStay

\* A watch that found nothing yet.
LEMMA NothingFound ==
  ASSUME NEW r \in Procs, r # "shared",
         IsSeq(watch'[r].found), Len(watch'[r].found) = 0, watch'[r].list \in Seq(Watched),
         \/ watch'[r].agent = "shared"
         \/ watch'[r].agent = r /\ \A s : Recall(memory'[r], s) = None,
         \/ watch'[r].step = "idle" /\ watch'[r].list = <<>> /\ watch'[r].agent = "shared"
         \/ watch'[r].step = "price" /\ watch'[r].list # <<>>
  PROVE  WatchOk(r)'
<1>1. Len(watch'[r].list) \in Nat /\ (watch'[r].list # <<>> => 0 < Len(watch'[r].list))
  OBVIOUS
<1>2. WatchTyped(r)'
  BY <1>1 DEF WatchTyped, WatchSteps
<1>3. \A s : ~ (Met(r, s, Len(watch[r].found))')
  BY DEF Met
<1>4. FoundIsRemembered(r)'
  BY <1>3 DEF FoundIsRemembered
<1>5. ToldSoFar(r)'
  BY DEF ToldSoFar
<1>6. QED  BY <1>2, <1>4, <1>5 DEF WatchOk

LEMMA FoundNone == IsSeq(<<>>) /\ Len(<<>>) = 0 /\ <<>> \in Seq(Watched)
BY DEF IsSeq

LEMMA RestIs ==
  /\ Watching!AtRest.step = "idle" /\ Watching!AtRest.list = <<>> /\ Watching!AtRest.agent = "shared"
  /\ Watching!AtRest.found = <<>>
BY DEF Watching!AtRest

LEMMA StartKeeps ==
  ASSUME WatchInv, NEW r \in Procs, Watching!Start(r) PROVE WatchInv'
<1>1. PICK list \in Watchlists, given \in Baselines, agent \in {"shared", r} :
        /\ agent = r => given = Watching!Nothing
        /\ Watching!Becomes(r, [step |-> "price", list |-> list, given |-> given,
                                agent |-> agent, attempt |-> 1])
        /\ memory' = IF agent = r THEN [memory EXCEPT ![r] = Watching!Nothing] ELSE memory
        /\ LET others == {q \in Procs \ {r} : /\ watch[q].agent = agent
                                              /\ \E i \in DOMAIN list : list[i] \in Watching!SymbolsOf(q)}
           IN crowded' = IF others = {} THEN crowded ELSE crowded \cup others \cup {r}
  BY Zenon DEF Watching!Start
<1> DEFINE to == [step |-> "price", list |-> list, given |-> given, agent |-> agent, attempt |-> 1]
           others == {q \in Procs \ {r} : /\ watch[q].agent = agent
                                          /\ \E i \in DOMAIN list : list[i] \in Watching!SymbolsOf(q)}
<1>2. watch[r].step = "idle" /\ UNCHANGED <<reported, spoilt>>
  BY DEF Watching!Start
<1>3. DOMAIN to = {"step", "list", "given", "agent", "attempt"} /\ to["step"] = "price"
      /\ to["list"] = list /\ to["agent"] = agent
  OBVIOUS
<1>4. Watching!Becomes(r, to)
  BY <1>1
<1> HIDE DEF to
<1>5. /\ DOMAIN watch' = Procs /\ \A q \in Procs : q # r => watch'[q] = watch[q]
      /\ watch'[r].step = "price" /\ watch'[r].list = list /\ watch'[r].agent = agent
      /\ watch'[r].found = watch[r].found
  BY <1>3, <1>4, WatchParts, Becoming DEF Fields
<1>6. WatchOk(r) /\ "shared" \notin Procs /\ r # "shared" /\ DOMAIN memory = Procs \cup {"shared"}
  BY WatchParts
<1>7. /\ watch[r].agent = "shared" /\ watch[r].list = <<>> /\ Watching!SymbolsOf(r) = {}
      /\ IsSeq(watch[r].found) /\ Len(watch[r].found) = 0
  <2>1. watch[r].agent = "shared" /\ watch[r].list = <<>> /\ IsSeq(watch[r].found)
    BY <1>2, <1>6 DEF WatchOk, WatchTyped
  <2>2. Len(watch[r].found) \in Nat /\ Len(watch[r].found) <= Len(watch[r].list)
    BY <1>6, ListedSymbols DEF WatchOk, WatchTyped
  <2>3. QED  BY <2>1, <2>2 DEF Watching!SymbolsOf
<1>8. list \in Seq(Watched) /\ list # <<>>
  BY WatchesAreOfSymbols
<1>9. DOMAIN memory' = Procs \cup {"shared"} /\ (agent = r => \A s : Recall(memory'[r], s) = None)
      /\ \A x \in Procs \cup {"shared"} : x # r \/ agent # r => memory'[x] = memory[x]
  BY <1>1, <1>6, Recalled
<1>10. WatchOk(r)'
  <2>1. agent = "shared" \/ agent = r
    OBVIOUS
  <2>2. QED  BY <1>5, <1>6, <1>7, <1>8, <1>9, <2>1, NothingFound
<1>11. crowded' = IF others = {} THEN crowded ELSE crowded \cup others \cup {r}
  BY <1>1
<1>12. crowded \subseteq crowded' /\ (others # {} => others \cup {r} \subseteq crowded')
  <2> HIDE DEF others
  <2>1. QED  BY <1>11
<1>13. \A q \in Procs : q # r => Quiet(q)
  BY <1>2, <1>5, <1>6, <1>9, <1>12 DEF Quiet
<1>14. MeetingsAreCrowded'
  <2>1. \A q \in Procs : q # r => /\ Watching!SymbolsOf(q)' = Watching!SymbolsOf(q)
                                  /\ watch'[q].agent = watch[q].agent
    BY <1>5 DEF Watching!SymbolsOf
  <2>2. Watching!SymbolsOf(r)' = {list[i] : i \in DOMAIN list}
    BY <1>5 DEF Watching!SymbolsOf
  <2>3. ASSUME NEW q \in Procs, q # r, watch[q].agent = "shared", agent = "shared",
               Watching!SymbolsOf(q) \cap {list[i] : i \in DOMAIN list} # {}
        PROVE  r \in crowded' /\ q \in crowded'
    <3>1. q \in others
      BY <2>3
    <3>2. QED  BY <1>12, <3>1
  <2>4. ASSUME NEW p \in Procs, NEW q \in Procs, p # q, watch'[p].agent = "shared",
               watch'[q].agent = "shared",
               Watching!SymbolsOf(p)' \cap Watching!SymbolsOf(q)' # {}
        PROVE  p \in crowded' /\ q \in crowded'
    <3>1. CASE p # r /\ q # r
      BY <1>12, <2>1, <2>4, <3>1, WatchParts DEF MeetingsAreCrowded
    <3>2. CASE p = r
      BY <1>5, <2>1, <2>2, <2>3, <2>4, <3>2
    <3>3. CASE q = r
      BY <1>5, <2>1, <2>2, <2>3, <2>4, <3>3
    <3>4. QED  BY <3>1, <3>2, <3>3
  <2>5. QED  BY <2>4 DEF MeetingsAreCrowded
<1>15. ReportsAreRemembered'
  <2>1. \A q \in Procs : \A s : Met(q, s, Len(watch[q].found)) =>
          q # r /\ Met(q, s, Len(watch[q].found))'
    BY <1>5, <1>7 DEF Met
  <2>2. memory'["shared"] = memory["shared"]
    BY <1>6, <1>9
  <2>3. \A q \in Procs : q # r => watch'[q].agent = watch[q].agent
    BY <1>5
  <2>4. QED  BY <1>2, <2>1, <2>2, <2>3, WatchParts DEF ReportsAreRemembered
<1>16. QED  BY <1>2, <1>5, <1>9, <1>10, <1>13, <1>14, <1>15, WatchParts, WatchesStay

LEMMA FailKeeps ==
  ASSUME WatchInv, NEW r \in Procs, Watching!FailAttempt(r) PROVE WatchInv'
<1> DEFINE w == watch[r]
           to == [step |-> "price", attempt |-> w.attempt + 1, found |-> <<>>, alerts |-> {},
                  signal |-> None]
<1>1. /\ \/ w.agent = "shared" /\ Watching!Becomes(r, to) /\ crowded' = crowded
         \/ watch' = [watch EXCEPT ![r] = Watching!AtRest] /\ crowded' = crowded \ {r}
      /\ spoilt \subseteq spoilt' /\ (w.agent = "shared" => Watching!Touched(r) \subseteq spoilt')
      /\ UNCHANGED <<memory, reported>> /\ w.step \in {"price", "rank", "report"}
  BY DEF Watching!FailAttempt, Watching!Raises, Watching!Breaks
<1>2. DOMAIN to = {"step", "attempt", "found", "alerts", "signal"} /\ to["step"] = "price"
      /\ to["found"] = <<>>
  OBVIOUS
<1> HIDE DEF to
<1>3. WatchOk(r) /\ "shared" \notin Procs /\ r # "shared" /\ DOMAIN watch = Procs
  BY WatchParts
<1>4. /\ DOMAIN watch' = Procs /\ \A q \in Procs : q # r => watch'[q] = watch[q]
      /\ watch'[r].found = <<>> /\ watch'[r].agent = "shared"
      /\ \/ /\ w.agent = "shared" /\ crowded' = crowded
            /\ watch'[r].step = "price" /\ watch'[r].list = w.list
         \/ /\ crowded' = crowded \ {r}
            /\ watch'[r].step = "idle" /\ watch'[r].list = <<>>
  <2>1. CASE w.agent = "shared" /\ Watching!Becomes(r, to) /\ crowded' = crowded
    BY <1>2, <1>3, <2>1, Becoming DEF Fields
  <2>2. CASE watch' = [watch EXCEPT ![r] = Watching!AtRest] /\ crowded' = crowded \ {r}
    BY <1>3, <2>2, RestIs
  <2>3. QED  BY <1>1, <2>1, <2>2
<1>5. w.list \in Seq(Watched) /\ w.list # <<>> /\ IsSeq(w.found)
  <2>1. WatchTyped(r)
    BY <1>3 DEF WatchOk
  <2>2. Len(w.found) \in Nat /\ w.list \in Seq(Watched) /\ IsSeq(w.found)
    BY <2>1, ListedSymbols DEF WatchTyped
  <2>3. 0 < Len(w.list)
    BY <1>1, <2>1, <2>2 DEF WatchTyped
  <2>4. QED  BY <2>2, <2>3
<1>6. WatchOk(r)'
  BY <1>3, <1>4, <1>5, FoundNone, NothingFound
<1>7. \A q \in Procs : q # r => Quiet(q)
  BY <1>1, <1>4 DEF Quiet
<1>8. MeetingsAreCrowded'
  <2>1. \A q \in Procs : q # r => Watching!SymbolsOf(q)' = Watching!SymbolsOf(q)
                                 /\ (q \in crowded => q \in crowded')
    BY <1>4 DEF Watching!SymbolsOf
  <2>2. \/ Watching!SymbolsOf(r)' = {}
        \/ Watching!SymbolsOf(r)' = Watching!SymbolsOf(r) /\ crowded' = crowded /\ w.agent = "shared"
    BY <1>4 DEF Watching!SymbolsOf
  <2>3. QED  BY <1>4, <2>1, <2>2, WatchParts, MeetingsStay
<1>9. ReportsAreRemembered'
  <2> SUFFICES ASSUME NEW s \in Watched, s \notin spoilt',
                      \A q \in Procs : ~(watch[q].agent = "shared" /\ Met(q, s, Len(watch[q].found)))'
               PROVE  Recall(memory["shared"], s) = reported[s]
    BY <1>1 DEF ReportsAreRemembered
  <2>1. ASSUME NEW q \in Procs, watch[q].agent = "shared", Met(q, s, Len(watch[q].found)) PROVE FALSE
    <3>1. CASE q # r
      BY <1>4, <2>1, <3>1 DEF Met
    <3>2. CASE q = r
      <4>1. PICK S : w.found \in Seq(S)
        BY <1>5 DEF IsSeq
      <4>2. DOMAIN w.found = 1 .. Len(w.found)
        BY <4>1
      <4>3. s \in Watching!Touched(r)
        BY <2>1, <3>2, <4>2 DEF Met, Watching!Touched
      <4>4. QED  BY <1>1, <2>1, <3>2, <4>3
    <3>3. QED  BY <3>1, <3>2
  <2>2. s \notin spoilt
    BY <1>1
  <2>3. QED  BY <2>1, <2>2, WatchParts DEF ReportsAreRemembered
<1>10. QED  BY <1>1, <1>4, <1>6, <1>7, <1>8, <1>9, WatchParts, WatchesStay

LEMMA DeliverKeeps ==
  ASSUME WatchInv, NEW r \in Procs, Watching!Deliver(r) PROVE WatchInv'
<1> DEFINE w == watch[r]  n == Len(w.list)
<1>1. /\ w.step = "report" /\ watch' = [watch EXCEPT ![r] = Watching!AtRest]
      /\ crowded' = crowded \ {r} /\ memory' = memory
      /\ w.agent = "shared" =>
           /\ reported' = [s \in Watched |-> IF s \in Watching!SymbolsOf(r)
                                             THEN Watching!LastSignal(r, s) ELSE reported[s]]
           /\ spoilt' = IF r \in crowded THEN spoilt \cup Watching!SymbolsOf(r)
                        ELSE spoilt \ Watching!SymbolsOf(r)
      /\ w.agent # "shared" => UNCHANGED <<reported, spoilt>>
  BY DEF Watching!Deliver
<1>2. WatchOk(r) /\ "shared" \notin Procs /\ r # "shared" /\ DOMAIN watch = Procs
  BY WatchParts
<1>3. /\ DOMAIN watch' = Procs /\ \A q \in Procs : q # r => watch'[q] = watch[q]
      /\ watch'[r].found = <<>> /\ watch'[r].agent = "shared"
      /\ watch'[r].step = "idle" /\ watch'[r].list = <<>>
  BY <1>1, <1>2, RestIs
<1>4. WatchOk(r)'
  BY <1>2, <1>3, FoundNone, NothingFound
<1>5. /\ n \in Nat /\ Len(w.found) = n /\ DOMAIN w.list = 1 .. n
      /\ \A s \in Watching!SymbolsOf(r) : Met(r, s, n) /\ s \in Watched
      /\ \A s : Met(r, s, n) => s \in Watching!SymbolsOf(r)
  <2>1. WatchTyped(r)
    BY <1>2 DEF WatchOk
  <2>2. n \in Nat /\ n <= n
    BY <2>1, ListedSymbols
  <2>3. Len(w.found) = n /\ DOMAIN w.list = 1 .. n
    BY <1>1, <2>1 DEF WatchTyped
  <2>4. \A s \in Watching!SymbolsOf(r) : Met(r, s, n) /\ s \in Watched
    BY <2>1, ListedSymbols
  <2>5. \A s : Met(r, s, n) => s \in Watching!SymbolsOf(r)
    BY <2>1, <2>2, ListedSymbols
  <2>6. QED  BY <2>2, <2>3, <2>4, <2>5
<1>6. DOMAIN reported' = Watched
  BY <1>1, WatchParts
<1>7. ASSUME NEW q \in Procs, q # r, watch[q].agent = "shared", q \notin crowded,
             NEW s \in Watching!SymbolsOf(q), w.agent = "shared"
      PROVE  s \in Watched /\ s \notin Watching!SymbolsOf(r)
  <2>1. s \in Watched
    BY <1>7, WatchParts, ListedSymbols DEF WatchOk
  <2>2. QED  BY <1>7, <2>1, WatchParts DEF MeetingsAreCrowded
<1>8. \A q \in Procs : q # r => Quiet(q)
  <2> SUFFICES ASSUME NEW q \in Procs, q # r PROVE Quiet(q)
    OBVIOUS
  <2>1. watch'[q] = watch[q] /\ (q \in crowded => q \in crowded') /\ memory' = memory
    BY <1>1, <1>3
  <2>2. ASSUME watch[q].agent = "shared", q \notin crowded, NEW s \in Watching!SymbolsOf(q)
        PROVE  reported'[s] = reported[s] /\ (s \in spoilt => s \in spoilt')
    <3>1. CASE w.agent = "shared"
      <4>1. s \in Watched /\ s \notin Watching!SymbolsOf(r)
        BY <1>7, <2>2, <3>1
      <4>2. QED  BY <1>1, <3>1, <4>1
    <3>2. CASE w.agent # "shared"
      BY <1>1, <3>2
    <3>3. QED  BY <3>1, <3>2
  <2>3. QED  BY <2>1, <2>2 DEF Quiet
<1>9. MeetingsAreCrowded'
  <2>1. \A q \in Procs : q # r => Watching!SymbolsOf(q)' = Watching!SymbolsOf(q)
                                 /\ (q \in crowded => q \in crowded')
    BY <1>1, <1>3 DEF Watching!SymbolsOf
  <2>2. Watching!SymbolsOf(r)' = {}
    BY <1>3 DEF Watching!SymbolsOf
  <2>3. QED  BY <1>3, <2>1, <2>2, WatchParts, MeetingsStay
<1>10. ASSUME NEW s \in Watching!SymbolsOf(r), w.agent = "shared", r \notin crowded
       PROVE  Recall(memory["shared"], s) = Watching!LastSignal(r, s)
  <2>1. Met(r, s, n) /\ s \in Watched /\ Alone(r)
    BY <1>5, <1>10 DEF Alone
  <2>2. Recall(memory["shared"], s) = w.found[LastMet(r, s, n)].signal
    BY <1>2, <1>5, <1>10, <2>1 DEF WatchOk, FoundIsRemembered
  <2>3. Watching!LastSignal(r, s) = w.found[LastMet(r, s, n)].signal
    BY <1>5 DEF Watching!LastSignal, LastMet
  <2>4. QED  BY <2>2, <2>3
<1>11. ReportsAreRemembered'
  <2> SUFFICES ASSUME NEW s \in Watched, s \notin spoilt',
                      \A q \in Procs : ~(watch[q].agent = "shared" /\ Met(q, s, Len(watch[q].found)))'
               PROVE  Recall(memory["shared"], s) = reported'[s]
    BY <1>1 DEF ReportsAreRemembered
  <2>1. ASSUME NEW q \in Procs, q # r, watch[q].agent = "shared", Met(q, s, Len(watch[q].found))
        PROVE  FALSE
    BY <1>3, <2>1 DEF Met
  <2>2. CASE w.agent # "shared"
    <3>1. \A q \in Procs : ~(watch[q].agent = "shared" /\ Met(q, s, Len(watch[q].found)))
      BY <2>1, <2>2
    <3>2. QED  BY <1>1, <2>2, <3>1, WatchParts DEF ReportsAreRemembered
  <2>3. CASE w.agent = "shared" /\ s \in Watching!SymbolsOf(r)
    <3>1. r \notin crowded
      BY <1>1, <2>3
    <3>2. QED  BY <1>1, <1>10, <2>3, <3>1
  <2>4. CASE w.agent = "shared" /\ s \notin Watching!SymbolsOf(r)
    <3>1. ~Met(r, s, Len(w.found)) /\ s \notin spoilt
      BY <1>1, <1>5, <2>4
    <3>2. \A q \in Procs : ~(watch[q].agent = "shared" /\ Met(q, s, Len(watch[q].found)))
      BY <2>1, <3>1
    <3>3. reported'[s] = reported[s]
      BY <1>1, <2>4
    <3>4. QED  BY <3>1, <3>2, <3>3, WatchParts DEF ReportsAreRemembered
  <2>5. QED  BY <2>2, <2>3, <2>4
<1>12. DOMAIN memory' = Procs \cup {"shared"}
  BY <1>1, WatchParts
<1>13. QED  BY <1>3, <1>4, <1>6, <1>8, <1>9, <1>11, <1>12, WatchesStay

\* A change of the market, and the steps of the other parts.
LEMMA WatchesUntouched ==
  ASSUME WatchInv, UNCHANGED <<watch, memory, reported, spoilt, crowded>> PROVE WatchInv'
<1>1. \A q \in Procs : Quiet(q)
  BY DEF Quiet
<1>2. MeetingsAreCrowded'
  <2>1. \A q \in Procs : Watching!SymbolsOf(q)' = Watching!SymbolsOf(q)
    BY DEF Watching!SymbolsOf
  <2>2. QED  BY <2>1, WatchParts, MeetingsStay
<1>3. ReportsAreRemembered'
  BY WatchParts, ReportsStay
<1>4. QED  BY <1>1, <1>2, <1>3, WatchParts, WatchesStay

LEMMA WatchFirst == Init => WatchInv
<1> SUFFICES ASSUME Init PROVE WatchInv
  OBVIOUS
<1>1. /\ memory = [a \in {"shared"} \cup Procs |-> Watching!Nothing]
      /\ watch = [r \in Procs |-> Watching!AtRest]
      /\ reported = [s \in Watched |-> None]
  BY DEF Init, Watching!MonitoringInit, Watching!Agents
<1>2. \A r \in Procs : /\ watch[r].step = "idle" /\ watch[r].list = <<>>
                       /\ watch[r].agent = "shared" /\ watch[r].found = <<>>
  BY <1>1, RestIs
<1>3. \A r \in Procs : Watching!SymbolsOf(r) = {}
  BY <1>2 DEF Watching!SymbolsOf
<1>4. \A r \in Procs : \A s : ~Met(r, s, Len(watch[r].found))
  BY <1>2, FoundNone DEF Met
<1>5. MeetingsAreCrowded
  BY <1>3 DEF MeetingsAreCrowded
<1>6. ReportsAreRemembered
  BY <1>1, Recalled DEF ReportsAreRemembered
<1>7. ASSUME NEW r \in Procs PROVE WatchTyped(r) /\ FoundIsRemembered(r) /\ ToldSoFar(r)
  <2>1. WatchTyped(r)
    <3>1. /\ Len(watch[r].found) = 0 /\ Len(watch[r].list) = 0 /\ IsSeq(watch[r].found)
          /\ watch[r].list \in Seq(Watched)
      BY <1>2, FoundNone
    <3>2. QED  BY <1>2, <3>1 DEF WatchTyped, WatchSteps
  <2>2. FoundIsRemembered(r)
    BY <1>2, <1>4, WatchesAreOfSymbols DEF FoundIsRemembered
  <2>3. ToldSoFar(r)
    BY <1>2, FoundNone DEF ToldSoFar
  <2>4. QED  BY <2>1, <2>2, <2>3
<1>8. QED  BY <1>1, <1>5, <1>6, <1>7 DEF WatchInv

LEMMA WatchStep == WatchInv /\ [Next]_vars => WatchInv'
<1> SUFFICES ASSUME WatchInv, [Next]_vars PROVE WatchInv'
  OBVIOUS
<1>1. CASE UNCHANGED watchVars
  BY <1>1, WatchesUntouched DEF watchVars
<1>2. CASE Watching!MonitoringNext
  <2>1. CASE Watching!Move
    BY <2>1, WatchesUntouched DEF Watching!Move
  <2>2. ASSUME NEW r \in Procs,
               \/ Watching!Start(r) \/ Watching!LookUp(r) \/ Watching!Rank(r) \/ Watching!Compare(r)
               \/ Watching!Remember(r) \/ Watching!FailAttempt(r) \/ Watching!Deliver(r)
        PROVE  WatchInv'
    BY <2>2, StartKeeps, LookUpKeeps, RankKeeps, CompareKeeps, RememberKeeps, FailKeeps, DeliverKeeps
  <2>3. QED  BY <1>2, <2>1, <2>2 DEF Watching!MonitoringNext
<1>3. QED  BY <1>1, <1>2 DEF Next, Ingest, Serve, Monitor, vars

LEMMA WatchAlways == Spec => []WatchInv
<1>1. QED  BY WatchFirst, WatchStep, PTL DEF Spec

\* A report of the monitoring agent tells, of each of its symbols, exactly the change since
\* the last report: whatever watches run at once, and whatever attempts are thrown away.
THEOREM ChangesAreTold == Spec => []SignalChangesAreTold
<1>1. WatchInv => SignalChangesAreTold
  <2> SUFFICES ASSUME WatchInv, NEW r \in Procs, watch[r].step = "report" PROVE Watching!Told(r)
    BY DEF SignalChangesAreTold, Watching!SignalChangesAreTold
  <2>1. WatchOk(r)
    BY WatchParts
  <2>2. PICK S : watch[r].found \in Seq(S)
    BY <2>1 DEF WatchOk, WatchTyped, IsSeq
  <2>3. DOMAIN watch[r].found = 1 .. Len(watch[r].found)
    BY <2>2
  <2>4. QED  BY <2>1, <2>3 DEF WatchOk, ToldSoFar, Tells, Watching!Told
<1>2. QED  BY <1>1, WatchAlways, PTL

=============================================================================
