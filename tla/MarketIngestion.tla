---------------------------- MODULE MarketIngestion ----------------------------
(***************************************************************************)
(* The ingestion runs of prices, index bars, macro series, news and        *)
(* corporate events: collect, validate, normalize, store, score.           *)
(*                                                                         *)
(* Prices, index bars and macro points are upserted on their primary key.  *)
(* News and events have no unique key: a run looks up which keys the table *)
(* has and inserts the others.  Worker jobs and commands started by hand   *)
(* are processes of their own, so runs of one data set overlap.            *)
(*                                                                         *)
(* Runs of different data sets share no table: a behaviour is about one.   *)
(* The order of rows within a batch matters to no statement, a chunk of    *)
(* 1000 (500) rows is one statement here, and one transaction anyway.      *)
(***************************************************************************)
EXTENDS DataQuality

CONSTANTS
  Procs,     \* the worker and the commands
  Feed,      \* rows a vendor may return, per data set
  Universe,  \* ACTIVE symbols of the reference table
  Symbols,   \* symbols (or index codes) a run asks for
  Days,      \* days a run asks for, from the first to the last
  Window,    \* the weekdays among them
  MaxRows,   \* bound: rows of one batch
  MaxRuns    \* bound: runs

VARIABLES
  dataset,  \* what this behaviour ingests
  stored,   \* upserted table: row of a key
  copies,   \* inserted table: rows of a key
  linked,   \* news_symbols
  score,    \* the last data_quality_scores row, and (history) the strays of its batch
  step, batch, seen,   \* per run: where it is, its rows, keys the lookup found
  left,     \* runs that may still start
  told,     \* history: the last sound row of a key in a committed batch
  missed,   \* history: keys other runs committed since a run's lookup
  excused   \* history: keys a race or a repeating batch may have doubled

local == <<step, batch, seen, missed>>
ingestVars == <<dataset, stored, copies, linked, score, local, left, told, excused>>

Bars == {"prices", "index_prices"}
Upserted == Bars \cup {"macro"}
Inserted == {"news", "events"}

\* Bars are numbers, and the key of a bar or an event names its symbol; a placeholder is
\* no row.
ASSUME FeedAssumption ==
  /\ MaxRows \in Nat /\ IsFiniteSet(Symbols) /\ Window \subseteq Days /\ IsFiniteSet(Days)
  /\ \A d \in Bars : None \notin Feed[d] /\ \A r \in Feed[d] : r.key = <<r.symbol, r.day>>
  /\ \A d \in Bars : \A r \in Feed[d], f \in PriceFields \cup {"volume"} : r[f] \in Int
  /\ \A q, r \in Feed["events"] : q.key = r.key => q.symbol = r.symbol

Keys == {r.key : r \in Feed[dataset]}

IngestInit ==
  /\ dataset \in Upserted \cup Inserted
  /\ stored = [k \in Keys |-> None] /\ told = [k \in Keys |-> None]
  /\ copies = [k \in Keys |-> 0] /\ linked = {} /\ excused = {}
  /\ score = None /\ left = MaxRuns
  /\ step = [p \in Procs |-> "idle"] /\ batch = [p \in Procs |-> <<>>]
  /\ seen = [p \in Procs |-> {}] /\ missed = [p \in Procs |-> {}]

\* Rows outside the window are reported; they are stored all the same.
OutsideWindow(rows, field) ==
  {Issue(i, rows[i].key, field, "outside window") :
     i \in {i \in DOMAIN rows : rows[i].day \notin Days}}

ValidateBars(rows) ==
  Duplicates(rows, "trade_date") \cup OutsideWindow(rows, "trade_date")
    \cup UNION {CheckOhlcRow(i, rows[i]) : i \in DOMAIN rows}

\* The flaws of an item: an empty title or text, a date in the future, a sentiment or an
\* importance out of bounds.
ValidateNews(rows) ==
  Duplicates(rows, "title")
    \cup UNION {{Issue(i, rows[i].key, f, "flaw") : f \in rows[i].flaws} : i \in DOMAIN rows}

\* What is found in events is reported and neither drops nor scores any.
Validate(rows) ==
  CASE dataset \in Bars -> ValidateBars(rows)
    [] dataset = "macro" -> OutsideWindow(rows, "period_date")
    [] dataset = "news" -> ValidateNews(rows)

\* Mutant: the whole batch is kept.
KeptAll(rows) == DOMAIN rows

\* The positions of a batch that are kept: a corrupt row takes every row of its key with it.
Kept(rows) ==
  {i \in DOMAIN rows : dataset \in Bars => rows[i].key \notin CorruptKeys(ValidateBars(rows))}

\* Prices resolve the symbols asked for, events those of their rows; index codes and
\* indicators have no key to resolve.
Resolvable(r) ==
  /\ dataset = "prices" => r.symbol \in Universe \cap Symbols
  /\ dataset = "events" => r.symbol \in Universe

Normalized(rows) == {i \in Kept(rows) : Resolvable(rows[i])}

NormalizeIssues(rows) ==
  IF dataset = "news"
  THEN UNION {{Issue(i, rows[i].key, "symbols", s) : s \in rows[i].symbols \ Universe} :
                i \in DOMAIN rows}
  ELSE {Issue(i, rows[i].key, "symbol", "unknown") : i \in Kept(rows) \ Normalized(rows)}

\* The keys at some positions of a batch.
KeysAt(rows, at) == {rows[i].key : i \in at}

\* Mutant: one key per symbol.
ExpectedSymbols == Cardinality(Symbols)

ExpectedKeys == Cardinality(Symbols) * Cardinality(Window)

Latest(rows) == Max({rows[i].day : i \in DOMAIN rows})
Issues(rows) == Validate(rows) \cup NormalizeIssues(rows)

BarScore(rows) ==
  ComputeQuality(Max(Days), Len(rows), Issues(rows), ExpectedKeys,
                 Cardinality(KeysAt(rows, Kept(rows))), Latest(rows))

\* Macro batches are scored as of their own newest point, news as of today; neither
\* has an expected number of rows.
MacroScore(rows) ==
  ComputeQuality(Latest(rows), Len(rows), Issues(rows), None, None, Latest(rows))

NewsScore(rows) ==
  ComputeQuality(Max(Days), Len(rows), Issues(rows), None, None, Latest(rows))

\* Rows that count as present though nobody expects them: a bar of a weekend, or of an
\* index code that was not asked for.
Strays(rows) ==
  {i \in Kept(rows) : dataset \in Bars /\ rows[i].key \notin Symbols \X Window}

Scored(quality, rows) == [quality |-> quality, strays |-> Strays(rows)]

Batches == UNION {[1 .. n -> Feed[dataset]] : n \in 1 .. MaxRows}

\* A run that fetches nothing, or whose provider fails, ends without a transaction.
Collect(p) ==
  /\ step[p] = "idle" /\ left > 0 /\ left' = left - 1
  /\ \E rows \in Batches :
       /\ batch' = [batch EXCEPT ![p] = rows]
       /\ step' = [step EXCEPT ![p] = "collected"]
  /\ UNCHANGED <<dataset, stored, copies, linked, score, seen, told, missed, excused>>

Over(p) ==
  /\ step' = [step EXCEPT ![p] = "idle"] /\ batch' = [batch EXCEPT ![p] = <<>>]
  /\ seen' = [seen EXCEPT ![p] = {}]

Repeating(rows, at) == KeysAt(rows, {i \in at : \E j \in at : j # i /\ rows[j].key = rows[i].key})

RowOf(rows, at, k) == rows[CHOOSE i \in at : rows[i].key = k]

\* The vendor's word on a key: one row of it that breaks no rule, of a symbol we know.
Sound(r) ==
  /\ Resolvable(r)
  /\ dataset \in Bars => /\ \A f \in PriceFields : r[f] > 0
                         /\ r.low <= r.close /\ r.close <= r.high /\ r.volume >= 0

\* INSERT ... ON CONFLICT DO UPDATE: a key listed twice in the statement fails it,
\* and the transaction with it.
Upsert(p) ==
  LET rows == batch[p]
      good == Normalized(rows)
  IN /\ step[p] = "collected"
     /\ Repeating(rows, good) = {}
     /\ stored' = [k \in Keys |-> IF k \in KeysAt(rows, good) THEN RowOf(rows, good, k)
                                  ELSE stored[k]]
     /\ told' = [k \in Keys |->
                   IF /\ k \in KeysAt(rows, DOMAIN rows)
                      /\ \A i \in DOMAIN rows : rows[i].key = k => Sound(rows[i])
                   THEN RowOf(rows, DOMAIN rows, k) ELSE told[k]]
     /\ Over(p)
     /\ UNCHANGED <<dataset, copies, linked, left, missed, excused>>

StoreBars(p) ==
  /\ dataset \in Bars /\ Upsert(p)
  /\ score' = Scored(BarScore(batch[p]), batch[p])

StoreMacro(p) ==
  /\ dataset = "macro" /\ Upsert(p)
  /\ score' = Scored(MacroScore(batch[p]), batch[p])

Stored == {k \in Keys : copies[k] > 0}

\* Mutant: the lookup compares the title of the item alone.
FoundAny(rows) == {k \in KeysAt(rows, Normalized(rows)) : \E s \in Stored : s[2] = k[2]}

Found(rows) == KeysAt(rows, Normalized(rows)) \cap Stored

Lookup(p) ==
  /\ step[p] = "collected" /\ dataset \in Inserted
  /\ seen' = [seen EXCEPT ![p] = Found(batch[p])]
  /\ missed' = [missed EXCEPT ![p] = {}]
  /\ step' = [step EXCEPT ![p] = "looked"]
  /\ UNCHANGED <<dataset, stored, copies, linked, score, batch, left, told, excused>>

\* The rows the lookup did not find, each of them: what is inserted is not noted in seen.
Fresh(p) == {i \in Normalized(batch[p]) : batch[p][i].key \notin seen[p]}

Insert(p) ==
  LET rows == batch[p]
  IN /\ step[p] = "looked"
     /\ copies' = [k \in Keys |->
                     copies[k] + Cardinality({i \in Fresh(p) : rows[i].key = k})]
     /\ missed' = [q \in Procs |-> IF step[q] = "looked" /\ q # p
                                   THEN missed[q] \cup KeysAt(rows, Fresh(p)) ELSE missed[q]]
     /\ excused' = excused \cup Repeating(rows, DOMAIN rows) \cup missed[p]
     /\ told' = [k \in Keys |-> IF k \in KeysAt(rows, Normalized(rows))
                                THEN RowOf(rows, DOMAIN rows, k) ELSE told[k]]
     /\ Over(p)
     /\ UNCHANGED <<dataset, stored, left>>

\* An item is inserted with its links; an item that is there already gets none.
InsertNews(p) ==
  /\ dataset = "news" /\ Insert(p)
  /\ linked' = linked \cup UNION {{batch[p][i].key} \X (batch[p][i].symbols \cap Universe) :
                                    i \in Fresh(p)}
  /\ score' = Scored(NewsScore(batch[p]), batch[p])

\* Events are not scored.
InsertEvents(p) ==
  /\ dataset = "events" /\ Insert(p)
  /\ UNCHANGED <<linked, score>>

\* An exception or a crash anywhere in the transaction rolls it back.
Abort(p) ==
  /\ step[p] # "idle" /\ Over(p)
  /\ UNCHANGED <<dataset, stored, copies, linked, score, left, told, missed, excused>>

IngestNext ==
  \E p \in Procs : \/ Collect(p) \/ StoreBars(p) \/ StoreMacro(p)
                   \/ Lookup(p) \/ InsertNews(p) \/ InsertEvents(p) \/ Abort(p)

IngestSpec == IngestInit /\ [][IngestNext]_ingestVars

-----------------------------------------------------------------------------
(* Properties *)

\* The upserted table holds the last sound row of every key, whatever corrupt, unknown
\* or failed batches came in between, and never a corrupt one.
LastSoundWord == dataset \in Upserted => stored = told

\* Every news item or event a committed run was told of is stored, and stored once
\* unless its batch listed it twice or another run committed it after the lookup.
ToldIsStoredOnce ==
  dataset \in Inserted =>
    \A k \in Keys : /\ told[k] # None => copies[k] > 0
                    /\ copies[k] > 1 => k \in excused

Full(ratio) == ratio # None /\ ratio.num = ratio.den

\* A batch of bars that is complete and valid by its score left no hole: every weekday of
\* every symbol is stored, unless rows nobody expects stood in for missing ones.
FullMarksAreEarned ==
  dataset \in Bars /\ score # None /\ score.strays = {}
    /\ Full(score.quality.dims.completeness) /\ Full(score.quality.dims.validity) =>
      \A k \in Symbols \X Window : k \in Keys /\ stored[k] # None

\* Not so: a stray stands in for a hole, the overall score is rounded to hundredths, and the
\* surplus of a batch that is more than complete makes up for what is not valid.
HundredMeansComplete ==
  dataset \in Bars /\ score # None /\ score.quality.overall = 10000 =>
    \A k \in Symbols \X Window : k \in Keys /\ stored[k] # None

=============================================================================
