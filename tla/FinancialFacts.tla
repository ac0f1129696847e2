---------------------------- MODULE FinancialFacts ----------------------------
(***************************************************************************)
(* The bitemporal table financial_statements and the run that maintains    *)
(* it, ingest_financials: a vendor batch is compared with the open         *)
(* versions, a changed fact closes its open version and opens a new one, a *)
(* corrected publication date is fixed in place, an unchanged fact is left *)
(* alone.  The run is one transaction: it reads the open versions once,    *)
(* walks the batch row by row and commits, or rolls back.                  *)
(*                                                                         *)
(* Runs are started by hand (dtck-worker ingest), one at a time.  Instants *)
(* are counted: whatever reads the clock later reads a later instant.      *)
(***************************************************************************)
EXTENDS Naturals, Sequences

CONSTANTS
  Keys,      \* (stock, period type, year, period, statement, line item)
  Values,    \* values with at most four decimals
  Fine,      \* vendor values with more decimals than the column keeps
  Dates,     \* published_at, where the vendor discloses it
  Null,
  MaxRows,   \* bound: rows of one vendor batch
  MaxRuns,   \* bound: runs
  Repeats    \* may a batch list one key twice

ASSUME FactsAssumption ==
  /\ Null \notin Dates /\ Null \notin Nat /\ Values \cap Fine = {} /\ Values # {}
  /\ MaxRows \in Nat /\ MaxRuns \in Nat /\ Repeats \in BOOLEAN

VARIABLES
  table,   \* committed versions; the position of a version is its id
  now,     \* the clock
  left,    \* runs that may still start
  pc,      \* the run
  batch,   \* the vendor's rows
  from,    \* valid_from of the rows of the batch
  open,    \* open_by_key: id, value and published_at of the open version of a key
  at,      \* valid_to of the versions that are closed
  done,    \* rows of the batch that were walked
  draft,   \* the table as the transaction sees it
  told     \* history: what the vendor said last of each key, once committed

run == <<batch, from, open, at, done, draft>>
vars == <<table, now, left, pc, run, told>>

Rows == [key : Keys, value : Values \cup Fine, published : Dates \cup {Null}]

ASSUME NullIsNoRow == Null \notin Rows

\* Numeric(24,4): a finer value is rounded when it is stored.
Stored(v) == IF v \in Fine THEN CHOOSE w \in Values : TRUE ELSE v

IsOpen(v) == v.to = Null

\* Mutant: the history is not filtered out.
OpenAndClosedIds(t, k) == {i \in DOMAIN t : t[i].key = k}

OpenIds(t, k) == {i \in DOMAIN t : t[i].key = k /\ IsOpen(t[i])}

NoVersion == [id |-> 0, value |-> Null, published |-> Null]
Unread == [k \in Keys |-> NoVersion]

Init ==
  /\ table = <<>> /\ now = 1 /\ left = MaxRuns
  /\ pc = "idle" /\ batch = <<>> /\ from = 0 /\ open = Unread
  /\ at = 0 /\ done = 0 /\ draft = <<>>
  /\ told = [k \in Keys |-> Null]

Batches == UNION {[1 .. n -> Rows] : n \in 1 .. MaxRows}

NoRepeats(b) == \A i, j \in DOMAIN b : b[i].key = b[j].key => i = j

\* collect, validate and normalize: the rows become valid from now on.  Rows whose
\* value cannot fit the column have been dropped, an empty batch does nothing.
Collect ==
  /\ pc = "idle" /\ left > 0
  /\ \E b \in Batches : (Repeats \/ NoRepeats(b)) /\ batch' = b
  /\ from' = now /\ now' = now + 1 /\ left' = left - 1
  /\ pc' = "read"
  /\ UNCHANGED <<table, open, at, done, draft, told>>

Entry(i) == [id |-> i, value |-> table[i].value, published |-> table[i].published]

\* The open versions, read once; of two open ones the last read wins.
ReadOpen ==
  /\ pc = "read"
  /\ \E ids \in [Keys -> 0 .. Len(table)] :
       /\ \A k \in Keys : IF OpenIds(table, k) = {} THEN ids[k] = 0
                                                    ELSE ids[k] \in OpenIds(table, k)
       /\ open' = [k \in Keys |-> IF ids[k] = 0 THEN NoVersion ELSE Entry(ids[k])]
  /\ draft' = table /\ at' = now /\ now' = now + 1 /\ done' = 0
  /\ pc' = "walk"
  /\ UNCHANGED <<table, left, batch, from, told>>

Version(row) ==
  [key |-> row.key, value |-> Stored(row.value), published |-> row.published,
   from |-> from, to |-> Null]

\* Mutants: nothing is closed; nothing is opened after closing; the date is left alone.
OpenOnly(row) == draft' = Append(draft, Version(row))
CloseOnly(row) == draft' = [draft EXCEPT ![open[row.key].id].to = at]
FixNothing(row) == draft' = draft

\* Same value: at most the publication date is corrected, in place.
Unchanged(row) ==
  draft' = IF open[row.key].published = row.published THEN draft
           ELSE [draft EXCEPT ![open[row.key].id].published = row.published]

\* Another value: the open version is closed and a new one opened.
Restate(row) ==
  draft' = Append([draft EXCEPT ![open[row.key].id].to = at], Version(row))

\* Mutant: values of two number types never compare equal.
NeverSame(row) == FALSE

SameValue(row) == open[row.key].value = row.value

New(row) == draft' = Append(draft, Version(row))

Walk ==
  /\ pc = "walk" /\ done < Len(batch)
  /\ LET row == batch[done + 1]
     IN \/ open[row.key] = NoVersion /\ New(row)
        \/ open[row.key] # NoVersion /\ SameValue(row) /\ Unchanged(row)
        \/ open[row.key] # NoVersion /\ ~SameValue(row) /\ Restate(row)
  /\ done' = done + 1
  /\ UNCHANGED <<table, now, left, pc, batch, from, open, at, told>>

Heard(k) == \E i \in DOMAIN batch : batch[i].key = k

Commit ==
  /\ pc = "walk" /\ done = Len(batch)
  /\ table' = draft
  /\ told' = [k \in Keys |-> IF Heard(k) THEN LET i == CHOOSE i \in DOMAIN batch :
                                                batch[i].key = k
                                              IN batch[i]
                             ELSE told[k]]
  /\ pc' = "idle" /\ batch' = <<>> /\ from' = 0 /\ open' = Unread
  /\ at' = 0 /\ done' = 0 /\ draft' = <<>>
  /\ UNCHANGED <<now, left>>

\* An exception or a crash anywhere in the run rolls the transaction back.
RollBack ==
  /\ pc \in {"read", "walk"}
  /\ pc' = "idle" /\ batch' = <<>> /\ from' = 0 /\ open' = Unread
  /\ at' = 0 /\ done' = 0 /\ draft' = <<>>
  /\ UNCHANGED <<table, now, left, told>>

Next == Collect \/ ReadOpen \/ Walk \/ Commit \/ RollBack

Spec == Init /\ [][Next]_vars

-----------------------------------------------------------------------------
(* Properties *)

VersionType ==
  [key : Keys, value : Values, published : Dates \cup {Null},
   from : Nat, to : Nat \cup {Null}]

OpenType ==
  [id : Nat, value : Values \cup {Null}, published : Dates \cup {Null}]

\* Every variable has its type, and every entry of open_by_key names a version.
TypeOK ==
  /\ table \in Seq(VersionType) /\ draft \in Seq(VersionType)
  /\ now \in Nat /\ left \in Nat /\ from \in Nat /\ at \in Nat /\ done \in Nat
  /\ pc \in {"idle", "read", "walk"}
  /\ batch \in Seq(Rows)
  /\ open \in [Keys -> OpenType]
  /\ told \in [Keys -> Rows \cup {Null}]

\* A fact has at most one open version, which is what every reader of the table
\* filters by (valid_to IS NULL in feature_engine and db_market).
OneOpenVersion ==
  \A i, j \in DOMAIN table :
    table[i].key = table[j].key /\ IsOpen(table[i]) /\ IsOpen(table[j]) => i = j

\* The open version is what the vendor said last, whatever runs rolled back.
LatestIsOpen ==
  \A k \in Keys : told[k] # Null =>
    \E i \in OpenIds(table, k) :
      table[i].value = Stored(told[k].value) /\ table[i].published = told[k].published

\* History is never rewritten: versions are only added, a closed one never changes
\* and an open one is closed or has its publication date corrected.
HistoryIsFrozen ==
  [][\A i \in DOMAIN table :
       /\ i \in DOMAIN table'
       /\ IsOpen(table[i]) \/ table'[i] = table[i]
       /\ <<table'[i].key, table'[i].value, table'[i].from>>
            = <<table[i].key, table[i].value, table[i].from>>]_table

ValidAt(v, t) == v.from <= t /\ (IsOpen(v) \/ t < v.to)

\* From its first version on, a fact has a version at every instant.
AsOfAlwaysFinds ==
  \A i \in DOMAIN table : \A t \in table[i].from .. now :
    \E j \in DOMAIN table : table[j].key = table[i].key /\ ValidAt(table[j], t)

\* The as-of query sees one version of a fact.
AsOfFindsOne ==
  \A i, j \in DOMAIN table : \A t \in 1 .. now :
    table[i].key = table[j].key /\ ValidAt(table[i], t) /\ ValidAt(table[j], t) => i = j

\* A run that is told nothing new opens no version.
RepeatsAreNoOps ==
  [][pc = "walk" /\ pc' = "idle" /\ (\A i \in DOMAIN batch : told[batch[i].key] = batch[i])
       => table' = table]_vars

=============================================================================
