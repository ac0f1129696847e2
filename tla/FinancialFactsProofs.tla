------------------------- MODULE FinancialFactsProofs -------------------------
(***************************************************************************)
(* What ingest_financials promises of the table, for every vocabulary of   *)
(* facts and every batch: history is never rewritten, a fact has a version *)
(* at every instant since its first one and, while vendors list no fact    *)
(* twice in a batch, one open version, which is what the vendor said last. *)
(*                                                                         *)
(* The argument is about the table as the transaction sees it: the rows of *)
(* the batch that were walked changed only the version open_by_key names   *)
(* and the versions added behind the committed ones.                       *)
(***************************************************************************)
EXTENDS FinancialFacts, TLAPS

LEMMA StoredType ==
  ASSUME NEW v \in Values \cup Fine
  PROVE  Stored(v) \in Values
BY FactsAssumption DEF Stored

LEMMA VersionTyped ==
  ASSUME NEW row \in Rows, from \in Nat
  PROVE  Version(row) \in VersionType
BY StoredType DEF Version, VersionType, Rows

LEMMA FieldsTyped ==
  ASSUME NEW v \in VersionType, NEW n \in Nat, NEW p \in Dates \cup {Null}
  PROVE  [v EXCEPT !.to = n] \in VersionType /\ [v EXCEPT !.published = p] \in VersionType
BY DEF VersionType

LEMMA FieldsOf ==
  ASSUME NEW t \in Seq(VersionType), NEW i \in DOMAIN t
  PROVE  t[i].key \in Keys /\ t[i].from \in Nat /\ t[i].to \in Nat \cup {Null}
<1>1. t[i] \in VersionType
  OBVIOUS
<1>2. QED  BY <1>1 DEF VersionType

\* Overwriting one field of a version keeps a table a table.
LEMMA CloseTyped ==
  ASSUME NEW t \in Seq(VersionType), NEW i \in Nat, NEW n \in Nat
  PROVE  /\ [t EXCEPT ![i].to = n] \in Seq(VersionType)
         /\ Len([t EXCEPT ![i].to = n]) = Len(t)
<1> DEFINE u == [t EXCEPT ![i].to = n]
<1>1. t \in [1 .. Len(t) -> VersionType] /\ Len(t) \in Nat
  OBVIOUS
<1>2. \A j \in 1 .. Len(t) : [t[j] EXCEPT !.to = n] \in VersionType
  BY <1>1, FieldsTyped
<1>3. u \in [1 .. Len(t) -> VersionType]
  BY <1>1, <1>2
<1>4. QED  BY <1>1, <1>3

LEMMA FixTyped ==
  ASSUME NEW t \in Seq(VersionType), NEW i \in Nat, NEW p \in Dates \cup {Null}
  PROVE  /\ [t EXCEPT ![i].published = p] \in Seq(VersionType)
         /\ Len([t EXCEPT ![i].published = p]) = Len(t)
<1> DEFINE u == [t EXCEPT ![i].published = p]
<1>1. t \in [1 .. Len(t) -> VersionType] /\ Len(t) \in Nat
  OBVIOUS
<1>2. \A j \in 1 .. Len(t) : [t[j] EXCEPT !.published = p] \in VersionType
  BY <1>1, FieldsTyped
<1>3. u \in [1 .. Len(t) -> VersionType]
  BY <1>1, <1>2
<1>4. QED  BY <1>1, <1>3

\* A version added at the end keeps a table a table.
LEMMA AppendTyped ==
  ASSUME NEW t \in Seq(VersionType), NEW v \in VersionType
  PROVE  Append(t, v) \in Seq(VersionType)
OBVIOUS

LEMMA UnreadTyped == Unread \in [Keys -> OpenType]
BY DEF Unread, NoVersion, OpenType

LEMMA TypeCorrectInit == Init => TypeOK
BY UnreadTyped, FactsAssumption DEF Init, TypeOK

LEMMA TypeCorrectStep == TypeOK /\ [Next]_vars => TypeOK'
<1> SUFFICES ASSUME TypeOK, [Next]_vars PROVE TypeOK'
  OBVIOUS
<1> USE DEF TypeOK
<1>1. CASE Collect
  <2>1. PICK b \in Batches : batch' = b
    BY <1>1 DEF Collect
  <2>2. b \in Seq(Rows)
    BY FactsAssumption DEF Batches
  <2>3. left' \in Nat /\ now' \in Nat /\ from' \in Nat
    BY <1>1 DEF Collect
  <2>4. QED  BY <1>1, <2>1, <2>2, <2>3 DEF Collect
<1>2. CASE ReadOpen
  <2>1. ASSUME NEW i \in DOMAIN table PROVE Entry(i) \in OpenType
    <3>1. i \in Nat /\ table[i] \in VersionType
      OBVIOUS
    <3>2. table[i].value \in Values /\ table[i].published \in Dates \cup {Null}
      BY <3>1 DEF VersionType
    <3>3. QED  BY <3>1, <3>2 DEF Entry, OpenType
  <2>2. open' \in [Keys -> OpenType]
    <3>1. PICK ids \in [Keys -> 0 .. Len(table)] :
            /\ \A k \in Keys : IF OpenIds(table, k) = {} THEN ids[k] = 0
                                                         ELSE ids[k] \in OpenIds(table, k)
            /\ open' = [k \in Keys |-> IF ids[k] = 0 THEN NoVersion ELSE Entry(ids[k])]
      BY <1>2 DEF ReadOpen
    <3>2. NoVersion \in OpenType
      BY DEF NoVersion, OpenType
    <3>3. \A k \in Keys : ids[k] # 0 => ids[k] \in DOMAIN table
      OBVIOUS
    <3>4. QED  BY <2>1, <3>1, <3>2, <3>3
  <2>3. QED  BY <1>2, <2>2 DEF ReadOpen
<1>3. CASE Walk
  <2> DEFINE row == batch[done + 1]
  <2>1. row \in Rows /\ done + 1 <= Len(batch)
    BY <1>3 DEF Walk
  <2>2. row.key \in Keys /\ row.published \in Dates \cup {Null}
    BY <2>1 DEF Rows
  <2>3. Version(row) \in VersionType
    BY <2>1, VersionTyped
  <2>4. open[row.key].id \in Nat
    BY <2>2 DEF OpenType
  <2>5. draft' \in Seq(VersionType)
    <3>1. CASE New(row)
      BY <2>3, <3>1, SMTT(30) DEF New
    <3>2. CASE Unchanged(row)
      BY <2>2, <2>4, <3>2, FixTyped DEF Unchanged
    <3>3. CASE Restate(row)
      <4>1. [draft EXCEPT ![open[row.key].id].to = at] \in Seq(VersionType)
        BY <2>4, CloseTyped
      <4>2. Append([draft EXCEPT ![open[row.key].id].to = at], Version(row)) \in Seq(VersionType)
        BY <2>3, <4>1, AppendTyped
      <4>3. QED  BY <3>3, <4>2 DEF Restate
    <3>4. QED  BY <1>3, <3>1, <3>2, <3>3 DEF Walk
  <2>6. QED  BY <1>3, <2>1, <2>5 DEF Walk
<1>4. CASE Commit
  <2>1. told' \in [Keys -> Rows \cup {Null}]
    <3>1. ASSUME NEW k \in Keys, Heard(k)
          PROVE  batch[CHOOSE i \in DOMAIN batch : batch[i].key = k] \in Rows
      BY <3>1 DEF Heard
    <3>2. QED  BY <1>4, <3>1 DEF Commit
  <2>2. QED  BY <1>4, <2>1, UnreadTyped DEF Commit
<1>5. CASE RollBack
  BY <1>5, UnreadTyped DEF RollBack
<1>6. CASE UNCHANGED vars
  BY <1>6 DEF vars, run
<1>7. QED  BY <1>1, <1>2, <1>3, <1>4, <1>5, <1>6 DEF Next

\* Every variable keeps its type, for every vocabulary of facts and every batch.
THEOREM TypeCorrect == Spec => []TypeOK
<1>1. QED  BY TypeCorrectInit, TypeCorrectStep, PTL DEF Spec

-----------------------------------------------------------------------------
(* One open version *)

OneOpen(t) ==
  \A i, j \in DOMAIN t : t[i].key = t[j].key /\ IsOpen(t[i]) /\ IsOpen(t[j]) => i = j

Reached(k) == \E i \in 1 .. done : batch[i].key = k

\* A key that was not reached has no open version but the one open_by_key names.
OpenIsKnown ==
  \A k \in Keys, i \in DOMAIN draft :
    ~Reached(k) /\ draft[i].key = k /\ IsOpen(draft[i]) => i = open[k].id

OpenInv ==
  /\ OneOpen(table)
  /\ pc # "idle" => NoRepeats(batch)
  /\ pc = "walk" => OneOpen(draft) /\ OpenIsKnown

\* What one row of the batch does to the open versions: those of other keys are
\* untouched, and its own key has one afterwards.
LEMMA WalkOpens ==
  ASSUME TypeOK, NEW row \in Rows,
         OneOpen(draft),
         \A i \in DOMAIN draft : draft[i].key = row.key /\ IsOpen(draft[i]) => i = open[row.key].id,
         (open[row.key] = NoVersion /\ New(row)) \/ Unchanged(row) \/ Restate(row)
  PROVE  /\ OneOpen(draft')
         /\ \A i \in DOMAIN draft' :
              draft'[i].key # row.key /\ IsOpen(draft'[i]) =>
                i \in DOMAIN draft /\ draft[i].key = draft'[i].key /\ IsOpen(draft[i])
<1> DEFINE n == open[row.key].id
           new == Version(row)
<1>1. row.key \in Keys /\ n \in Nat /\ at \in Nat /\ from \in Nat
  BY DEF TypeOK, Rows, OpenType
<1>2. draft \in Seq(VersionType) /\ new \in VersionType /\ new.key = row.key
  BY <1>1, VersionTyped DEF TypeOK, Version
<1>3. CASE open[row.key] = NoVersion /\ New(row)
  <2>1. draft' = Append(draft, new)
    BY <1>3 DEF New
  <2>2. \A i \in DOMAIN draft : ~(draft[i].key = row.key /\ IsOpen(draft[i]))
    BY <1>2, <1>3 DEF NoVersion
  <2>3. /\ Len(draft') = Len(draft) + 1 /\ DOMAIN draft' = 1 .. Len(draft) + 1
        /\ draft'[Len(draft) + 1] = new
        /\ \A i \in 1 .. Len(draft) : draft'[i] = draft[i]
    BY <1>2, <2>1
  <2>4. QED  BY <1>2, <2>2, <2>3, SMTT(30) DEF OneOpen
<1>4. CASE Unchanged(row)
  <2>1. CASE draft' = draft
    BY <2>1
  <2>2. CASE draft' = [draft EXCEPT ![n].published = row.published]
    <3>1. DOMAIN draft' = DOMAIN draft
      BY <2>2
    <3>2. \A i \in DOMAIN draft : draft'[i].key = draft[i].key /\ draft'[i].to = draft[i].to
      BY <1>2, <2>2 DEF VersionType
    <3>3. QED  BY <3>1, <3>2 DEF OneOpen, IsOpen
  <2>3. QED  BY <1>4, <2>1, <2>2 DEF Unchanged
<1>5. CASE Restate(row)
  <2> DEFINE mid == [draft EXCEPT ![n].to = at]
  <2>1. mid \in Seq(VersionType) /\ Len(mid) = Len(draft)
    BY <1>1, <1>2, CloseTyped
  <2>2. draft' = Append(mid, new)
    BY <1>5 DEF Restate
  <2>3. \A i \in 1 .. Len(draft) : mid[i].key = draft[i].key
    BY <1>2 DEF VersionType
  <2>4. \A i \in 1 .. Len(draft) : i # n => mid[i] = draft[i]
    BY <1>2
  <2>5. n \in 1 .. Len(draft) => mid[n].to = at
    BY <1>2 DEF VersionType
  <2>6. at # Null
    BY <1>1, FactsAssumption
  <2>7. \A i \in 1 .. Len(draft) :
          IsOpen(mid[i]) => IsOpen(draft[i]) /\ draft[i].key # row.key
    BY <1>2, <2>4, <2>5, <2>6, SMTT(30) DEF IsOpen
  <2>8. /\ DOMAIN draft' = 1 .. Len(draft) + 1
        /\ draft'[Len(draft) + 1] = new
        /\ \A i \in 1 .. Len(draft) : draft'[i] = mid[i]
    <3>1. new \in VersionType /\ Len(draft) \in Nat
      BY <1>2
    <3> HIDE DEF mid, new
    <3>2. Len(draft') = Len(draft) + 1 /\ draft' \in Seq(VersionType)
      BY <2>1, <2>2, <3>1
    <3>3. draft'[Len(draft) + 1] = new
      BY <2>1, <2>2, <3>1
    <3>4. \A i \in 1 .. Len(draft) : draft'[i] = mid[i]
      BY <2>1, <2>2, <3>1
    <3>5. QED  BY <3>1, <3>2, <3>3, <3>4
  <2>11. DOMAIN draft = 1 .. Len(draft) /\ Len(draft) \in Nat
    BY <1>2
  <2> HIDE DEF mid, new
  <2>9. \A i \in DOMAIN draft' : IsOpen(draft'[i]) =>
          \/ i = Len(draft) + 1
          \/ /\ i \in 1 .. Len(draft) /\ draft'[i].key = draft[i].key
             /\ IsOpen(draft[i]) /\ draft[i].key # row.key
    BY <2>3, <2>7, <2>8, <2>11
  <2>10. draft'[Len(draft) + 1].key = row.key
    BY <1>2, <2>8
  <2>12. OneOpen(draft')
    BY <2>9, <2>10, <2>11 DEF OneOpen
  <2>13. QED  BY <2>9, <2>10, <2>11, <2>12
<1>6. QED  BY <1>3, <1>4, <1>5

LEMMA OpenInvStep ==
  ASSUME ~Repeats, TypeOK, OpenInv, [Next]_vars
  PROVE  OpenInv'
<1>1. CASE Collect
  BY <1>1 DEF Collect, OpenInv, OneOpen
<1>2. CASE ReadOpen
  <2>1. PICK ids \in [Keys -> 0 .. Len(table)] :
          /\ \A k \in Keys : IF OpenIds(table, k) = {} THEN ids[k] = 0
                                                       ELSE ids[k] \in OpenIds(table, k)
          /\ open' = [k \in Keys |-> IF ids[k] = 0 THEN NoVersion ELSE Entry(ids[k])]
    BY <1>2 DEF ReadOpen
  <2>2. \A k \in Keys : open'[k].id = ids[k]
    BY <2>1 DEF NoVersion, Entry
  <2>3. draft' = table /\ table' = table /\ pc' = "walk" /\ batch' = batch /\ pc = "read"
    BY <1>2 DEF ReadOpen
  <2>4. OpenIsKnown'
    <3> SUFFICES ASSUME NEW k \in Keys, NEW i \in DOMAIN table,
                        table[i].key = k, IsOpen(table[i])
                 PROVE  i = ids[k]
      BY <2>2, <2>3 DEF OpenIsKnown, IsOpen
    <3>1. i \in OpenIds(table, k)
      BY DEF OpenIds
    <3>2. ids[k] \in OpenIds(table, k)
      BY <2>1, <3>1
    <3>3. QED  BY <3>1, <3>2 DEF OpenIds, OpenInv, OneOpen
  <2>5. QED  BY <2>3, <2>4 DEF OpenInv, OneOpen, NoRepeats, IsOpen
<1>3. CASE Walk
  <2> DEFINE row == batch[done + 1]
  <2>1. /\ pc = "walk" /\ done < Len(batch) /\ done' = done + 1
        /\ UNCHANGED <<table, pc, batch, open>>
    BY <1>3 DEF Walk
  <2>10. (open[row.key] = NoVersion /\ New(row)) \/ Unchanged(row) \/ Restate(row)
    BY <1>3 DEF Walk
  <2>2. row \in Rows /\ row.key \in Keys /\ done \in Nat /\ batch \in Seq(Rows)
    <3>1. done \in Nat /\ batch \in Seq(Rows) /\ done + 1 \in 1 .. Len(batch)
      BY <2>1 DEF TypeOK
    <3>2. row \in Rows
      BY <3>1
    <3>3. QED  BY <3>1, <3>2 DEF Rows
  <2>3. OneOpen(draft) /\ OpenIsKnown /\ NoRepeats(batch)
    BY <2>1 DEF OpenInv
  <2>4. ~Reached(row.key)
    BY <2>1, <2>2, <2>3 DEF Reached, NoRepeats
  <2>5. \A i \in DOMAIN draft : draft[i].key = row.key /\ IsOpen(draft[i]) => i = open[row.key].id
    BY <2>2, <2>3, <2>4 DEF OpenIsKnown
  <2>6. /\ OneOpen(draft')
        /\ \A i \in DOMAIN draft' :
             draft'[i].key # row.key /\ IsOpen(draft'[i]) =>
               i \in DOMAIN draft /\ draft[i].key = draft'[i].key /\ IsOpen(draft[i])
    BY <2>2, <2>3, <2>5, <2>10, WalkOpens
  <2>7. \A k \in Keys : Reached(k)' <=> Reached(k) \/ k = row.key
    <3> SUFFICES ASSUME NEW k \in Keys PROVE Reached(k)' <=> Reached(k) \/ k = row.key
      OBVIOUS
    <3>1. Reached(k)' <=> \E i \in 1 .. done + 1 : batch[i].key = k
      BY <2>1 DEF Reached
    <3>2. 1 .. done + 1 = (1 .. done) \cup {done + 1}
      BY <2>2
    <3>3. QED  BY <3>1, <3>2 DEF Reached
  <2>8. OpenIsKnown'
    BY <2>1, <2>3, <2>6, <2>7 DEF OpenIsKnown, IsOpen
  <2>9. QED  BY <2>1, <2>3, <2>6, <2>8 DEF OpenInv, OneOpen, NoRepeats, IsOpen
<1>4. CASE Commit
  BY <1>4 DEF Commit, OpenInv, OneOpen, IsOpen
<1>5. CASE RollBack
  BY <1>5 DEF RollBack, OpenInv, OneOpen, IsOpen
<1>6. CASE UNCHANGED vars
  BY <1>6 DEF vars, run, OpenInv, OneOpen, OpenIsKnown, Reached, NoRepeats, IsOpen
<1>7. QED  BY <1>1, <1>2, <1>3, <1>4, <1>5, <1>6 DEF Next

\* While vendors list no fact twice in a batch, no sequence of runs, rolled back or
\* committed, leaves a fact with two open versions (ingest_financials).
THEOREM OneVersionOpen ==
  ASSUME ~Repeats
  PROVE  Spec => []OneOpenVersion
<1>1. Init => OpenInv
  BY DEF Init, OpenInv, OneOpen
<1>2. TypeOK /\ OpenInv /\ [Next]_vars => OpenInv'
  BY OpenInvStep
<1>3. OpenInv => OneOpenVersion
  BY DEF OpenInv, OneOpen, OneOpenVersion
<1>4. QED  BY <1>1, <1>2, <1>3, TypeCorrect, PTL DEF Spec

-----------------------------------------------------------------------------
(* History *)

\* Every entry of open_by_key is an open version of its key.
OpenAsRead ==
  \A k \in Keys : open[k] # NoVersion =>
    open[k].id \in OpenIds(table, k) /\ open[k] = Entry(open[k].id)

\* What the transaction may have done to the committed versions so far.
KeptIn(d) ==
  /\ Len(table) <= Len(d)
  /\ \A i \in DOMAIN table :
       /\ d[i].key = table[i].key /\ d[i].value = table[i].value
       /\ d[i].from = table[i].from
       /\ IsOpen(table[i]) \/ d[i] = table[i]

\* From its first version on, a fact has a version at every instant to come.
Covered(d) ==
  \A i \in DOMAIN d : \A t \in Nat : d[i].from <= t =>
    \E j \in DOMAIN d : d[j].key = d[i].key /\ ValidAt(d[j], t)

HistoryInv ==
  /\ Covered(table)
  /\ pc = "read" => from < now
  /\ pc = "walk" => from <= at /\ OpenAsRead /\ KeptIn(draft) /\ Covered(draft)

\* What one row of the batch does, version by version: it changes the version
\* open_by_key names for its key and no other, closing it only to open a successor.
LEMMA WalkPoints ==
  ASSUME TypeOK, NEW row \in Rows,
         \/ open[row.key] = NoVersion /\ New(row)
         \/ open[row.key] # NoVersion /\ Unchanged(row)
         \/ open[row.key] # NoVersion /\ Restate(row)
  PROVE  /\ draft \in Seq(VersionType) /\ draft' \in Seq(VersionType)
         /\ \/ Len(draft') = Len(draft)
            \/ /\ Len(draft') = Len(draft) + 1
               /\ draft'[Len(draft) + 1] = Version(row)
         /\ \A i \in DOMAIN draft :
              /\ draft'[i].key = draft[i].key /\ draft'[i].value = draft[i].value
              /\ draft'[i].from = draft[i].from
              /\ \/ draft'[i] = draft[i]
                 \/ open[row.key] # NoVersion /\ i = open[row.key].id
              /\ \/ draft'[i].to = draft[i].to
                 \/ draft'[i].to = at /\ Len(draft') = Len(draft) + 1
<1> DEFINE n == open[row.key].id
           new == Version(row)
<1>3. row.key \in Keys /\ n \in Nat /\ at \in Nat /\ from \in Nat
  BY DEF Rows, TypeOK, OpenType
<1>4. draft \in Seq(VersionType) /\ new \in VersionType
  BY <1>3, VersionTyped DEF TypeOK
<1>5. CASE open[row.key] = NoVersion /\ New(row)
  <2>1. draft' = Append(draft, new)
    BY <1>5 DEF New
  <2>2. /\ Len(draft') = Len(draft) + 1 /\ draft'[Len(draft) + 1] = new
        /\ \A i \in DOMAIN draft : draft'[i] = draft[i]
        /\ draft' \in Seq(VersionType)
    BY <1>4, <2>1, SMTT(30)
  <2>3. QED  BY <1>4, <2>2
<1>6. CASE open[row.key] # NoVersion /\ Unchanged(row)
  <2>1. CASE draft' = draft
    BY <1>4, <2>1
  <2>2. CASE draft' = [draft EXCEPT ![n].published = row.published]
    <3>1. row.published \in Dates \cup {Null}
      BY DEF Rows
    <3>2. draft' \in Seq(VersionType) /\ Len(draft') = Len(draft)
      <4>1. /\ [draft EXCEPT ![n].published = row.published] \in Seq(VersionType)
            /\ Len([draft EXCEPT ![n].published = row.published]) = Len(draft)
        BY <1>3, <1>4, <3>1, FixTyped
      <4>2. QED  BY <2>2, <4>1
    <3>3. \A i \in DOMAIN draft : /\ draft'[i].key = draft[i].key
                                 /\ draft'[i].value = draft[i].value
                                 /\ draft'[i].from = draft[i].from
                                 /\ draft'[i].to = draft[i].to
      BY <1>4, <2>2 DEF VersionType
    <3>4. \A i \in DOMAIN draft : i # n => draft'[i] = draft[i]
      BY <2>2
    <3>5. QED  BY <1>4, <1>6, <3>2, <3>3, <3>4
  <2>3. QED  BY <1>6, <2>1, <2>2 DEF Unchanged
<1>7. CASE open[row.key] # NoVersion /\ Restate(row)
  <2> DEFINE mid == [draft EXCEPT ![n].to = at]
  <2>2. mid \in Seq(VersionType) /\ Len(mid) = Len(draft)
    BY <1>3, <1>4, CloseTyped
  <2>3. draft' = Append(mid, new)
    BY <1>7 DEF Restate
  <2>4. \A i \in DOMAIN draft : /\ mid[i].key = draft[i].key /\ mid[i].value = draft[i].value
                               /\ mid[i].from = draft[i].from
    BY <1>4 DEF VersionType
  <2>5. \A i \in DOMAIN draft : i # n => mid[i] = draft[i]
    BY <1>4
  <2>1. n \in 1 .. Len(draft) => mid[n].to = at
    BY <1>4 DEF VersionType
  <2>11. DOMAIN draft = 1 .. Len(draft)
    BY <1>4
  <2> HIDE DEF mid, new
  <2>6. /\ draft' \in Seq(VersionType) /\ Len(draft') = Len(draft) + 1
        /\ draft'[Len(draft) + 1] = new
        /\ \A i \in DOMAIN draft : draft'[i] = mid[i]
    BY <1>4, <2>2, <2>3
  <2>8. \A i \in DOMAIN draft : /\ draft'[i].key = draft[i].key
                               /\ draft'[i].value = draft[i].value
                               /\ draft'[i].from = draft[i].from
    BY <2>4, <2>6
  <2>9. \A i \in DOMAIN draft : /\ (draft'[i] = draft[i] \/ i = n)
                               /\ (draft'[i].to = draft[i].to \/ draft'[i].to = at)
    <3> SUFFICES ASSUME NEW i \in DOMAIN draft
                 PROVE  /\ (draft'[i] = draft[i] \/ i = n)
                        /\ (draft'[i].to = draft[i].to \/ draft'[i].to = at)
      OBVIOUS
    <3>1. CASE i = n
      BY <2>1, <2>6, <2>11, <3>1
    <3>2. CASE i # n
      BY <2>5, <2>6, <3>2
    <3>3. QED  BY <3>1, <3>2
  <2>7. QED  BY <1>4, <1>7, <2>6, <2>8, <2>9 DEF new
<1> HIDE DEF n, new
<1>9. QED  BY <1>5, <1>6, <1>7

\* e is d with at most one version more, of the key k, valid from f on; only then
\* may versions of that key have been closed, at a.
Extends(e, d, k, f, a, added) ==
  /\ DOMAIN d \subseteq DOMAIN e
  /\ \A i \in DOMAIN e : i \notin DOMAIN d => i = added
  /\ added \in DOMAIN e => e[added].key = k /\ e[added].from = f /\ e[added].to = Null
  /\ \A i \in DOMAIN d :
       /\ e[i].key = d[i].key /\ e[i].from = d[i].from
       /\ \/ e[i].to = d[i].to
          \/ e[i].to = a /\ e[i].key = k /\ added \in DOMAIN e

\* A version added behind the others, valid from an instant not after the one at
\* which its predecessor ends, leaves no gap.
LEMMA NoGap ==
  ASSUME NEW d \in Seq(VersionType), NEW e \in Seq(VersionType), NEW k, NEW f \in Nat,
         NEW a \in Nat, NEW added, f <= a, Covered(d), Extends(e, d, k, f, a, added)
  PROVE  Covered(e)
<1> USE DEF Extends
<1>2. \A i \in DOMAIN e : e[i].from \in Nat /\ e[i].to \in Nat \cup {Null}
  BY FieldsOf
<1>3. SUFFICES ASSUME NEW i \in DOMAIN e, NEW t \in Nat, e[i].from <= t
               PROVE  \E j \in DOMAIN e : e[j].key = e[i].key /\ ValidAt(e[j], t)
  BY DEF Covered
<1>4. CASE i \notin DOMAIN d
  <2>1. i = added /\ e[i].to = Null
    BY <1>4
  <2>2. ValidAt(e[i], t)
    BY <1>3, <2>1 DEF ValidAt, IsOpen
  <2>3. QED  BY <2>2
<1>5. CASE i \in DOMAIN d
  <2>1. PICK j \in DOMAIN d : d[j].key = d[i].key /\ ValidAt(d[j], t)
    BY <1>3, <1>5 DEF Covered
  <2>2. j \in DOMAIN e /\ e[j].key = e[i].key /\ e[j].from <= t
    <3>1. d[j].from <= t
      BY <2>1 DEF ValidAt
    <3>2. QED  BY <1>5, <2>1, <3>1
  <2>3. CASE e[j].to = d[j].to
    BY <2>1, <2>2, <2>3 DEF ValidAt, IsOpen
  <2>4. CASE e[j].to = a /\ e[j].key = k /\ added \in DOMAIN e
    <3>1. CASE t < a
      BY <2>2, <2>4, <3>1 DEF ValidAt
    <3>2. CASE ~(t < a)
      <4>1. added \in DOMAIN e /\ e[added].key = e[i].key /\ e[added].from = f
            /\ e[added].to = Null
        BY <2>2, <2>4
      <4>2. e[added].from <= t
        BY <3>2, <4>1
      <4>3. QED  BY <4>1, <4>2 DEF ValidAt, IsOpen
    <3>3. QED  BY <3>1, <3>2
  <2>5. QED  BY <2>1, <2>3, <2>4
<1>6. QED  BY <1>4, <1>5

LEMMA ReadAsStored ==
  ASSUME TypeOK, ReadOpen
  PROVE  /\ OpenAsRead'
         /\ \A k \in Keys : OpenIds(table, k) # {} => open'[k] # NoVersion
<1>1. PICK ids \in [Keys -> 0 .. Len(table)] :
        /\ \A k \in Keys : IF OpenIds(table, k) = {} THEN ids[k] = 0
                                                     ELSE ids[k] \in OpenIds(table, k)
        /\ open' = [k \in Keys |-> IF ids[k] = 0 THEN NoVersion ELSE Entry(ids[k])]
  BY DEF ReadOpen
<1>2. table' = table
  BY DEF ReadOpen
<1>3. \A i : Entry(i).id = i /\ Entry(i)' = Entry(i)
  BY <1>2 DEF Entry
<1>4. NoVersion.id = 0
  BY DEF NoVersion
<1>5. \A k \in Keys : \A i \in OpenIds(table, k) : i # 0
  BY DEF OpenIds, TypeOK
<1>6. ASSUME NEW k \in Keys, open'[k] # NoVersion
      PROVE  open'[k].id \in OpenIds(table, k) /\ open'[k] = Entry(open'[k].id)
  <2>1. ids[k] # 0 /\ open'[k] = Entry(ids[k])
    BY <1>1, <1>6
  <2>2. ids[k] \in OpenIds(table, k)
    BY <1>1, <2>1
  <2>3. QED  BY <1>3, <2>1, <2>2
<1>7. \A k \in Keys : OpenIds(table, k)' = OpenIds(table, k)
  BY <1>2 DEF OpenIds, IsOpen
<1>8. OpenAsRead'
  BY <1>3, <1>6, <1>7 DEF OpenAsRead, NoVersion
<1>9. ASSUME NEW k \in Keys, OpenIds(table, k) # {} PROVE open'[k] # NoVersion
  <2>1. ids[k] \in OpenIds(table, k)
    BY <1>1, <1>9
  <2>2. open'[k].id = ids[k]
    BY <1>1, <1>3, <1>5, <2>1
  <2>3. QED  BY <1>4, <1>5, <2>1, <2>2
<1>10. QED  BY <1>8, <1>9

LEMMA HistoryInvStep == TypeOK /\ HistoryInv /\ [Next]_vars => HistoryInv'
<1> SUFFICES ASSUME TypeOK, HistoryInv, [Next]_vars PROVE HistoryInv'
  OBVIOUS
<1>1. CASE Collect
  BY <1>1 DEF Collect, HistoryInv, TypeOK, Covered, ValidAt, IsOpen
<1>2. CASE ReadOpen
  <2>1. /\ pc = "read" /\ pc' = "walk" /\ table' = table /\ draft' = table
        /\ from' = from /\ at' = now
    BY <1>2 DEF ReadOpen
  <2>2. from <= at' /\ Covered(table)
    BY <2>1 DEF HistoryInv, TypeOK
  <2>3. KeptIn(draft)' /\ Covered(draft)' /\ Covered(table)'
    BY <2>1, <2>2 DEF KeptIn, Covered, ValidAt, IsOpen, TypeOK
  <2>4. QED  BY <1>2, <2>1, <2>2, <2>3, ReadAsStored DEF HistoryInv
<1>3. CASE Walk
  <2> DEFINE row == batch[done + 1]
  <2>1. pc = "walk" /\ UNCHANGED <<pc, table, from, at, open, now>>
    BY <1>3 DEF Walk
  <2>2. OpenAsRead /\ KeptIn(draft) /\ Covered(draft) /\ Covered(table) /\ from <= at
    BY <2>1 DEF HistoryInv
  <2>14. row \in Rows
    BY <1>3 DEF Walk, TypeOK
  <2>3. /\ draft \in Seq(VersionType) /\ draft' \in Seq(VersionType)
        /\ \/ Len(draft') = Len(draft)
           \/ /\ Len(draft') = Len(draft) + 1
              /\ draft'[Len(draft) + 1] = Version(row)
        /\ \A i \in DOMAIN draft :
             /\ draft'[i].key = draft[i].key /\ draft'[i].value = draft[i].value
             /\ draft'[i].from = draft[i].from
             /\ \/ draft'[i] = draft[i]
                \/ open[row.key] # NoVersion /\ i = open[row.key].id
             /\ \/ draft'[i].to = draft[i].to
                \/ draft'[i].to = at /\ Len(draft') = Len(draft) + 1
    <3>1. \/ open[row.key] = NoVersion /\ New(row)
          \/ open[row.key] # NoVersion /\ Unchanged(row)
          \/ open[row.key] # NoVersion /\ Restate(row)
      BY <1>3 DEF Walk
    <3> HIDE DEF row
    <3>2. QED  BY <2>14, <3>1, WalkPoints
  <2> HIDE DEF row
  <2>4. row.key \in Keys
    BY <2>14 DEF Rows
  <2>5. open[row.key] # NoVersion =>
          /\ open[row.key].id \in DOMAIN table /\ IsOpen(table[open[row.key].id])
          /\ table[open[row.key].id].key = row.key
    BY <2>2, <2>4 DEF OpenAsRead, OpenIds
  <2>15. /\ Len(table) \in Nat /\ Len(draft) \in Nat /\ Len(draft') \in Nat
         /\ from \in Nat /\ at \in Nat
    BY <2>3 DEF TypeOK
  <2>6. /\ DOMAIN table = 1 .. Len(table) /\ DOMAIN draft = 1 .. Len(draft)
        /\ DOMAIN draft' = 1 .. Len(draft') /\ DOMAIN table \subseteq DOMAIN draft
    BY <2>2, <2>3 DEF TypeOK, KeptIn
  <2>7. KeptIn(draft)'
    <3>1. \A i \in DOMAIN table : /\ draft'[i].key = table[i].key
                                 /\ draft'[i].value = table[i].value
                                 /\ draft'[i].from = table[i].from
      BY <2>2, <2>3, <2>6, ZenonT(40) DEF KeptIn
    <3>2. \A i \in DOMAIN table : IsOpen(table[i]) \/ draft'[i] = table[i]
      BY <2>2, <2>3, <2>5, <2>6 DEF KeptIn
    <3>3. Len(table) <= Len(draft')
      <4>1. Len(table) <= Len(draft)
        BY <2>2 DEF KeptIn
      <4>2. Len(draft') = Len(draft) \/ Len(draft') = Len(draft) + 1
        BY <2>3
      <4>3. QED  BY <2>15, <4>1, <4>2
    <3>4. QED  BY <2>1, <3>1, <3>2, <3>3, SMTT(30) DEF KeptIn, IsOpen
  <2>8. Version(row).key = row.key /\ Version(row).from = from /\ Version(row).to = Null
    BY DEF Version
  <2> DEFINE added == Len(draft) + 1
  <2>16. \/ /\ DOMAIN draft' = DOMAIN draft /\ added \notin DOMAIN draft
            /\ Len(draft') # added
         \/ /\ DOMAIN draft' = DOMAIN draft \cup {added} /\ Len(draft') = added
            /\ draft'[added] = Version(row)
    <3>1. CASE Len(draft') = Len(draft)
      BY <2>15, <3>1
    <3>2. CASE Len(draft') = Len(draft) + 1 /\ draft'[Len(draft) + 1] = Version(row)
      <4>1. 1 .. Len(draft) + 1 = (1 .. Len(draft)) \cup {Len(draft) + 1}
        BY <2>15
      <4>2. QED  BY <2>3, <3>2, <4>1
    <3>3. QED  BY <2>3, <3>1, <3>2
  <2>17. added \in Nat
    BY <2>15
  <2> HIDE DEF added
  <2>9. \A i \in DOMAIN draft :
          /\ draft'[i].key = draft[i].key /\ draft'[i].from = draft[i].from
          /\ \/ draft'[i].to = draft[i].to
             \/ draft'[i].to = at /\ draft'[i].key = row.key /\ added \in DOMAIN draft'
    <3> SUFFICES ASSUME NEW i \in DOMAIN draft, draft'[i].to # draft[i].to
                 PROVE  /\ draft'[i].to = at /\ draft'[i].key = row.key
                        /\ added \in DOMAIN draft'
      BY <2>3
    <3>1. open[row.key] # NoVersion /\ i = open[row.key].id
      BY <2>3
    <3>2. draft[i].key = table[i].key /\ table[i].key = row.key
      BY <2>2, <2>5, <3>1 DEF KeptIn
    <3>3. draft'[i].to = at /\ Len(draft') = added
      BY <2>3 DEF added
    <3>4. QED  BY <2>3, <2>16, <3>2, <3>3
  <2>10. /\ added \in Nat /\ DOMAIN draft \subseteq DOMAIN draft'
         /\ \A i \in DOMAIN draft' : i \notin DOMAIN draft => i = added
         /\ added \in DOMAIN draft' => draft'[added] = Version(row)
    BY <2>16, <2>17
  <2>18. added \in DOMAIN draft' =>
           draft'[added].key = row.key /\ draft'[added].from = from /\ draft'[added].to = Null
    BY <2>8, <2>10
  <2>19. draft \in Seq(VersionType) /\ draft' \in Seq(VersionType)
    BY <2>3
  <2>20. /\ from \in Nat /\ at \in Nat /\ from <= at /\ Covered(draft)
    BY <2>2, <2>15
  <2> HIDE DEF row
  <2>11. Covered(draft')
    <3>1. Extends(draft', draft, row.key, from, at, added)
      BY <2>9, <2>10, <2>18 DEF Extends
    <3>2. QED  BY <2>19, <2>20, <3>1, NoGap
  <2>12. Covered(draft)' /\ Covered(table)' /\ OpenAsRead'
    BY <2>1, <2>2, <2>11 DEF Covered, ValidAt, IsOpen, OpenAsRead, OpenIds, Entry, NoVersion
  <2>13. QED  BY <2>1, <2>2, <2>7, <2>12 DEF HistoryInv
<1>4. CASE Commit
  BY <1>4 DEF Commit, HistoryInv, Covered, ValidAt, IsOpen
<1>5. CASE RollBack
  BY <1>5 DEF RollBack, HistoryInv, Covered, ValidAt, IsOpen
<1>6. CASE UNCHANGED vars
  BY <1>6 DEF vars, run, HistoryInv, Covered, ValidAt, IsOpen, OpenAsRead, OpenIds, Entry,
              NoVersion, KeptIn
<1>7. QED  BY <1>1, <1>2, <1>3, <1>4, <1>5, <1>6 DEF Next

LEMMA HistoryHolds == Spec => []HistoryInv
<1>1. Init => HistoryInv
  BY DEF Init, HistoryInv, Covered
<1>2. QED  BY <1>1, HistoryInvStep, TypeCorrect, PTL DEF Spec

\* From its first version on, a fact has a version at every instant, so the as-of
\* query finds one whatever was restated, repeated or rolled back.
THEOREM AsOfNeverMisses == Spec => []AsOfAlwaysFinds
<1>1. TypeOK /\ HistoryInv => AsOfAlwaysFinds
  <2> SUFFICES ASSUME TypeOK, HistoryInv,
                      NEW i \in DOMAIN table, NEW t \in table[i].from .. now
               PROVE  \E j \in DOMAIN table :
                        table[j].key = table[i].key /\ ValidAt(table[j], t)
    BY DEF AsOfAlwaysFinds
  <2>1. table[i].from \in Nat
    BY FieldsOf DEF TypeOK
  <2>2. t \in Nat /\ table[i].from <= t
    BY <2>1 DEF TypeOK
  <2>3. QED  BY <2>2 DEF HistoryInv, Covered
<1>2. QED  BY <1>1, HistoryHolds, TypeCorrect, PTL

\* No run, committed or rolled back, removes a version, changes a closed one or
\* rewrites the key, the value or the first instant of an open one.
THEOREM HistoryIsNeverRewritten == Spec => HistoryIsFrozen
<1> DEFINE Frozen ==
      \A i \in DOMAIN table :
        /\ i \in DOMAIN table'
        /\ IsOpen(table[i]) \/ table'[i] = table[i]
        /\ <<table'[i].key, table'[i].value, table'[i].from>>
             = <<table[i].key, table[i].value, table[i].from>>
<1>1. TypeOK /\ HistoryInv /\ [Next]_vars => [Frozen]_table
  <2> SUFFICES ASSUME TypeOK, HistoryInv, [Next]_vars, table' # table PROVE Frozen
    OBVIOUS
  <2>1. Commit
    BY DEF Next, Collect, ReadOpen, Walk, RollBack, vars
  <2>2. table' = draft /\ KeptIn(draft)
    BY <2>1 DEF Commit, HistoryInv
  <2>3. \A i \in DOMAIN table : i \in DOMAIN draft
    BY <2>2 DEF KeptIn, TypeOK
  <2>4. QED  BY <2>2, <2>3 DEF KeptIn
<1>2. QED  BY <1>1, HistoryHolds, TypeCorrect, PTL DEF Spec, HistoryIsFrozen

-----------------------------------------------------------------------------
(* What the vendor said last *)

ToldIsOpen(d, k, said) ==
  \E i \in OpenIds(d, k) : d[i].value = Stored(said.value) /\ d[i].published = said.published

\* The committed versions of a key stay as they are until a row of the key is walked.
UntouchedTillReached ==
  \A i \in DOMAIN table : ~Reached(table[i].key) => draft[i] = table[i]

\* Every key with an open version was read.
AllRead == \A k \in Keys : OpenIds(table, k) # {} => open[k] # NoVersion

\* The open version of a key is what was said of it last: by the batch, if a row of
\* the key was walked, otherwise by the runs that committed.
LatestInv ==
  /\ \A k \in Keys : told[k] # Null => ToldIsOpen(table, k, told[k])
  /\ pc = "walk" =>
       /\ UntouchedTillReached /\ AllRead
       /\ \A i \in 1 .. done : ToldIsOpen(draft, batch[i].key, batch[i])
       /\ \A k \in Keys : ~Reached(k) /\ told[k] # Null => ToldIsOpen(draft, k, told[k])

\* A walked row leaves its key with an open version that says what the row says.
LEMMA RowIsOpen ==
  ASSUME TypeOK, OpenAsRead, UntouchedTillReached, KeptIn(draft), NEW row \in Rows,
         ~Reached(row.key),
         \/ open[row.key] = NoVersion /\ New(row)
         \/ open[row.key] # NoVersion /\ SameValue(row) /\ Unchanged(row)
         \/ open[row.key] # NoVersion /\ ~SameValue(row) /\ Restate(row)
  PROVE  ToldIsOpen(draft', row.key, row)
<1> DEFINE n == open[row.key].id
           new == Version(row)
<1>1. /\ row.key \in Keys /\ row.value \in Values \cup Fine
      /\ row.published \in Dates \cup {Null} /\ n \in Nat /\ at \in Nat /\ from \in Nat
  BY DEF Rows, TypeOK, OpenType
<1>2. draft \in Seq(VersionType) /\ table \in Seq(VersionType) /\ new \in VersionType
  BY <1>1, VersionTyped DEF TypeOK
<1>3. /\ new.key = row.key /\ new.to = Null /\ new.value = Stored(row.value)
      /\ new.published = row.published
  BY DEF Version
<1>4. ASSUME NEW d \in Seq(VersionType), draft' = Append(d, new)
      PROVE  ToldIsOpen(draft', row.key, row)
  <2> HIDE DEF new
  <2>1. Len(d) + 1 \in DOMAIN draft' /\ draft'[Len(d) + 1] = new
    BY <1>2, <1>4
  <2>2. Len(d) + 1 \in OpenIds(draft', row.key)
    BY <1>3, <2>1 DEF OpenIds, IsOpen
  <2>3. QED  BY <1>3, <2>1, <2>2 DEF ToldIsOpen
<1>5. CASE open[row.key] = NoVersion /\ New(row)
  BY <1>2, <1>4, <1>5 DEF New
<1>6. CASE Restate(row)
  <2>1. [draft EXCEPT ![n].to = at] \in Seq(VersionType)
    BY <1>1, <1>2, CloseTyped
  <2>2. draft' = Append([draft EXCEPT ![n].to = at], new)
    BY <1>6 DEF Restate
  <2> HIDE DEF n, new
  <2>3. QED  BY <1>4, <2>1, <2>2
<1>7. CASE open[row.key] # NoVersion /\ SameValue(row) /\ Unchanged(row)
  <2>1. /\ n \in OpenIds(table, row.key) /\ open[row.key].value = table[n].value
        /\ open[row.key].published = table[n].published
    <3>1. n \in OpenIds(table, row.key) /\ open[row.key] = Entry(n)
      BY <1>1, <1>7 DEF OpenAsRead
    <3>2. Entry(n).value = table[n].value /\ Entry(n).published = table[n].published
      BY DEF Entry
    <3>3. QED  BY <3>1, <3>2
  <2>2. /\ n \in DOMAIN table /\ table[n].key = row.key /\ IsOpen(table[n])
    BY <2>1 DEF OpenIds
  <2>3. n \in DOMAIN draft /\ draft[n] = table[n]
    <3>1. Len(table) <= Len(draft)
      BY DEF KeptIn
    <3>2. QED  BY <1>2, <2>2, <3>1 DEF UntouchedTillReached
  <2>4. row.value = table[n].value /\ row.value \in Values
    <3>1. table[n] \in VersionType
      BY <1>2, <2>2
    <3>2. table[n].value \in Values
      BY <3>1 DEF VersionType
    <3>3. QED  BY <1>7, <2>1, <3>2 DEF SameValue
  <2>5. Stored(row.value) = row.value
    BY <2>4, FactsAssumption DEF Stored
  <2>6. CASE open[row.key].published = row.published
    <3>1. draft' = draft
      BY <1>7, <2>6 DEF Unchanged
    <3>2. n \in OpenIds(draft', row.key) /\ draft'[n] = table[n]
      BY <2>2, <2>3, <3>1 DEF OpenIds
    <3> HIDE DEF n
    <3>3. QED  BY <2>1, <2>4, <2>5, <2>6, <3>2 DEF ToldIsOpen
  <2>7. CASE open[row.key].published # row.published
    <3>1. draft' = [draft EXCEPT ![n].published = row.published]
      BY <1>7, <2>7 DEF Unchanged
    <3>2. draft[n] \in VersionType
      BY <1>2, <2>3
    <3>3. /\ n \in DOMAIN draft' /\ draft'[n].published = row.published
          /\ draft'[n].key = draft[n].key /\ draft'[n].to = draft[n].to
          /\ draft'[n].value = draft[n].value
      BY <2>3, <3>1, <3>2 DEF VersionType
    <3> HIDE DEF n
    <3>4. n \in OpenIds(draft', row.key)
      BY <2>2, <2>3, <3>3 DEF OpenIds, IsOpen
    <3>5. QED  BY <2>3, <2>4, <2>5, <3>3, <3>4 DEF ToldIsOpen
  <2>8. QED  BY <2>6, <2>7
<1>8. QED  BY <1>5, <1>6, <1>7

\* A walked row leaves the versions of other keys alone.
LEMMA OtherKeysStay ==
  ASSUME TypeOK, OpenAsRead, KeptIn(draft), NEW row \in Rows,
         \/ open[row.key] = NoVersion /\ New(row)
         \/ open[row.key] # NoVersion /\ Unchanged(row)
         \/ open[row.key] # NoVersion /\ Restate(row)
  PROVE  /\ DOMAIN draft \subseteq DOMAIN draft'
         /\ \A i \in DOMAIN draft : draft[i].key # row.key => draft'[i] = draft[i]
<1>1. /\ draft \in Seq(VersionType) /\ draft' \in Seq(VersionType)
      /\ Len(draft') = Len(draft) \/ Len(draft') = Len(draft) + 1
      /\ \A i \in DOMAIN draft :
           \/ draft'[i] = draft[i]
           \/ open[row.key] # NoVersion /\ i = open[row.key].id
  BY WalkPoints
<1>2. row.key \in Keys
  BY DEF Rows
<1>3. open[row.key] # NoVersion =>
        open[row.key].id \in DOMAIN table /\ table[open[row.key].id].key = row.key
  BY <1>2 DEF OpenAsRead, OpenIds
<1>4. \A i \in DOMAIN draft : draft[i].key # row.key => draft'[i] = draft[i]
  BY <1>1, <1>3 DEF KeptIn
<1>5. DOMAIN draft \subseteq DOMAIN draft'
  <2>1. Len(draft) <= Len(draft') /\ Len(draft) \in Nat /\ Len(draft') \in Nat
    BY <1>1
  <2>2. QED  BY <1>1, <2>1
<1>6. QED  BY <1>4, <1>5

LEMMA LatestInvStep ==
  ASSUME ~Repeats, TypeOK, OpenInv, HistoryInv, LatestInv, [Next]_vars
  PROVE  LatestInv'
<1>1. CASE Collect
  BY <1>1 DEF Collect, LatestInv, ToldIsOpen, OpenIds, IsOpen
<1>2. CASE ReadOpen
  <2>1. /\ pc' = "walk" /\ table' = table /\ draft' = table /\ told' = told
        /\ batch' = batch /\ done' = 0
    BY <1>2 DEF ReadOpen
  <2>2. AllRead'
    BY <1>2, <2>1, ReadAsStored DEF AllRead, OpenIds, IsOpen, NoVersion
  <2>3. QED  BY <2>1, <2>2 DEF LatestInv, ToldIsOpen, OpenIds, IsOpen, UntouchedTillReached
<1>3. CASE Walk
  <2> DEFINE row == batch[done + 1]
  <2>1. /\ pc = "walk" /\ done < Len(batch) /\ done' = done + 1
        /\ UNCHANGED <<pc, table, batch, open, told>>
    BY <1>3 DEF Walk
  <2>2. \/ open[row.key] = NoVersion /\ New(row)
        \/ open[row.key] # NoVersion /\ SameValue(row) /\ Unchanged(row)
        \/ open[row.key] # NoVersion /\ ~SameValue(row) /\ Restate(row)
    BY <1>3 DEF Walk
  <2>3. row \in Rows /\ row.key \in Keys /\ done \in Nat /\ batch \in Seq(Rows)
    <3>1. done \in Nat /\ batch \in Seq(Rows) /\ done + 1 \in 1 .. Len(batch)
      BY <2>1 DEF TypeOK
    <3>2. row \in Rows
      BY <3>1
    <3>3. QED  BY <3>1, <3>2 DEF Rows
  <2>4. OpenAsRead /\ KeptIn(draft) /\ NoRepeats(batch)
    BY <2>1 DEF HistoryInv, OpenInv
  <2>5. ~Reached(row.key)
    BY <2>1, <2>3, <2>4 DEF Reached, NoRepeats
  <2>6. /\ UntouchedTillReached /\ AllRead
        /\ \A i \in 1 .. done : ToldIsOpen(draft, batch[i].key, batch[i])
        /\ \A k \in Keys : ~Reached(k) /\ told[k] # Null => ToldIsOpen(draft, k, told[k])
        /\ \A k \in Keys : told[k] # Null => ToldIsOpen(table, k, told[k])
    BY <2>1 DEF LatestInv
  <2>7. \A k \in Keys : Reached(k)' <=> Reached(k) \/ k = row.key
    <3> SUFFICES ASSUME NEW k \in Keys PROVE Reached(k)' <=> Reached(k) \/ k = row.key
      OBVIOUS
    <3>1. Reached(k)' <=> \E i \in 1 .. done + 1 : batch[i].key = k
      BY <2>1 DEF Reached
    <3>2. 1 .. done + 1 = (1 .. done) \cup {done + 1}
      BY <2>3
    <3>3. QED  BY <3>1, <3>2 DEF Reached
  <2>14. 1 .. done' = (1 .. done) \cup {done + 1}
    BY <2>1, <2>3
  <2>15. \A i \in 1 .. done : Reached(batch[i].key)
    BY DEF Reached
  <2> HIDE DEF row
  <2>8. ToldIsOpen(draft', row.key, row)
    BY <2>2, <2>3, <2>4, <2>5, <2>6, RowIsOpen
  <2>9. /\ DOMAIN draft \subseteq DOMAIN draft'
        /\ \A i \in DOMAIN draft : draft[i].key # row.key => draft'[i] = draft[i]
    BY <2>2, <2>3, <2>4, OtherKeysStay
  <2>10. ASSUME NEW k, NEW said, k # row.key, ToldIsOpen(draft, k, said)
         PROVE  ToldIsOpen(draft', k, said)
    <3>1. PICK i \in OpenIds(draft, k) :
            draft[i].value = Stored(said.value) /\ draft[i].published = said.published
      BY <2>10 DEF ToldIsOpen
    <3>2. i \in DOMAIN draft' /\ draft'[i] = draft[i] /\ i \in OpenIds(draft', k)
      BY <2>9, <2>10, <3>1 DEF OpenIds
    <3>3. QED  BY <3>1, <3>2 DEF ToldIsOpen
  <2>11. UntouchedTillReached'
    <3> SUFFICES ASSUME NEW i \in DOMAIN table, ~Reached(table[i].key)'
                 PROVE  draft'[i] = table[i]
      BY <2>1 DEF UntouchedTillReached
    <3>1. table[i].key \in Keys
      BY FieldsOf DEF TypeOK
    <3>2. ~Reached(table[i].key) /\ table[i].key # row.key
      BY <2>1, <2>7, <3>1
    <3>3. draft[i] = table[i] /\ i \in DOMAIN draft
      BY <2>4, <2>6, <3>2 DEF UntouchedTillReached, KeptIn, TypeOK
    <3>4. QED  BY <2>9, <3>2, <3>3
  <2>12. AllRead'
    BY <2>1, <2>6 DEF AllRead, OpenIds, IsOpen, NoVersion
  <2>13. ASSUME NEW i \in 1 .. done'
         PROVE  ToldIsOpen(draft', batch[i].key, batch[i])
    <3>1. CASE i = done + 1
      BY <2>8, <3>1 DEF row
    <3>2. CASE i \in 1 .. done
      <4>1. batch[i].key # row.key
        BY <2>5, <2>15, <3>2
      <4>2. QED  BY <2>6, <2>10, <3>2, <4>1
    <3>3. QED  BY <2>13, <2>14, <3>1, <3>2
  <2>16. ASSUME NEW k \in Keys, ~Reached(k)', told[k] # Null
         PROVE  ToldIsOpen(draft', k, told[k])
    <3>1. ~Reached(k) /\ k # row.key
      BY <2>7, <2>16
    <3>2. QED  BY <2>6, <2>10, <2>16, <3>1
  <2>18. QED  BY <2>1, <2>6, <2>11, <2>12, <2>13, <2>16
              DEF LatestInv, ToldIsOpen, OpenIds, IsOpen
<1>4. CASE Commit
  <2>1. /\ pc = "walk" /\ pc' = "idle" /\ done = Len(batch) /\ table' = draft
        /\ told' = [k \in Keys |-> IF Heard(k) THEN batch[CHOOSE i \in DOMAIN batch : batch[i].key = k]
                                   ELSE told[k]]
    BY <1>4 DEF Commit
  <2>2. /\ \A i \in 1 .. done : ToldIsOpen(draft, batch[i].key, batch[i])
        /\ \A k \in Keys : ~Reached(k) /\ told[k] # Null => ToldIsOpen(draft, k, told[k])
    BY <2>1 DEF LatestInv
  <2>3. DOMAIN batch = 1 .. done
    BY <2>1 DEF TypeOK
  <2>4. ASSUME NEW k \in Keys, told'[k] # Null PROVE ToldIsOpen(draft, k, told'[k])
    <3>1. CASE Heard(k)
      <4> DEFINE i == CHOOSE j \in DOMAIN batch : batch[j].key = k
      <4>1. i \in DOMAIN batch /\ batch[i].key = k
        BY <3>1 DEF Heard
      <4>2. told'[k] = batch[i]
        BY <2>1, <3>1
      <4> HIDE DEF i
      <4>3. QED  BY <2>2, <2>3, <4>1, <4>2
    <3>2. CASE ~Heard(k)
      <4>1. told'[k] = told[k] /\ ~Reached(k)
        BY <2>1, <2>3, <3>2 DEF Heard, Reached
      <4>2. QED  BY <2>2, <2>4, <4>1
    <3>3. QED  BY <3>1, <3>2
  <2>5. QED  BY <2>1, <2>4 DEF LatestInv, ToldIsOpen, OpenIds, IsOpen
<1>5. CASE RollBack
  BY <1>5 DEF RollBack, LatestInv, ToldIsOpen, OpenIds, IsOpen
<1>6. CASE UNCHANGED vars
  BY <1>6 DEF vars, run, LatestInv, ToldIsOpen, OpenIds, IsOpen, UntouchedTillReached, AllRead,
              Reached, NoVersion
<1>7. QED  BY <1>1, <1>2, <1>3, <1>4, <1>5, <1>6 DEF Next

LEMMA OpenInvHolds ==
  ASSUME ~Repeats
  PROVE  Spec => []OpenInv
<1>1. Init => OpenInv
  BY DEF Init, OpenInv, OneOpen
<1>2. TypeOK /\ OpenInv /\ [Next]_vars => OpenInv'
  BY OpenInvStep
<1>3. QED  BY <1>1, <1>2, TypeCorrect, PTL DEF Spec

LEMMA LatestInvHolds ==
  ASSUME ~Repeats
  PROVE  Spec => []LatestInv
<1>1. Init => LatestInv
  BY DEF Init, LatestInv
<1>2. TypeOK /\ OpenInv /\ HistoryInv /\ LatestInv /\ [Next]_vars => LatestInv'
  BY LatestInvStep
<1>3. QED  BY <1>1, <1>2, OpenInvHolds, HistoryHolds, TypeCorrect, PTL DEF Spec

\* While vendors list no fact twice in a batch, the open version of a fact is what
\* the vendor said last of it in a run that committed, value and publication date.
THEOREM OpenIsTheLatest ==
  ASSUME ~Repeats
  PROVE  Spec => []LatestIsOpen
<1>1. LatestInv => LatestIsOpen
  BY DEF LatestInv, LatestIsOpen, ToldIsOpen
<1>2. QED  BY <1>1, LatestInvHolds, PTL

\* As long as the walked rows say what was said before, the transaction changed nothing.
NothingNew ==
  pc = "walk" /\ (\A i \in 1 .. done : told[batch[i].key] = batch[i]) => draft = table

\* A row that says what was said before, with a value the column can hold, finds it
\* in the open version.
LEMMA KnownRow ==
  ASSUME Fine = {}, TypeOK, OneOpen(table), OpenAsRead, AllRead, NEW row \in Rows,
         ToldIsOpen(table, row.key, row)
  PROVE  /\ open[row.key] # NoVersion /\ SameValue(row)
         /\ open[row.key].published = row.published
<1> DEFINE n == open[row.key].id
<1>1. row.key \in Keys /\ row.value \in Values
  BY DEF Rows
<1>2. PICK i \in OpenIds(table, row.key) :
        table[i].value = Stored(row.value) /\ table[i].published = row.published
  BY DEF ToldIsOpen
<1>3. Stored(row.value) = row.value
  BY <1>1 DEF Stored
<1>4. open[row.key] # NoVersion
  BY <1>1, <1>2 DEF AllRead
<1>5. n \in OpenIds(table, row.key) /\ open[row.key] = Entry(n)
  BY <1>1, <1>4 DEF OpenAsRead
<1>6. n = i
  BY <1>2, <1>5 DEF OpenIds, OneOpen
<1>7. Entry(n).value = table[n].value /\ Entry(n).published = table[n].published
  BY DEF Entry
<1>8. QED  BY <1>2, <1>3, <1>4, <1>5, <1>6, <1>7 DEF SameValue

LEMMA NothingNewStep ==
  ASSUME ~Repeats, Fine = {}, TypeOK, OpenInv, HistoryInv, LatestInv, NothingNew, [Next]_vars
  PROVE  NothingNew'
<1>1. CASE ReadOpen
  BY <1>1 DEF ReadOpen, NothingNew
<1>2. CASE Walk
  <2> DEFINE row == batch[done + 1]
  <2>1. /\ pc = "walk" /\ done < Len(batch) /\ done' = done + 1
        /\ UNCHANGED <<pc, table, batch, open, told>>
    BY <1>2 DEF Walk
  <2>2. \/ open[row.key] = NoVersion /\ New(row)
        \/ open[row.key] # NoVersion /\ SameValue(row) /\ Unchanged(row)
        \/ open[row.key] # NoVersion /\ ~SameValue(row) /\ Restate(row)
    BY <1>2 DEF Walk
  <2>3. done \in Nat /\ batch \in Seq(Rows) /\ done + 1 \in 1 .. Len(batch)
    BY <2>1 DEF TypeOK
  <2>4. row \in Rows
    BY <2>3
  <2>5. 1 .. done \subseteq 1 .. done' /\ done + 1 \in 1 .. done'
    BY <2>1, <2>3
  <2> HIDE DEF row
  <2>6. SUFFICES ASSUME \A i \in 1 .. done' : told[batch[i].key] = batch[i]
                 PROVE  draft' = table
    BY <2>1 DEF NothingNew
  <2>7. draft = table
    BY <2>1, <2>5, <2>6 DEF NothingNew
  <2>8. told[row.key] = row /\ row.key \in Keys /\ told[row.key] # Null
    BY <2>4, <2>5, <2>6, NullIsNoRow DEF row, Rows
  <2>9. ToldIsOpen(table, row.key, row)
    BY <2>8 DEF LatestInv
  <2>10. OneOpen(table) /\ OpenAsRead /\ AllRead
    BY <2>1 DEF OpenInv, HistoryInv, LatestInv
  <2>11. /\ open[row.key] # NoVersion /\ SameValue(row)
         /\ open[row.key].published = row.published
    BY <2>4, <2>9, <2>10, KnownRow
  <2>12. QED  BY <2>2, <2>7, <2>11 DEF Unchanged
<1>3. CASE Collect \/ Commit \/ RollBack
  BY <1>3 DEF Collect, Commit, RollBack, NothingNew
<1>4. CASE UNCHANGED vars
  BY <1>4 DEF vars, run, NothingNew
<1>5. QED  BY <1>1, <1>2, <1>3, <1>4 DEF Next

\* Running the same batch again opens, closes and corrects nothing: while vendors list
\* no fact twice and the column can hold the values they send, a run that is told
\* nothing new leaves the table as it was.
THEOREM RepeatsChangeNothing ==
  ASSUME ~Repeats, Fine = {}
  PROVE  Spec => RepeatsAreNoOps
<1> DEFINE NoOp ==
      pc = "walk" /\ pc' = "idle" /\ (\A i \in DOMAIN batch : told[batch[i].key] = batch[i])
        => table' = table
<1>1. Init => NothingNew
  BY DEF Init, NothingNew
<1>2. TypeOK /\ OpenInv /\ HistoryInv /\ LatestInv /\ NothingNew /\ [Next]_vars => NothingNew'
  BY NothingNewStep
<1>3. TypeOK /\ NothingNew /\ [Next]_vars => [NoOp]_vars
  <2> SUFFICES ASSUME TypeOK, NothingNew, [Next]_vars, pc = "walk", pc' = "idle",
                      \A i \in DOMAIN batch : told[batch[i].key] = batch[i]
               PROVE  table' = table
    OBVIOUS
  <2>1. CASE Commit
    <3>1. table' = draft /\ DOMAIN batch = 1 .. done
      BY <2>1 DEF Commit, TypeOK
    <3>2. QED  BY <3>1 DEF NothingNew
  <2>2. CASE RollBack
    BY <2>2 DEF RollBack
  <2>3. QED  BY <2>1, <2>2 DEF Next, Collect, ReadOpen, Walk, vars
<1>4. QED  BY <1>1, <1>2, <1>3, OpenInvHolds, LatestInvHolds, HistoryHolds, TypeCorrect, PTL
           DEF Spec, RepeatsAreNoOps

=============================================================================
