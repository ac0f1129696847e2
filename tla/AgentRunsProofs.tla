-------------------------- MODULE AgentRunsProofs --------------------------
(***************************************************************************)
(* What holds of agent runs for any number of runs, symbols, attempts and  *)
(* calls and any cap.  When the statements of record interleave, the trail *)
(* lists no run twice, is trimmed when no call is under way, and answers   *)
(* with successful analyses; as long as calls do not overlap, they         *)
(* implement the atomic AuditTrail.  Runs that do not overlap show their   *)
(* own calls, and are frozen once they have finished.                      *)
(***************************************************************************)
EXTENDS AgentRuns, AuditSteps, SequenceTheorems, TLAPS

-----------------------------------------------------------------------------
(* The atomic trail *)

\* Recording a run keeps the list of ids a duplicate-free sequence of runs that is
\* at most one longer than the cap.
LEMMA InsertOnce ==
  ASSUME AuditTypeOK, AuditBounded, NEW r \in Runs
  PROVE  /\ Insert(order, r) \in Seq(Runs) /\ IsInjective(Insert(order, r))
         /\ Len(Insert(order, r)) <= Cap + 1
         /\ ToSet(Insert(order, r)) = Kept \cup {r}
<1>1. order \in Seq(Runs) /\ Len(order) \in Nat /\ Cap \in Nat /\ Len(order) <= Cap
  BY AuditAssumption DEF AuditTypeOK, AuditBounded
<1>2. CASE r \in ToSet(order)
  BY <1>1, <1>2 DEF Insert, AuditBounded, Kept
<1>3. CASE r \notin ToSet(order)
  <2> DEFINE ids == Append(order, r)
  <2>1. /\ ids \in Seq(Runs) /\ Len(ids) = Len(order) + 1
        /\ DOMAIN ids = 1 .. Len(order) + 1 /\ DOMAIN order = 1 .. Len(order)
        /\ \A i \in DOMAIN ids : ids[i] = IF i = Len(order) + 1 THEN r ELSE order[i]
    BY <1>1
  <2>2. \A i \in DOMAIN order : order[i] # r
    BY <1>3 DEF ToSet
  <2>3. IsInjective(ids)
    BY <1>1, <2>1, <2>2 DEF IsInjective, AuditBounded
  <2>4. ToSet(ids) = Kept \cup {r}
    BY <1>1, <2>1 DEF ToSet, Kept
  <2>5. Insert(order, r) = ids
    BY <1>3 DEF Insert
  <2>6. QED  BY <1>1, <2>1, <2>3, <2>4, <2>5
<1>4. QED  BY <1>2, <1>3

\* Trimming leaves the newest Cap ids; what it drops is what Oldest names.
LEMMA TrimToCap ==
  ASSUME NEW ids \in Seq(Runs), IsInjective(ids), Len(ids) > Cap
  PROVE  /\ Trim(ids) \in Seq(Runs) /\ Len(Trim(ids)) = Cap /\ IsInjective(Trim(ids))
         /\ ToSet(ids) = ToSet(Oldest(ids)) \cup ToSet(Trim(ids))
<1>1. Len(ids) \in Nat /\ Cap \in Nat
  BY AuditAssumption
<1> DEFINE n == Len(ids) - Cap
<1>2. n \in Nat /\ n + Cap = Len(ids)
  BY <1>1
<1>3. /\ Trim(ids) \in Seq(Runs) /\ Len(Trim(ids)) = Cap
      /\ \A i \in 1 .. Cap : Trim(ids)[i] = ids[n + i]
  BY <1>1, <1>2 DEF Trim
<1>4. /\ Len(Oldest(ids)) = n /\ Oldest(ids) \in Seq(Runs)
      /\ \A i \in 1 .. n : Oldest(ids)[i] = ids[i]
  <2>1. Oldest(ids) = SubSeq(ids, 1, n)
    BY DEF Oldest
  <2>2. 1 \in 1 .. Len(ids) + 1 /\ n \in 0 .. Len(ids)
    BY <1>1, <1>2
  <2>3. /\ SubSeq(ids, 1, n) \in Seq(Runs) /\ Len(SubSeq(ids, 1, n)) = n
        /\ \A i \in 1 .. n : SubSeq(ids, 1, n)[i] = ids[i]
    BY <1>2, <2>2
  <2>4. QED  BY <2>1, <2>3
<1>5. IsInjective(Trim(ids))
  <2> SUFFICES ASSUME NEW i \in 1 .. Cap, NEW j \in 1 .. Cap, Trim(ids)[i] = Trim(ids)[j]
               PROVE  i = j
    BY <1>3 DEF IsInjective
  <2>1. n + i \in DOMAIN ids /\ n + j \in DOMAIN ids /\ ids[n + i] = ids[n + j]
    BY <1>1, <1>2, <1>3
  <2>2. n + i = n + j
    BY <2>1 DEF IsInjective
  <2>3. QED  BY <1>2, <2>2
<1>6. ToSet(ids) \subseteq ToSet(Oldest(ids)) \cup ToSet(Trim(ids))
  <2> SUFFICES ASSUME NEW i \in 1 .. Len(ids)
               PROVE  ids[i] \in ToSet(Oldest(ids)) \cup ToSet(Trim(ids))
    BY DEF ToSet
  <2>1. CASE i <= n
    BY <1>2, <1>4, <2>1 DEF ToSet
  <2>2. CASE i > n
    <3> HIDE DEF n
    <3>1. i - n \in 1 .. Cap /\ n + (i - n) = i
      BY <1>1, <1>2, <2>2
    <3>2. Trim(ids)[i - n] = ids[i]
      BY <1>3, <3>1
    <3>3. i - n \in DOMAIN Trim(ids)
      BY <1>3, <3>1
    <3>4. Trim(ids)[i - n] \in ToSet(Trim(ids))
      BY <3>3 DEF ToSet
    <3>5. QED  BY <3>2, <3>4
  <2>3. QED  BY <1>2, <2>1, <2>2
<1>7. ToSet(Oldest(ids)) \cup ToSet(Trim(ids)) \subseteq ToSet(ids)
  <2>1. \A i \in 1 .. n : i \in DOMAIN ids
    BY <1>1, <1>2
  <2>2. \A i \in 1 .. Cap : n + i \in DOMAIN ids
    BY <1>1, <1>2
  <2>3. QED  BY <1>3, <1>4, <2>1, <2>2 DEF ToSet
<1>8. QED  BY <1>3, <1>5, <1>6, <1>7

LEMMA RecordKeeps ==
  ASSUME AuditTypeOK, AuditBounded, LatestIsStored,
         NEW r \in Runs, NEW about \in Symbols \cup {NoSymbol}, Record(r, about)
  PROVE  /\ AuditTypeOK' /\ AuditBounded' /\ LatestIsStored'
         /\ \A s \in Symbols : latest'[s] \in {latest[s], NoRun} \/ (s = about /\ latest'[s] = r)
<1> DEFINE ids == Insert(order, r)
           map == [s \in Symbols |-> IF s = about THEN r ELSE latest[s]]
<1>1. /\ ids \in Seq(Runs) /\ IsInjective(ids) /\ Len(ids) \in Nat
      /\ ToSet(ids) = Kept \cup {r}
  BY InsertOnce
<1>2. map \in [Symbols -> Runs \cup {NoRun}]
  BY DEF AuditTypeOK
<1>3. \A s \in Symbols : map[s] # NoRun => map[s] \in ToSet(ids)
  BY <1>1 DEF LatestIsStored
<1>4. Cap \in Nat
  BY AuditAssumption
<1>5. CASE Len(ids) > Cap
  <2>1. order' = Trim(ids) /\ latest' = Forget(map, ToSet(Oldest(ids)))
    BY <1>5 DEF Record
  <2>2. /\ Trim(ids) \in Seq(Runs) /\ Len(Trim(ids)) = Cap /\ IsInjective(Trim(ids))
        /\ ToSet(ids) = ToSet(Oldest(ids)) \cup ToSet(Trim(ids))
    BY <1>1, <1>5, TrimToCap
  <2> HIDE DEF ids, map
  <2>3. \A s \in Symbols : latest'[s] = IF map[s] \in ToSet(Oldest(ids)) THEN NoRun ELSE map[s]
    BY <2>1 DEF Forget
  <2>4. latest' \in [Symbols -> Runs \cup {NoRun}]
    BY <1>2, <2>1 DEF Forget
  <2>5. \A s \in Symbols : latest'[s] # NoRun => latest'[s] \in ToSet(Trim(ids))
    BY <1>3, <2>2, <2>3
  <2>6. \A s \in Symbols : latest'[s] \in {latest[s], NoRun} \/ (s = about /\ latest'[s] = r)
    BY <2>3 DEF map
  <2>7. QED
    BY <1>4, <2>1, <2>2, <2>4, <2>5, <2>6 DEF AuditTypeOK, AuditBounded, LatestIsStored, Kept
<1>6. CASE ~(Len(ids) > Cap)
  <2>1. order' = ids /\ latest' = map
    BY <1>6 DEF Record
  <2>2. Len(ids) <= Cap
    BY <1>1, <1>4, <1>6
  <2>3. \A s \in Symbols : latest'[s] \in {latest[s], NoRun} \/ (s = about /\ latest'[s] = r)
    BY <2>1
  <2> HIDE DEF ids, map
  <2>4. QED
    BY <1>1, <1>2, <1>3, <2>1, <2>2, <2>3 DEF AuditTypeOK, AuditBounded, LatestIsStored, Kept
<1>7. QED  BY <1>5, <1>6

\* The atomic trail never exceeds its cap, lists no run twice and notes stored runs
\* only, however often runs are refreshed: what callers rely on as long as calls of
\* AuditTrail.record do not overlap.
THEOREM AtomicTrailIsSound == AuditSpec => [](AuditBounded /\ LatestIsStored)
<1> DEFINE Inv == AuditTypeOK /\ AuditBounded /\ LatestIsStored
<1>1. AuditInit => Inv
  BY AuditAssumption DEF AuditInit, AuditTypeOK, AuditBounded, LatestIsStored, IsInjective
<1>2. Inv /\ [AuditNext]_auditVars => Inv'
  <2> SUFFICES ASSUME Inv, [AuditNext]_auditVars PROVE Inv'
    OBVIOUS
  <2>1. ASSUME NEW r \in Runs, NEW s \in Symbols \cup {NoSymbol}, Record(r, s) PROVE Inv'
    BY <2>1, RecordKeeps
  <2>2. CASE UNCHANGED auditVars
    BY <2>2 DEF auditVars, AuditTypeOK, AuditBounded, LatestIsStored, Kept
  <2>3. QED  BY <2>1, <2>2 DEF AuditNext
<1>3. QED  BY <1>1, <1>2, PTL DEF AuditSpec

-----------------------------------------------------------------------------
(* Threads that interleave in record: the list of ids *)

RecordNext ==
  \/ \E r \in Runs, s \in Symbols \cup {NoSymbol} : Begin(r, s)
  \/ \E r \in Runs : Statement(r) \/ Return(r)
  \/ \E r, q \in Runs : Interrupted(r, q)

\* A run that is neither stored nor about to be is neither listed nor being dropped;
\* a popped id is dropped by one thread and is not listed.
ListedOnce ==
  /\ IsInjective(order)
  /\ \A r \in Runs : r \notin runs /\ at[r] # "put" =>
       r \notin Kept /\ \A u \in Runs : at[u] = "drop" => expired[u] # r
  /\ \A u, v \in Runs :
       at[u] = "drop" /\ at[v] = "drop" /\ expired[u] = expired[v] => u = v
  /\ \A u \in Runs : at[u] = "drop" => expired[u] \notin Kept
  /\ Len(order) > Cap => ~AtRest

ListInv == RecordTypeOK /\ ListedOnce

LEMMA ListInit == RecordInit => ListInv
<1> SUFFICES ASSUME RecordInit PROVE ListInv
  OBVIOUS
<1>1. order = <<>> /\ Len(order) = 0 /\ Kept = {} /\ IsInjective(order) /\ Cap \in Nat
  BY AuditAssumption DEF RecordInit, AuditInit, Kept, ToSet, IsInjective
<1>2. RecordTypeOK
  BY DEF RecordInit, AuditInit, RecordTypeOK, AuditTypeOK, NoMap, Labels
<1>3. QED  BY <1>1, <1>2 DEF RecordInit, ListInv, ListedOnce

LEMMA AppendOnce ==
  ASSUME NEW ids \in Seq(Runs), IsInjective(ids), NEW r \in Runs, r \notin ToSet(ids)
  PROVE  /\ Append(ids, r) \in Seq(Runs) /\ IsInjective(Append(ids, r))
         /\ ToSet(Append(ids, r)) = ToSet(ids) \cup {r}
<1> DEFINE more == Append(ids, r)
<1>1. /\ more \in Seq(Runs) /\ Len(ids) \in Nat
      /\ DOMAIN more = 1 .. Len(ids) + 1 /\ DOMAIN ids = 1 .. Len(ids)
      /\ \A i \in DOMAIN more : more[i] = IF i = Len(ids) + 1 THEN r ELSE ids[i]
  OBVIOUS
<1>2. \A i \in DOMAIN ids : ids[i] # r
  BY DEF ToSet
<1>3. IsInjective(more)
  BY <1>1, <1>2 DEF IsInjective
<1>4. ToSet(more) = ToSet(ids) \cup {r}
  BY <1>1 DEF ToSet
<1>5. QED  BY <1>1, <1>3, <1>4

\* Popping the head of a list without repetitions leaves the other ids.
LEMMA TailOnce ==
  ASSUME NEW ids \in Seq(Runs), IsInjective(ids), Len(ids) # 0
  PROVE  /\ Tail(ids) \in Seq(Runs) /\ IsInjective(Tail(ids)) /\ Len(Tail(ids)) = Len(ids) - 1
         /\ ToSet(Tail(ids)) = ToSet(ids) \ {Head(ids)}
<1>1. ids # <<>> /\ Len(ids) \in Nat /\ DOMAIN ids = 1 .. Len(ids) /\ Head(ids) = ids[1]
  OBVIOUS
<1>2. /\ Tail(ids) \in Seq(Runs) /\ Len(Tail(ids)) = Len(ids) - 1
      /\ \A i \in 1 .. Len(Tail(ids)) : Tail(ids)[i] = ids[i + 1]
  BY <1>1, HeadTailProperties
<1>3. DOMAIN Tail(ids) = 1 .. Len(ids) - 1
  BY <1>2
<1>4. IsInjective(Tail(ids))
  <2> SUFFICES ASSUME NEW i \in 1 .. Len(ids) - 1, NEW j \in 1 .. Len(ids) - 1,
                      Tail(ids)[i] = Tail(ids)[j]
               PROVE  i = j
    BY <1>3 DEF IsInjective
  <2>1. i + 1 \in DOMAIN ids /\ j + 1 \in DOMAIN ids /\ ids[i + 1] = ids[j + 1]
    BY <1>1, <1>2
  <2>2. i + 1 = j + 1
    BY <2>1 DEF IsInjective
  <2>3. QED  BY <2>2
<1>5. ToSet(Tail(ids)) \subseteq ToSet(ids) \ {Head(ids)}
  <2> SUFFICES ASSUME NEW i \in 1 .. Len(ids) - 1
               PROVE  Tail(ids)[i] \in ToSet(ids) \ {Head(ids)}
    BY <1>3 DEF ToSet
  <2>1. i + 1 \in DOMAIN ids /\ i + 1 # 1 /\ 1 \in DOMAIN ids /\ Tail(ids)[i] = ids[i + 1]
    BY <1>1, <1>2
  <2>2. ids[i + 1] # ids[1]
    BY <2>1 DEF IsInjective
  <2>3. QED  BY <1>1, <2>1, <2>2 DEF ToSet
<1>6. ToSet(ids) \ {Head(ids)} \subseteq ToSet(Tail(ids))
  <2> SUFFICES ASSUME NEW i \in 1 .. Len(ids), ids[i] # Head(ids)
               PROVE  ids[i] \in ToSet(Tail(ids))
    BY <1>1 DEF ToSet
  <2>1. i - 1 \in 1 .. Len(ids) - 1 /\ (i - 1) + 1 = i
    BY <1>1
  <2>2. Tail(ids)[i - 1] = ids[i]
    BY <1>2, <2>1
  <2>3. QED  BY <1>3, <2>1, <2>2 DEF ToSet
<1>7. QED  BY <1>2, <1>4, <1>5, <1>6

LEMMA RecordTypeStep == RecordTypeOK /\ RecordNext => RecordTypeOK'
<1> SUFFICES ASSUME RecordTypeOK, RecordNext PROVE RecordTypeOK'
  OBVIOUS
<1> USE DEF RecordTypeOK, AuditTypeOK, Labels, Goto
<1>1. ASSUME NEW r \in Runs, NEW s \in Symbols \cup {NoSymbol}, Begin(r, s) PROVE RecordTypeOK'
  BY <1>1 DEF Begin, shared
<1>2. ASSUME NEW r \in Runs, InsertId(r) PROVE RecordTypeOK'
  <2>1. order' \in Seq(Runs)
    BY <1>2 DEF InsertId
  <2>2. at' = [at EXCEPT ![r] = "put"] /\ UNCHANGED <<runs, latest, sym, expired, copy>>
    BY <1>2 DEF InsertId, locals
  <2>3. QED  BY <2>1, <2>2
<1>3. ASSUME NEW r \in Runs, Put(r) \/ Loop(r) \/ Drop(r) PROVE RecordTypeOK'
  <2>1. \E l \in Labels : at' = [at EXCEPT ![r] = l]
    BY <1>3 DEF Put, Loop, Drop
  <2>2. runs' \subseteq Runs /\ UNCHANGED <<order, latest, sym, expired, copy>>
    BY <1>3 DEF Put, Loop, Drop, locals, shared
  <2>3. QED  BY <2>1, <2>2
<1>4. ASSUME NEW r \in Runs, Note(r) PROVE RecordTypeOK'
  BY <1>4 DEF Note, NoteIt, locals
<1>5. ASSUME NEW r \in Runs, Assign(r) PROVE RecordTypeOK'
  BY <1>5 DEF Assign, locals
<1>6. ASSUME NEW r \in Runs, Pop(r) PROVE RecordTypeOK'
  <2>1. Head(order) \in Runs /\ Tail(order) \in Seq(Runs)
    BY <1>6 DEF Pop
  <2>2. QED  BY <1>6, <2>1 DEF Pop
<1>7. ASSUME NEW r \in Runs, Copy(r) PROVE RecordTypeOK'
  <2>1. [s \in Symbols |-> IF latest[s] = expired[r] THEN NoRun ELSE latest[s]]
          \in [Symbols -> Runs \cup {NoRun}]
    OBVIOUS
  <2>2. QED  BY <1>7, <2>1 DEF Copy, shared
<1>8. ASSUME NEW r \in Runs, Return(r) PROVE RecordTypeOK'
  BY <1>8 DEF Return, Forgotten, NoMap, shared
<1>9. ASSUME NEW r \in Runs, NEW q \in Runs, Interrupted(r, q) PROVE RecordTypeOK'
  BY <1>9 DEF Interrupted, NoteIt, Forgotten, NoMap
<1>10. QED
  BY <1>1, <1>2, <1>3, <1>4, <1>5, <1>6, <1>7, <1>8, <1>9 DEF RecordNext, Statement

LEMMA ListStep == ListInv /\ RecordNext => ListInv'
<1> SUFFICES ASSUME ListInv, RecordNext PROVE ListInv'
  OBVIOUS
<1>1. RecordTypeOK' /\ RecordTypeOK
  BY RecordTypeStep DEF ListInv
<1>2. /\ order \in Seq(Runs) /\ runs \subseteq Runs /\ at \in [Runs -> Labels]
      /\ Len(order) \in Nat /\ Cap \in Nat
  BY <1>1, AuditAssumption DEF RecordTypeOK, AuditTypeOK
<1>3. ASSUME UNCHANGED <<order, runs, expired>>, NEW t \in Runs, at[t] # "put", at[t] # "drop",
             NEW l \in Labels \ {"outside", "drop"}, at' = [at EXCEPT ![t] = l]
      PROVE  ListedOnce'
  <2>1. ~AtRest' /\ \A u \in Runs : at'[u] = "drop" => at[u] = "drop"
    BY <1>2, <1>3 DEF AtRest, Outside
  <2>2. \A u \in Runs : at'[u] # "put" => at[u] # "put"
    BY <1>2, <1>3
  <2>3. QED  BY <1>3, <2>1, <2>2 DEF ListInv, ListedOnce, Kept
<1>4. ASSUME NEW r \in Runs, NEW s \in Symbols \cup {NoSymbol}, Begin(r, s) PROVE ListedOnce'
  BY <1>3, <1>4 DEF Begin, Outside, Goto, shared, Labels
<1>5. ASSUME NEW r \in Runs, Note(r) \/ Loop(r) \/ Copy(r) \/ Assign(r) PROVE ListedOnce'
  BY <1>3, <1>5 DEF Note, Loop, Copy, Assign, Goto, shared, locals, Labels
<1>6. ASSUME NEW r \in Runs, InsertId(r) PROVE ListedOnce'
  <2>1. /\ at[r] = "insert" /\ at' = [at EXCEPT ![r] = "put"] /\ UNCHANGED <<runs, expired>>
        /\ order' = IF r \in runs THEN order ELSE Append(order, r)
    BY <1>6 DEF InsertId, Goto, locals
  <2>2. ~AtRest' /\ \A u \in Runs : at'[u] = "drop" <=> at[u] = "drop"
    BY <1>2, <2>1 DEF AtRest, Outside
  <2>3. \A u \in Runs \ {r} : at'[u] = at[u]
    BY <1>2, <2>1
  <2>4. CASE r \in runs
    BY <1>2, <2>1, <2>2, <2>3, <2>4 DEF ListInv, ListedOnce, Kept
  <2>5. CASE r \notin runs
    <3>1. r \notin Kept /\ \A u \in Runs : at[u] = "drop" => expired[u] # r
      BY <2>1, <2>5 DEF ListInv, ListedOnce
    <3>2. IsInjective(order') /\ Kept' = Kept \cup {r}
      BY <1>2, <2>1, <2>5, <3>1, AppendOnce DEF ListInv, ListedOnce, Kept
    <3>3. at'[r] = "put"
      BY <1>2, <2>1
    <3>4. QED  BY <2>1, <2>2, <2>3, <3>1, <3>2, <3>3 DEF ListInv, ListedOnce
  <2>6. QED  BY <2>4, <2>5
<1>7. ASSUME NEW r \in Runs, Put(r) PROVE ListedOnce'
  <2>1. /\ at[r] = "put" /\ runs' = runs \cup {r} /\ UNCHANGED <<order, expired>>
        /\ \A u \in Runs \ {r} : at'[u] = at[u]
        /\ at'[r] \in {"check", "note"}
    BY <1>2, <1>7 DEF Put, Goto, locals
  <2>2. ~AtRest'
    BY <2>1 DEF AtRest, Outside
  <2>3. QED  BY <2>1, <2>2 DEF ListInv, ListedOnce, Kept
<1>8. ASSUME NEW r \in Runs, Pop(r) PROVE ListedOnce'
  <2>1. /\ at[r] = "pop" /\ at' = [at EXCEPT ![r] = "drop"] /\ order # <<>> /\ runs' = runs
        /\ expired' = [expired EXCEPT ![r] = Head(order)] /\ order' = Tail(order)
    BY <1>8 DEF Pop, Goto
  <2>2. /\ at'[r] = "drop" /\ expired'[r] = Head(order) /\ Len(order) # 0
        /\ \A u \in Runs \ {r} : at'[u] = at[u] /\ expired'[u] = expired[u]
    BY <1>1, <1>2, <2>1 DEF RecordTypeOK
  <2>3. IsInjective(order') /\ Kept' = Kept \ {Head(order)}
    BY <1>2, <2>1, <2>2, TailOnce DEF ListInv, ListedOnce, Kept
  <2>4. Head(order) \in Kept
    BY <1>2, <2>2 DEF Kept, ToSet
  <2>5. ~AtRest'
    BY <2>2 DEF AtRest, Outside
  <2>6. \A q \in Runs : q \notin runs /\ at'[q] # "put" =>
          q \notin Kept' /\ \A u \in Runs : at'[u] = "drop" => expired'[u] # q
    BY <2>1, <2>2, <2>3, <2>4 DEF ListInv, ListedOnce
  <2>7. \A u \in Runs : at'[u] = "drop" => expired'[u] \notin Kept'
    BY <2>2, <2>3 DEF ListInv, ListedOnce
  <2>8. \A u, v \in Runs :
          at'[u] = "drop" /\ at'[v] = "drop" /\ expired'[u] = expired'[v] => u = v
    BY <2>2, <2>4 DEF ListInv, ListedOnce
  <2>9. QED  BY <2>1, <2>3, <2>5, <2>6, <2>7, <2>8 DEF ListedOnce
<1>9. ASSUME NEW r \in Runs, Drop(r) PROVE ListedOnce'
  <2>1. /\ at[r] = "drop" /\ at' = [at EXCEPT ![r] = "copy"] /\ runs' = runs \ {expired[r]}
        /\ UNCHANGED <<order, expired>>
    BY <1>9 DEF Drop, Goto, locals
  <2>2. at'[r] = "copy" /\ \A u \in Runs \ {r} : at'[u] = at[u]
    BY <1>2, <2>1
  <2>3. expired[r] \notin Kept /\ \A u \in Runs \ {r} : at[u] = "drop" => expired[u] # expired[r]
    BY <2>1 DEF ListInv, ListedOnce
  <2>4. ~AtRest'
    BY <2>2 DEF AtRest, Outside
  <2>5. QED  BY <2>1, <2>2, <2>3, <2>4 DEF ListInv, ListedOnce, Kept
<1>10. ASSUME NEW r \in Runs, Return(r) PROVE ListedOnce'
  <2>1. /\ at[r] = "check" /\ at' = [at EXCEPT ![r] = "outside"] /\ UNCHANGED <<order, runs>>
        /\ Len(order) <= Cap /\ \A u \in Runs \ {r} : expired'[u] = expired[u]
    BY <1>1, <1>10 DEF Return, Goto, Forgotten, WithinCap, shared, RecordTypeOK
  <2>2. at'[r] = "outside" /\ \A u \in Runs \ {r} : at'[u] = at[u]
    BY <1>2, <2>1
  <2>3. ~(Len(order') > Cap)
    BY <1>2, <2>1
  <2>4. QED  BY <2>1, <2>2, <2>3 DEF ListInv, ListedOnce, Kept
<1>11. ASSUME NEW r \in Runs, NEW q \in Runs, Interrupted(r, q) PROVE ListedOnce'
  <2>1. /\ at[r] = "copy" /\ at[q] = "note" /\ at' = [at EXCEPT ![r] = "outside", ![q] = "check"]
        /\ UNCHANGED <<order, runs>> /\ \A u \in Runs \ {r} : expired'[u] = expired[u]
    BY <1>1, <1>11 DEF Interrupted, Forgotten, RecordTypeOK
  <2>2. /\ at'[r] = "outside" /\ at'[q] = "check"
        /\ \A u \in Runs \ {r, q} : at'[u] = at[u]
    BY <1>2, <2>1
  <2>3. ~AtRest'
    BY <2>2 DEF AtRest, Outside
  <2>4. QED  BY <2>1, <2>2, <2>3 DEF ListInv, ListedOnce, Kept
<1>12. QED
  BY <1>1, <1>4, <1>5, <1>6, <1>7, <1>8, <1>9, <1>10, <1>11 DEF RecordNext, Statement, ListInv

\* Any step of a run is a step of record, or none of the trail's.
LEMMA NextRecords == TypeOK /\ [Next]_vars => RecordNext \/ UNCHANGED recordVars
<1> SUFFICES ASSUME TypeOK, [Next]_vars PROVE RecordNext \/ UNCHANGED recordVars
  OBVIOUS
<1>1. ASSUME NEW r \in Runs, Run(r) \/ Submit(r) \/ Queue(r) \/ Store(r) PROVE RecordNext
  <2>1. \E s \in Symbols \cup {NoSymbol} : Begin(r, s)
    BY <1>1 DEF Run, Submit, Prepare, Queue, Store, TypeOK
  <2>2. QED  BY <2>1 DEF RecordNext
<1>2. ASSUME NEW r \in Runs, Recording(r) \/ RecordRaises(r) PROVE RecordNext
  BY <1>2 DEF Recording, RecordRaises, RecordNext
<1>3. ASSUME NEW r \in Runs,
             \/ ExecuteDeferred(r) \/ BeginAttempt(r) \/ Conclude(r)
             \/ CallTool(r) \/ HandlerEnds(r) \/ TimeOut(r)
      PROVE  UNCHANGED recordVars
  BY <1>3 DEF ExecuteDeferred, BeginAttempt, Conclude, CallTool, HandlerEnds, TimeOut
<1>4. CASE UNCHANGED vars
  BY <1>4 DEF vars
<1>5. QED  BY <1>1, <1>2, <1>3, <1>4 DEF Next, Execution, Handler

-----------------------------------------------------------------------------
(* Types and the index of latest analyses, whether runs overlap or not *)

\* A run that is about to begin an attempt has one left; one that has not started
\* has made none.
AttemptsLeft ==
  \A r \in Runs :
    /\ pc[r] \in {"new", "queue", "deferred"} => attempts[r] = 0
    /\ pc[r] = "execute" => attempts[r] < MaxAttempts
    /\ pc[r] = "handler" => attempts[r] > 0

Analysed(r, s) ==
  pc[r] = "done" /\ status[r] = "succeeded" /\ subject[r] = s /\ output[r] = "result"

\* What is noted, about to be noted, or held in a map that is about to be assigned are
\* finished analyses, whose record no step touches again.
NotesAreDone ==
  /\ \A s \in Symbols : latest[s] # NoRun => Analysed(latest[s], s)
  /\ \A r \in Runs, s \in Symbols : copy[r][s] # NoRun => Analysed(copy[r][s], s)
  /\ \A r \in Runs : sym[r] # NoSymbol => Analysed(r, sym[r])

TrailInv == TypeOK /\ AttemptsLeft /\ ListedOnce /\ NotesAreDone

LEMMA TrailInit == Init => TrailInv
<1> SUFFICES ASSUME Init PROVE TrailInv
  OBVIOUS
<1>1. ListInv
  BY ListInit DEF Init
<1>2. NotesAreDone
  BY DEF Init, RecordInit, AuditInit, NoMap, NotesAreDone
<1>3. TypeOK /\ AttemptsLeft
  BY <1>1, RunsAssumption DEF Init, TypeOK, ListInv, AttemptsLeft, Statuses, Waiting
<1>4. QED  BY <1>1, <1>2, <1>3 DEF TrailInv, ListInv

\* Finished runs keep what the index relies on.
LEMMA FinishedStay ==
  ASSUME TypeOK, [Next]_vars, NEW r \in Runs, pc[r] = "done"
  PROVE  UNCHANGED <<pc[r], status[r], attempts[r], output[r], subject[r]>>
<1> USE DEF TypeOK
<1>1. ASSUME NEW q \in Runs, Run(q) \/ Submit(q) \/ Queue(q)
      PROVE  UNCHANGED <<pc[r], status[r], attempts[r], output[r], subject[r]>>
  <2>1. q # r
    BY <1>1 DEF Run, Submit, Prepare, Queue
  <2>2. QED  BY <1>1, <2>1 DEF Run, Submit, Prepare, Queue, work
<1>2. ASSUME NEW q \in Runs, ExecuteDeferred(q) \/ BeginAttempt(q) \/ Conclude(q) \/ Store(q)
      PROVE  UNCHANGED <<pc[r], status[r], attempts[r], output[r], subject[r]>>
  <2>1. q # r
    BY <1>2 DEF ExecuteDeferred, BeginAttempt, Conclude, Store
  <2>2. QED  BY <1>2, <2>1 DEF ExecuteDeferred, BeginAttempt, Conclude, Store, work
<1>3. ASSUME NEW q \in Runs, Handler(q) \/ TimeOut(q)
      PROVE  UNCHANGED <<pc[r], status[r], attempts[r], output[r], subject[r]>>
  <2>1. q # r
    BY <1>3 DEF Handler, CallTool, HandlerEnds, TimeOut
  <2>2. QED  BY <1>3, <2>1 DEF Handler, CallTool, HandlerEnds, TimeOut
<1>4. ASSUME NEW q \in Runs, Recording(q) \/ RecordRaises(q)
      PROVE  UNCHANGED <<pc[r], status[r], attempts[r], output[r], subject[r]>>
  BY <1>4 DEF Recording, RecordRaises, work
<1>5. CASE UNCHANGED vars
  BY <1>5 DEF vars, work
<1>6. QED  BY <1>1, <1>2, <1>3, <1>4, <1>5 DEF Next, Execution

LEMMA TypeStep == TypeOK /\ AttemptsLeft /\ [Next]_vars => TypeOK' /\ AttemptsLeft'
<1> SUFFICES ASSUME TypeOK, AttemptsLeft, [Next]_vars PROVE TypeOK' /\ AttemptsLeft'
  OBVIOUS
<1>0. /\ MaxAttempts \in Nat \ {0} /\ MaxCalls \in Nat /\ NoRun \notin Runs
      /\ NoSymbol \notin Symbols
  BY RunsAssumption, AuditAssumption
<1>1. RecordTypeOK'
  <2>1. CASE RecordNext
    BY <2>1, RecordTypeStep DEF TypeOK
  <2>2. CASE UNCHANGED recordVars
    BY <2>2 DEF recordVars, shared, locals, TypeOK, RecordTypeOK, AuditTypeOK
  <2>3. QED  BY <2>1, <2>2, NextRecords
<1>2. ASSUME NEW r \in Runs, NEW next \in {"execute", "queue"}, Prepare(r, next)
      PROVE  TypeOK' /\ AttemptsLeft'
  <2>1. /\ pc' = [pc EXCEPT ![r] = next] /\ status' = [status EXCEPT ![r] = "running"]
        /\ subject' \in [Runs -> Symbols \cup {NoSymbol}] /\ pc[r] = "new"
        /\ UNCHANGED <<output, attempts, tools, made, broken, late, error, recorder, previous>>
    BY <1>2 DEF Prepare, TypeOK, work
  <2>2. TypeOK'
    BY <1>1, <2>1 DEF TypeOK, Statuses, Waiting
  <2>3. AttemptsLeft'
    BY <1>0, <2>1 DEF AttemptsLeft, TypeOK
  <2>4. QED  BY <2>2, <2>3
<1>3. ASSUME NEW r \in Runs, Queue(r) \/ ExecuteDeferred(r) \/ Conclude(r) \/ Store(r)
      PROVE  TypeOK' /\ AttemptsLeft'
  <2>1. UNCHANGED <<subject, attempts, tools, made, broken, late, error, recorder, previous>>
    BY <1>3 DEF Queue, ExecuteDeferred, Conclude, Store, work
  <2>2. status' \in [Runs -> Statuses] /\ output' \in [Runs -> {"none", "result", "error"}]
    <3>1. CASE Queue(r)
      BY <3>1 DEF Queue, TypeOK, Statuses
    <3>2. CASE ExecuteDeferred(r)
      BY <3>2 DEF ExecuteDeferred, TypeOK
    <3>3. CASE Conclude(r)
      BY <3>3 DEF Conclude, TypeOK, Statuses
    <3>4. CASE Store(r)
      BY <3>4 DEF Store, TypeOK
    <3>5. QED  BY <1>3, <3>1, <3>2, <3>3, <3>4
  <2>3. PICK next \in {"deferred", "execute", "store", "done"} : pc' = [pc EXCEPT ![r] = next]
    BY <1>3 DEF Queue, ExecuteDeferred, Conclude, Store
  <2>4. TypeOK'
    BY <1>1, <2>1, <2>2, <2>3 DEF TypeOK, Waiting
  <2>5. next \in {"deferred", "execute"} => attempts[r] = 0
    BY <1>3, <2>3 DEF Queue, ExecuteDeferred, Conclude, Store, AttemptsLeft, TypeOK
  <2>6. AttemptsLeft'
    BY <1>0, <2>1, <2>3, <2>5 DEF AttemptsLeft, TypeOK
  <2>7. QED  BY <2>4, <2>6
<1>4. ASSUME NEW r \in Runs, BeginAttempt(r) PROVE TypeOK' /\ AttemptsLeft'
  <2>1. attempts[r] \in Nat /\ attempts[r] < MaxAttempts
    BY <1>4 DEF BeginAttempt, AttemptsLeft, TypeOK
  <2>2. attempts'[r] = attempts[r] + 1 /\ attempts' \in [Runs -> 0 .. MaxAttempts]
    BY <1>0, <1>4, <2>1 DEF BeginAttempt, TypeOK, NextAttempt
  <2>3. tools' \in [Runs -> Seq(Calls)]
    BY <1>4 DEF BeginAttempt, TypeOK, ClearedCalls
  <2>4. TypeOK'
    BY <1>0, <1>1, <1>4, <2>2, <2>3, SMTT(30) DEF BeginAttempt, TypeOK, Statuses, Waiting
  <2>5. AttemptsLeft'
    BY <1>0, <1>4, <2>1, <2>2 DEF BeginAttempt, TypeOK, AttemptsLeft, NextAttempt
  <2>6. QED  BY <2>4, <2>5
<1>5. ASSUME NEW r \in Runs, CallTool(r) PROVE TypeOK' /\ AttemptsLeft'
  <2> DEFINE entry == <<r, attempts[r], made[r] + 1>>
  <2>1. made[r] + 1 \in 1 .. MaxCalls /\ entry \in Calls
    BY <1>0, <1>5 DEF CallTool, AttemptsLeft, TypeOK, Calls
  <2>2. tools' = tools \/ (recorder \in Runs
                           /\ tools' = [tools EXCEPT ![recorder] = Append(@, entry)])
    BY <1>5 DEF CallTool, TypeOK
  <2> HIDE DEF entry
  <2>3. tools' \in [Runs -> Seq(Calls)]
    <3>1. CASE tools' = tools
      BY <3>1 DEF TypeOK
    <3>2. CASE recorder \in Runs /\ tools' = [tools EXCEPT ![recorder] = Append(@, entry)]
      <4>1. Append(tools[recorder], entry) \in Seq(Calls)
        BY <2>1, <3>2 DEF TypeOK
      <4>2. QED  BY <3>2, <4>1 DEF TypeOK
    <3>3. QED  BY <2>2, <3>1, <3>2
  <2>4. /\ made' = [made EXCEPT ![r] = made[r] + 1]
        /\ broken' \in [Runs -> {"no", "refused", "raised"}]
        /\ UNCHANGED <<pc, subject, status, attempts, output, late, error, recorder, previous>>
    BY <1>5 DEF CallTool, TypeOK
  <2>5. made' \in [Runs -> 0 .. MaxCalls]
    BY <1>0, <2>1, <2>4 DEF TypeOK
  <2>6. TypeOK'
    BY <1>1, <2>3, <2>4, <2>5 DEF TypeOK
  <2>7. AttemptsLeft'
    BY <2>4 DEF AttemptsLeft
  <2>8. QED  BY <2>6, <2>7
<1>6. ASSUME NEW r \in Runs, HandlerEnds(r) PROVE TypeOK' /\ AttemptsLeft'
  <2>1. PICK outcome \in {"none", "failed", "timeout"} :
          /\ error' = [error EXCEPT ![r] = outcome]
          /\ pc' = [pc EXCEPT ![r] =
               IF outcome # "none" /\ MayRetry(r) THEN "execute" ELSE "conclude"]
    BY <1>6 DEF HandlerEnds, Outcomes
  <2>2. /\ recorder' = previous[r] /\ previous' = [previous EXCEPT ![r] = NoRun]
        /\ late' = [late EXCEPT ![r] = FALSE]
        /\ UNCHANGED <<subject, status, attempts, tools, output, made, broken>>
    BY <1>6 DEF HandlerEnds
  <2>3. TypeOK'
    BY <1>1, <2>1, <2>2 DEF TypeOK, Waiting
  <2>4. AttemptsLeft'
    BY <2>1, <2>2 DEF AttemptsLeft, MayRetry, TypeOK
  <2>5. QED  BY <2>3, <2>4
<1>7. ASSUME NEW r \in Runs, TimeOut(r) PROVE TypeOK' /\ AttemptsLeft'
  BY <1>1, <1>7 DEF TimeOut, TypeOK, AttemptsLeft
<1>8. ASSUME NEW r \in Runs, Recording(r) \/ RecordRaises(r) PROVE TypeOK' /\ AttemptsLeft'
  <2>1. UNCHANGED <<subject, status, output, work>>
    BY <1>8 DEF Recording, RecordRaises
  <2>2. pc' = pc \/ pc' = [pc EXCEPT ![r] = "aborted"]
    BY <1>8 DEF Recording, RecordRaises, TypeOK
  <2>3. QED  BY <1>1, <2>1, <2>2 DEF TypeOK, AttemptsLeft, work, Waiting
<1>9. CASE UNCHANGED vars
  BY <1>1, <1>9 DEF vars, work, TypeOK, AttemptsLeft
<1>10. QED
  BY <1>2, <1>3, <1>4, <1>5, <1>6, <1>7, <1>8, <1>9 DEF Next, Run, Submit, Execution, Handler

LEMMA NotesStep == TypeOK /\ NotesAreDone /\ [Next]_vars => NotesAreDone'
<1> SUFFICES ASSUME TypeOK, NotesAreDone, [Next]_vars PROVE NotesAreDone'
  OBVIOUS
<1>0. NoRun \notin Runs /\ NoSymbol \notin Symbols
  BY AuditAssumption
<1>1. ASSUME NEW r \in Runs, NEW s, Analysed(r, s) PROVE Analysed(r, s)'
  BY <1>1, FinishedStay DEF Analysed
<1>2. ASSUME \A s \in Symbols : latest'[s] \in {latest[s], NoRun},
             \A r \in Runs, s \in Symbols : copy'[r][s] \in {copy[r][s], latest[s], NoRun},
             \A r \in Runs : sym'[r] \in {sym[r], NoSymbol}
      PROVE  NotesAreDone'
  <2>1. /\ \A s \in Symbols : latest[s] # NoRun => latest[s] \in Runs
        /\ \A r \in Runs, s \in Symbols : copy[r][s] # NoRun => copy[r][s] \in Runs
    BY DEF TypeOK, RecordTypeOK, AuditTypeOK
  <2>2. QED  BY <1>1, <1>2, <2>1 DEF NotesAreDone
<1>3. ASSUME NEW r \in Runs, Run(r) \/ Submit(r) \/ Queue(r) PROVE NotesAreDone'
  <2>1. /\ UNCHANGED <<latest, copy>> /\ sym' = [sym EXCEPT ![r] = NoSymbol]
    BY <1>3 DEF Run, Submit, Prepare, Queue, Begin, shared
  <2>2. QED  BY <1>2, <2>1 DEF TypeOK, RecordTypeOK
<1>4. ASSUME NEW r \in Runs, Store(r) PROVE NotesAreDone'
  <2> DEFINE about == IF status[r] = "succeeded" THEN subject[r] ELSE NoSymbol
  <2>1. /\ UNCHANGED <<latest, copy>> /\ sym' = [sym EXCEPT ![r] = about]
    BY <1>4 DEF Store, Begin, shared
  <2>2. \A s \in Symbols : about = s => Analysed(r, s)'
    BY <1>0, <1>4 DEF Store, Analysed, TypeOK
  <2> HIDE DEF about
  <2>3. /\ \A s \in Symbols : latest[s] # NoRun => latest[s] \in Runs
        /\ \A q \in Runs, s \in Symbols : copy[q][s] # NoRun => copy[q][s] \in Runs
        /\ sym'[r] = about /\ \A q \in Runs \ {r} : sym'[q] = sym[q]
    BY <2>1 DEF TypeOK, RecordTypeOK, AuditTypeOK
  <2>4. \A s \in Symbols, q \in Runs : latest'[s] = q => Analysed(q, s)'
    BY <1>0, <1>1, <2>1, <2>3 DEF NotesAreDone
  <2>5. \A u, q \in Runs, s \in Symbols : copy'[u][s] = q => Analysed(q, s)'
    BY <1>0, <1>1, <2>1, <2>3 DEF NotesAreDone
  <2>6. \A q \in Runs, s \in Symbols : sym'[q] = s => Analysed(q, s)'
    BY <1>0, <1>1, <2>2, <2>3 DEF NotesAreDone
  <2>7. \A q \in Runs : sym'[q] \in Symbols \cup {NoSymbol}
    BY <1>4, <2>3 DEF TypeOK, RecordTypeOK, about
  <2>8. /\ \A s \in Symbols : latest'[s] # NoRun => latest'[s] \in Runs
        /\ \A q \in Runs, s \in Symbols : copy'[q][s] # NoRun => copy'[q][s] \in Runs
    BY <2>1, <2>3
  <2>9. QED  BY <2>4, <2>5, <2>6, <2>7, <2>8 DEF NotesAreDone
<1>5. ASSUME NEW q \in Runs, at[q] = "note" \/ at[q] = "assign", UNCHANGED <<pc, status, subject, output>>,
             NEW seen \in [Symbols -> Runs \cup {NoRun}], latest' = seen,
             \A s \in Symbols : seen[s] \in {latest[s], copy[q][s]} \/ (s = sym[q] /\ seen[s] = q),
             \A r \in Runs, s \in Symbols : copy'[r][s] \in {copy[r][s], NoRun},
             \A r \in Runs : sym'[r] \in {sym[r], NoSymbol}
      PROVE  NotesAreDone'
  <2>1. \A r, s : Analysed(r, s)' <=> Analysed(r, s)
    BY <1>5 DEF Analysed
  <2>2. \A s \in Symbols : seen[s] # NoRun => Analysed(seen[s], s)
    BY <1>0, <1>5 DEF NotesAreDone
  <2>3. QED  BY <1>5, <2>1, <2>2 DEF NotesAreDone
<1>6. ASSUME NEW r \in Runs, Recording(r) \/ RecordRaises(r) PROVE NotesAreDone'
  <2>1. UNCHANGED <<status, subject, output>>
    BY <1>6 DEF Recording, RecordRaises
  <2>2. CASE Recording(r)
    <3>1. CASE InsertId(r) \/ Put(r) \/ Loop(r) \/ Pop(r) \/ Drop(r)
      <4>1. UNCHANGED <<latest, copy, sym>>
        BY <3>1 DEF InsertId, Put, Loop, Pop, Drop, locals, shared
      <4>2. QED  BY <1>2, <4>1
    <3>2. CASE Copy(r)
      <4>1. /\ UNCHANGED <<latest, sym>>
            /\ copy' = [copy EXCEPT ![r] =
                 [s \in Symbols |-> IF latest[s] = expired[r] THEN NoRun ELSE latest[s]]]
        BY <3>2 DEF Copy, shared
      <4>2. \A q \in Runs, s \in Symbols : copy'[q][s] \in {copy[q][s], latest[s], NoRun}
        BY <4>1 DEF TypeOK, RecordTypeOK
      <4>3. QED  BY <1>2, <4>1, <4>2
    <3>3. CASE Return(r)
      <4>1. /\ latest' = latest /\ sym' = [sym EXCEPT ![r] = NoSymbol]
            /\ copy' = [copy EXCEPT ![r] = NoMap]
        BY <3>3 DEF Return, Forgotten, shared
      <4>2. \A q \in Runs, s \in Symbols : copy'[q][s] \in {copy[q][s], NoRun}
        BY <4>1 DEF TypeOK, RecordTypeOK, NoMap
      <4>3. \A q \in Runs : sym'[q] \in {sym[q], NoSymbol}
        BY <4>1 DEF TypeOK, RecordTypeOK
      <4>4. QED  BY <1>2, <4>1, <4>2, <4>3
    <3>4. CASE Note(r)
      <4>1. /\ at[r] = "note" /\ latest' = [latest EXCEPT ![sym[r]] = r] /\ UNCHANGED <<copy, sym, pc>>
        BY <2>2, <3>4 DEF Note, NoteIt, locals, Recording
      <4>2. latest' \in [Symbols -> Runs \cup {NoRun}]
        BY <4>1 DEF TypeOK, RecordTypeOK, AuditTypeOK
      <4>3. \A s \in Symbols : latest'[s] = latest[s] \/ (s = sym[r] /\ latest'[s] = r)
        BY <4>1 DEF TypeOK, RecordTypeOK, AuditTypeOK
      <4>4. QED  BY <1>5, <2>1, <4>1, <4>2, <4>3
    <3>5. CASE Assign(r)
      <4>1. at[r] = "assign" /\ latest' = copy[r] /\ UNCHANGED <<copy, sym, pc>>
        BY <2>2, <3>5 DEF Assign, locals, Recording
      <4>2. latest' \in [Symbols -> Runs \cup {NoRun}]
        BY <4>1 DEF TypeOK, RecordTypeOK
      <4>3. QED  BY <1>5, <2>1, <4>1, <4>2
    <3>6. QED  BY <2>2, <3>1, <3>2, <3>3, <3>4, <3>5 DEF Recording, Statement
  <2>3. CASE RecordRaises(r)
    <3>1. PICK q \in Runs : Interrupted(r, q)
      BY <2>3 DEF RecordRaises
    <3>2. /\ at[q] = "note" /\ latest' = [latest EXCEPT ![sym[q]] = q]
          /\ sym' = [sym EXCEPT ![r] = NoSymbol] /\ copy' = [copy EXCEPT ![r] = NoMap]
      BY <3>1 DEF Interrupted, NoteIt, Forgotten
    <3>3. \A s \in Symbols : latest'[s] = latest[s] \/ (s = sym[q] /\ latest'[s] = q)
      BY <3>2 DEF TypeOK, RecordTypeOK, AuditTypeOK
    <3>4. /\ \A u \in Runs, s \in Symbols : copy'[u][s] \in {copy[u][s], NoRun}
          /\ \A u \in Runs : sym'[u] \in {sym[u], NoSymbol}
      BY <3>2 DEF TypeOK, RecordTypeOK, NoMap
    <3>5. /\ \A s \in Symbols : latest[s] # NoRun => latest[s] \in Runs
          /\ \A u \in Runs, s \in Symbols : copy[u][s] # NoRun => copy[u][s] \in Runs
      BY DEF TypeOK, RecordTypeOK, AuditTypeOK
    <3>6. QED  BY <1>0, <1>1, <3>3, <3>4, <3>5 DEF NotesAreDone
  <2>4. QED  BY <1>6, <2>2, <2>3
<1>7. ASSUME UNCHANGED recordVars PROVE NotesAreDone'
  BY <1>2, <1>7 DEF recordVars, shared, locals
<1>8. ASSUME NEW r \in Runs,
             \/ ExecuteDeferred(r) \/ BeginAttempt(r) \/ Conclude(r)
             \/ CallTool(r) \/ HandlerEnds(r) \/ TimeOut(r)
      PROVE  UNCHANGED recordVars
  BY <1>8 DEF ExecuteDeferred, BeginAttempt, Conclude, CallTool, HandlerEnds, TimeOut
<1>9. CASE UNCHANGED vars
  BY <1>7, <1>9 DEF vars
<1>10. QED  BY <1>3, <1>4, <1>6, <1>7, <1>8, <1>9 DEF Next, Execution, Handler

LEMMA TrailStep == TrailInv /\ [Next]_vars => TrailInv'
<1> SUFFICES ASSUME TrailInv, [Next]_vars PROVE TrailInv'
  OBVIOUS
<1>1. TypeOK' /\ AttemptsLeft' /\ NotesAreDone'
  BY TypeStep, NotesStep DEF TrailInv
<1>2. ListedOnce'
  <2>1. ListInv
    BY DEF TrailInv, TypeOK, ListInv
  <2>2. CASE RecordNext
    BY <2>1, <2>2, ListStep DEF ListInv
  <2>3. CASE UNCHANGED recordVars
    BY <2>1, <2>3 DEF recordVars, shared, locals, ListInv, ListedOnce, Kept, AtRest, Outside
  <2>4. QED  BY <2>2, <2>3, NextRecords DEF TrailInv
<1>3. QED  BY <1>1, <1>2 DEF TrailInv

\* Every variable keeps its type for any number of runs, symbols, attempts and
\* calls; in particular no retry exceeds max_attempts.
THEOREM TypeCorrect == Spec => []TypeOK
<1>1. TrailInv => TypeOK
  BY DEF TrailInv
<1>2. QED  BY TrailInit, TrailStep, <1>1, PTL DEF Spec

\* However the unlocked statements of record interleave, for any number of runs that
\* are registered, queued, retried and recorded again: list_runs shows no run twice,
\* the list is within its cap when no call is under way, also when some raised, and
\* latest_analysis answers with stored, successful analyses of the symbol asked for.
THEOREM LatestIsSound == Spec => []TrailIsSound
<1>1. TrailInv => TrailIsSound
  <2> SUFFICES ASSUME TrailInv PROVE TrailIsSound
    OBVIOUS
  <2>1. NoRunIsListedTwice
    BY DEF TrailInv, ListedOnce, NoRunIsListedTwice
  <2>2. TrimmedAtRest
    <3>1. Len(order) \in Nat /\ Cap \in Nat
      BY AuditAssumption DEF TrailInv, TypeOK, RecordTypeOK, AuditTypeOK
    <3>2. QED  BY <3>1 DEF TrailInv, ListedOnce, TrimmedAtRest
  <2>3. LatestIsSuccessful
    BY AuditAssumption DEF TrailInv, TypeOK, RecordTypeOK, NotesAreDone, Analysed,
       LatestIsSuccessful, latest_analysis
  <2>4. QED  BY <2>1, <2>2, <2>3 DEF TrailIsSound
<1>2. QED  BY TrailInit, TrailStep, <1>1, PTL DEF Spec

-----------------------------------------------------------------------------
(* Records of runs that do not overlap *)

\* One run executes at a time, and while its handler runs it is the recorder;
\* the recorder it will restore is none.
OneRecorder ==
  /\ \A q, r \in Runs : q # r => pc[q] \in Waiting \/ pc[r] \in Waiting
  /\ \A r \in Runs : pc[r] = "handler" => recorder = r /\ previous[r] = NoRun
  /\ recorder # NoRun => recorder \in Runs /\ pc[recorder] = "handler"

\* From the first call of an attempt on, the record lists its answered calls so far;
\* one that did not answer fails the attempt.
RecordsCalls ==
  \A r \in Runs :
    /\ pc[r] \in {"handler", "conclude", "store", "done"} => tools[r] = Called(r, Answered(r))
    /\ status[r] \in Final => pc[r] \in {"store", "done"}
    /\ (pc[r] = "conclude" /\ error[r] = "none") \/ status[r] = "succeeded" => broken[r] = "no"

\* The thread of a run is in record between its other steps only.
RecordingWhere ==
  \A r \in Runs : ~Outside(r) => pc[r] \in {"execute", "queue", "deferred", "done"}

SoloInv == OneRecorder /\ RecordsCalls /\ RecordingWhere

\* One call more is one entry more.
LEMMA CalledAppend ==
  ASSUME NEW r, NEW n \in Nat
  PROVE  Append(Called(r, n), <<r, attempts[r], n + 1>>) = Called(r, n + 1)
<1> DEFINE entry(i) == <<r, attempts[r], i>>
           S == {entry(i) : i \in 1 .. n + 1}
<1>1. Called(r, n) = [i \in 1 .. n |-> entry(i)] /\ Called(r, n + 1) = [i \in 1 .. n + 1 |-> entry(i)]
  BY DEF Called
<1>2. n + 1 \in 1 .. n + 1 /\ entry(n + 1) \in S
  OBVIOUS
<1> HIDE DEF entry
<1>3. [i \in 1 .. n |-> entry(i)] \in Seq(S) /\ Len([i \in 1 .. n |-> entry(i)]) = n
  OBVIOUS
<1>4. [i \in 1 .. n + 1 |-> entry(i)] \in Seq(S) /\ Len([i \in 1 .. n + 1 |-> entry(i)]) = n + 1
  OBVIOUS
<1>5. Append([i \in 1 .. n |-> entry(i)], entry(n + 1)) = [i \in 1 .. n + 1 |-> entry(i)]
  BY <1>2, <1>3, <1>4
<1>6. QED  BY <1>1, <1>5 DEF entry

LEMMA SoloInit == Init => SoloInv
BY DEF Init, RecordInit, SoloInv, OneRecorder, RecordsCalls, RecordingWhere, Outside, Waiting, Final

\* Steps that only enter record, from a place where that may be, or change nothing of it.
LEMMA WhereStep == TypeOK /\ RecordingWhere /\ [Next]_vars => RecordingWhere'
<1> SUFFICES ASSUME TypeOK, RecordingWhere, [Next]_vars PROVE RecordingWhere'
  OBVIOUS
<1> DEFINE Places == {"execute", "queue", "deferred", "done"}
<1>0. at \in [Runs -> Labels] /\ pc \in [Runs -> Waiting \cup {"execute", "handler", "conclude", "store"}]
  BY DEF TypeOK, RecordTypeOK
<1>1. ASSUME NEW r \in Runs, NEW next \in Places, pc' = [pc EXCEPT ![r] = next],
             \A q \in Runs \ {r} : at'[q] # "outside" => at[q] # "outside"
      PROVE  RecordingWhere'
  BY <1>0, <1>1 DEF RecordingWhere, Outside
<1>2. ASSUME NEW r \in Runs, at[r] = "outside", at' = at,
             \A q \in Runs \ {r} : pc'[q] = pc[q]
      PROVE  RecordingWhere'
  BY <1>2 DEF RecordingWhere, Outside
<1>3. ASSUME NEW r \in Runs, Run(r) \/ Submit(r) \/ Queue(r) \/ Store(r) PROVE RecordingWhere'
  <2>1. at' = [at EXCEPT ![r] = "insert"]
    BY <1>3 DEF Run, Submit, Prepare, Queue, Store, Begin, Goto
  <2>2. PICK next \in Places : pc' = [pc EXCEPT ![r] = next]
    BY <1>3 DEF Run, Submit, Prepare, Queue, Store
  <2>3. \A q \in Runs \ {r} : at'[q] = at[q]
    BY <1>0, <2>1
  <2>4. QED  BY <1>1, <2>2, <2>3
<1>4. ASSUME NEW r \in Runs,
             \/ ExecuteDeferred(r) \/ BeginAttempt(r) \/ Conclude(r)
             \/ CallTool(r) \/ HandlerEnds(r) \/ TimeOut(r)
      PROVE  RecordingWhere'
  <2>1. UNCHANGED recordVars
    BY <1>4 DEF ExecuteDeferred, BeginAttempt, Conclude, CallTool, HandlerEnds, TimeOut
  <2>2. at' = at
    BY <2>1 DEF recordVars
  <2>3. at[r] = "outside"
    BY <1>4 DEF ExecuteDeferred, BeginAttempt, Conclude, CallTool, HandlerEnds, TimeOut,
       RecordingWhere, Outside
  <2>4. \A q \in Runs \ {r} : pc'[q] = pc[q]
    <3>1. pc' = pc \/ \E next : pc' = [pc EXCEPT ![r] = next]
      BY <1>4 DEF ExecuteDeferred, BeginAttempt, Conclude, CallTool, HandlerEnds, TimeOut
    <3>2. QED  BY <1>0, <3>1
  <2>5. QED  BY <1>2, <2>2, <2>3, <2>4
<1>5. ASSUME NEW r \in Runs, Recording(r) PROVE RecordingWhere'
  <2>1. pc' = pc /\ at[r] # "outside"
    BY <1>5 DEF Recording, Statement, InsertId, Put, Note, Loop, Pop, Drop, Copy, Assign, Return
  <2>2. \E l : at' = [at EXCEPT ![r] = l]
    BY <1>5 DEF Recording, Statement, InsertId, Put, Note, Loop, Pop, Drop, Copy, Assign, Return, Goto
  <2>3. QED  BY <1>0, <2>1, <2>2 DEF RecordingWhere, Outside
<1>6. ASSUME NEW r \in Runs, RecordRaises(r) PROVE RecordingWhere'
  <2>1. PICK q \in Runs : Interrupted(r, q)
    BY <1>6 DEF RecordRaises
  <2>2. at[r] = "copy" /\ at[q] = "note" /\ at' = [at EXCEPT ![r] = "outside", ![q] = "check"]
    BY <2>1 DEF Interrupted
  <2>3. \A u \in Runs \ {r} : pc'[u] = pc[u]
    BY <1>0, <1>6 DEF RecordRaises
  <2>4. QED  BY <1>0, <2>2, <2>3 DEF RecordingWhere, Outside
<1>7. CASE UNCHANGED vars
  BY <1>7 DEF vars, recordVars, RecordingWhere, Outside
<1>8. QED  BY <1>3, <1>4, <1>5, <1>6, <1>7 DEF Next, Execution, Handler

\* Steps that do not touch the calls, the attempts or the recorder.
CallsStay == UNCHANGED <<attempts, tools, made, broken, recorder, previous>>

LEMMA SoloStep ==
  ASSUME ~Overlap, TypeOK, SoloInv, [Next]_vars
  PROVE  SoloInv' /\ RecordsStand
<1> USE DEF TypeOK
<1>0. NoRun \notin Runs /\ MaxCalls \in Nat
  BY AuditAssumption, RunsAssumption
<1>w. RecordingWhere'
  BY WhereStep DEF SoloInv
<1>c. ASSUME NEW q \in Runs, tools'[q] = tools[q], attempts'[q] = attempts[q],
             made'[q] = made[q], broken'[q] = broken[q]
      PROVE  tools'[q] = Called(q, Answered(q))' <=> tools[q] = Called(q, Answered(q))
  BY <1>c DEF Called, Answered
<1>1. ASSUME NEW r \in Runs, NEW next \in {"execute", "queue"},
             Prepare(r, next), next = "execute" => MayExecute(r)
      PROVE  SoloInv' /\ RecordsStand
  <2>1. /\ pc[r] = "new" /\ pc' = [pc EXCEPT ![r] = next] /\ status' = [status EXCEPT ![r] = "running"]
        /\ UNCHANGED <<output, error>> /\ CallsStay
    BY <1>1 DEF Prepare, work, CallsStay
  <2>2. OneRecorder'
    BY <1>0, <1>1, <2>1 DEF SoloInv, OneRecorder, MayExecute, Waiting, CallsStay
  <2>3. RecordsCalls'
    BY <1>1, <1>c, <2>1 DEF SoloInv, RecordsCalls, Final, CallsStay
  <2>4. RecordsStand
    BY <2>1 DEF RecordsStand, CallsStay
  <2>5. QED  BY <1>w, <2>2, <2>3, <2>4 DEF SoloInv
<1>2. ASSUME NEW r \in Runs, ExecuteDeferred(r) \/ Queue(r) PROVE SoloInv' /\ RecordsStand
  <2>1. /\ pc[r] \in {"queue", "deferred"} /\ UNCHANGED <<output, error>> /\ CallsStay
        /\ status' = status \/ status' = [status EXCEPT ![r] = "queued"]
    BY <1>2 DEF ExecuteDeferred, Queue, work, CallsStay
  <2>2. \/ pc' = [pc EXCEPT ![r] = "execute"] /\ MayExecute(r)
        \/ pc' = [pc EXCEPT ![r] = "deferred"]
    BY <1>2 DEF ExecuteDeferred, Queue
  <2>3. OneRecorder'
    <3>1. CASE pc' = [pc EXCEPT ![r] = "execute"] /\ MayExecute(r)
      BY <1>0, <2>1, <3>1 DEF SoloInv, OneRecorder, MayExecute, Waiting, CallsStay
    <3>2. CASE pc' = [pc EXCEPT ![r] = "deferred"]
      BY <1>0, <2>1, <3>2 DEF SoloInv, OneRecorder, Waiting, CallsStay
    <3>3. QED  BY <2>2, <3>1, <3>2
  <2>4. RecordsCalls'
    BY <1>c, <2>1, <2>2 DEF SoloInv, RecordsCalls, Final, CallsStay
  <2>5. RecordsStand
    BY <2>1, <2>2 DEF RecordsStand, CallsStay
  <2>6. QED  BY <1>w, <2>3, <2>4, <2>5 DEF SoloInv
<1>3. ASSUME NEW r \in Runs, BeginAttempt(r) PROVE SoloInv' /\ RecordsStand
  <2>1. /\ pc[r] = "execute" /\ pc' = [pc EXCEPT ![r] = "handler"]
        /\ attempts' = [attempts EXCEPT ![r] = NextAttempt(r)]
        /\ tools' = [tools EXCEPT ![r] = <<>>] /\ made' = [made EXCEPT ![r] = 0]
        /\ broken' = [broken EXCEPT ![r] = "no"]
        /\ status' = [status EXCEPT ![r] = "running"]
        /\ previous' = [previous EXCEPT ![r] = recorder] /\ recorder' = r
        /\ output' = output /\ error' = error
    BY <1>3 DEF BeginAttempt, ClearedCalls
  <2>2. recorder = NoRun
    BY <2>1 DEF SoloInv, OneRecorder, Waiting
  <2>3. OneRecorder'
    BY <1>0, <2>1, <2>2 DEF SoloInv, OneRecorder, Waiting
  <2>4. tools'[r] = Called(r, Answered(r))'
    <3>1. made'[r] = 0 /\ broken'[r] = "no" /\ tools'[r] = <<>>
      BY <2>1
    <3>2. Answered(r)' = 0
      BY <3>1 DEF Answered
    <3>3. QED  BY <3>1, <3>2 DEF Called
  <2>5. \A q \in Runs \ {r} : tools'[q] = Called(q, Answered(q))' <=> tools[q] = Called(q, Answered(q))
    BY <1>c, <2>1
  <2>6. RecordsCalls'
    BY <2>1, <2>4, <2>5 DEF SoloInv, RecordsCalls, Final
  <2>7. RecordsStand
    BY <2>1 DEF RecordsStand
  <2>8. QED  BY <1>w, <2>3, <2>6, <2>7 DEF SoloInv
<1>4. ASSUME NEW r \in Runs, CallTool(r) PROVE SoloInv' /\ RecordsStand
  <2>1. /\ pc[r] = "handler" /\ recorder = r /\ recorder # NoRun /\ broken[r] = "no"
        /\ made' = [made EXCEPT ![r] = made[r] + 1]
        /\ UNCHANGED <<pc, status, attempts, output, error, recorder, previous>>
    BY <1>0, <1>4 DEF CallTool, SoloInv, OneRecorder
  <2>2. PICK outcome \in {"no", "refused", "raised"} :
          /\ broken' = [broken EXCEPT ![r] = outcome]
          /\ tools' = IF outcome = "raised" THEN tools
                      ELSE [tools EXCEPT ![r] = Append(tools[r], <<r, attempts[r], made[r] + 1>>)]
    BY <1>4, <2>1 DEF CallTool
  <2>3. OneRecorder'
    BY <2>1 DEF SoloInv, OneRecorder
  <2>4. made[r] \in Nat /\ tools[r] = Called(r, made[r])
    <3>1. made[r] \in Nat /\ tools[r] = Called(r, Answered(r))
      BY <1>0, <2>1 DEF SoloInv, RecordsCalls
    <3>2. QED  BY <2>1, <3>1 DEF Answered
  <2>5. /\ made'[r] = made[r] + 1 /\ broken'[r] = outcome /\ attempts' = attempts
        /\ tools'[r] = IF outcome = "raised" THEN tools[r]
                       ELSE Append(tools[r], <<r, attempts[r], made[r] + 1>>)
    BY <2>1, <2>2
  <2>6. tools'[r] = Called(r, Answered(r))'
    <3>1. CASE outcome = "raised"
      <4>1. Answered(r)' = made[r]
        BY <2>4, <2>5, <3>1 DEF Answered
      <4>2. QED  BY <2>4, <2>5, <3>1, <4>1 DEF Called
    <3>2. CASE outcome # "raised"
      <4>1. Answered(r)' = made[r] + 1
        BY <2>5, <3>2 DEF Answered
      <4>2. tools'[r] = Called(r, made[r] + 1)
        BY <2>4, <2>5, <3>2, CalledAppend
      <4>3. QED  BY <2>5, <4>1, <4>2 DEF Called
    <3>3. QED  BY <3>1, <3>2
  <2>7. \A q \in Runs \ {r} : tools'[q] = tools[q] /\ broken'[q] = broken[q] /\ made'[q] = made[q]
    BY <2>1, <2>2
  <2>8. \A q \in Runs \ {r} : tools'[q] = Called(q, Answered(q))' <=> tools[q] = Called(q, Answered(q))
    BY <1>c, <2>1, <2>7
  <2>9. status[r] # "succeeded"
    BY <2>1 DEF SoloInv, RecordsCalls, Final
  <2>10. RecordsCalls'
    BY <2>1, <2>6, <2>7, <2>8, <2>9 DEF SoloInv, RecordsCalls
  <2>11. RecordsStand
    BY <2>1, <2>7 DEF RecordsStand
  <2>12. QED  BY <1>w, <2>3, <2>10, <2>11 DEF SoloInv
<1>5. ASSUME NEW r \in Runs, HandlerEnds(r) PROVE SoloInv' /\ RecordsStand
  <2>1. /\ pc[r] = "handler" /\ recorder' = previous[r]
        /\ previous' = [previous EXCEPT ![r] = NoRun]
        /\ UNCHANGED <<status, attempts, tools, output, made, broken>>
    BY <1>5 DEF HandlerEnds
  <2>2. PICK outcome \in Outcomes(r), next \in {"execute", "conclude"} :
          pc' = [pc EXCEPT ![r] = next] /\ error' = [error EXCEPT ![r] = outcome]
    BY <1>5 DEF HandlerEnds
  <2>3. OneRecorder'
    BY <1>0, <2>1, <2>2 DEF SoloInv, OneRecorder, Waiting
  <2>4. error'[r] = "none" => broken[r] = "no"
    BY <2>2 DEF Outcomes
  <2>5. RecordsCalls'
    BY <1>c, <2>1, <2>2, <2>4 DEF SoloInv, RecordsCalls
  <2>6. RecordsStand
    BY <2>1, <2>2 DEF RecordsStand
  <2>7. QED  BY <1>w, <2>3, <2>5, <2>6 DEF SoloInv
<1>6. ASSUME NEW r \in Runs, Conclude(r) PROVE SoloInv' /\ RecordsStand
  <2>1. /\ pc[r] = "conclude" /\ pc' = [pc EXCEPT ![r] = "store"]
        /\ status' = [status EXCEPT ![r] = IF error[r] = "none" THEN "succeeded" ELSE error[r]]
        /\ UNCHANGED <<output, error>> /\ CallsStay
    BY <1>6 DEF Conclude, work, CallsStay
  <2>2. OneRecorder'
    BY <1>0, <2>1 DEF SoloInv, OneRecorder, Waiting, CallsStay
  <2>3. RecordsCalls'
    BY <1>c, <2>1 DEF SoloInv, RecordsCalls, CallsStay
  <2>4. RecordsStand
    BY <2>1 DEF RecordsStand, CallsStay
  <2>5. QED  BY <1>w, <2>2, <2>3, <2>4 DEF SoloInv
<1>7. ASSUME NEW r \in Runs, Store(r) PROVE SoloInv' /\ RecordsStand
  <2>1. /\ pc[r] = "store" /\ pc' = [pc EXCEPT ![r] = "done"]
        /\ \A q \in Runs \ {r} : output'[q] = output[q]
        /\ UNCHANGED <<status, error>> /\ CallsStay
    BY <1>7 DEF Store, work, CallsStay
  <2>2. OneRecorder'
    BY <1>0, <2>1 DEF SoloInv, OneRecorder, Waiting, CallsStay
  <2>3. RecordsCalls'
    BY <1>c, <2>1 DEF SoloInv, RecordsCalls, CallsStay
  <2>4. RecordsStand
    BY <2>1 DEF RecordsStand, CallsStay
  <2>5. QED  BY <1>w, <2>2, <2>3, <2>4 DEF SoloInv
<1>8. ASSUME NEW r \in Runs, RecordRaises(r) PROVE SoloInv' /\ RecordsStand
  <2>1. /\ pc' = [pc EXCEPT ![r] = IF pc[r] = "done" THEN "done" ELSE "aborted"]
        /\ UNCHANGED <<status, output, error>> /\ CallsStay
    BY <1>8 DEF RecordRaises, work, CallsStay
  <2>2. pc[r] \in {"execute", "queue", "deferred", "done"}
    BY <1>8 DEF RecordRaises, Interrupted, SoloInv, RecordingWhere, Outside
  <2>3. OneRecorder'
    BY <1>0, <2>1, <2>2 DEF SoloInv, OneRecorder, Waiting, CallsStay
  <2>4. RecordsCalls'
    BY <1>c, <2>1, <2>2 DEF SoloInv, RecordsCalls, CallsStay
  <2>5. RecordsStand
    BY <2>1, <2>2 DEF RecordsStand, CallsStay
  <2>6. QED  BY <1>w, <2>3, <2>4, <2>5 DEF SoloInv
<1>9. CASE UNCHANGED <<pc, status, output, error>> /\ CallsStay
  BY <1>c, <1>w, <1>9 DEF SoloInv, OneRecorder, RecordsCalls, RecordsStand, CallsStay
<1>10. QED
  BY <1>1, <1>2, <1>3, <1>4, <1>5, <1>6, <1>7, <1>8, <1>9 DEF Next, Run, Submit, Execution, Handler,
     TimeOut, Recording, vars, work, CallsStay

\* As long as no two runs execute at the same time, a finished run's record shows
\* exactly the calls of its last attempt that answered, in order: all of them if it
\* succeeded, all but a last one whose tool raised if it failed, however often attempts
\* fail, time out and are retried.
THEOREM RecordsShowTheirCalls ==
  ASSUME ~Overlap
  PROVE  Spec => []AnsweredCallsMirrored
<1>1. TypeOK /\ SoloInv /\ [Next]_vars => SoloInv'
  BY SoloStep
<1>2. SoloInv => AnsweredCallsMirrored
  BY DEF SoloInv, RecordsCalls, AnsweredCallsMirrored, Final, Answered
<1>3. QED  BY SoloInit, <1>1, <1>2, TypeCorrect, PTL DEF Spec

\* And once a run has finished, no later run changes its record or runs it again.
THEOREM RecordsAreFrozen ==
  ASSUME ~Overlap
  PROVE  Spec => FinishedRunsAreFrozen
<1>1. TypeOK /\ SoloInv /\ [Next]_vars => SoloInv'
  BY SoloStep
<1>2. TypeOK /\ SoloInv /\ [Next]_vars => [RecordsStand]_vars
  BY SoloStep
<1>3. QED  BY SoloInit, <1>1, <1>2, TypeCorrect, PTL DEF Spec, FinishedRunsAreFrozen

-----------------------------------------------------------------------------
(* The statements of record: the invariant says where a call that is under *)
(* way has got to, relative to what callers saw when it began.             *)

Maps == [Symbols -> Runs \cup {NoRun}]

\* What the call for run t makes of the list and the map it found.
Inserted(t) ==
  IF t \in ToSet(rest.order) THEN rest.order ELSE Append(rest.order, t)

Noted(t) == [s \in Symbols |-> IF s = sym[t] THEN t ELSE rest.latest[s]]

Without(map, r) == [s \in Symbols |-> IF map[s] = r THEN NoRun ELSE map[s]]

Found == order = rest.order /\ latest = rest.latest /\ runs = ToSet(rest.order)

Whole(t) == order = Inserted(t) /\ latest = Noted(t) /\ runs = ToSet(Inserted(t))

Popped(t) ==
  /\ Len(Inserted(t)) = Cap + 1 /\ order = Tail(Inserted(t))
  /\ expired[t] = Head(Inserted(t))

Trimmed(t) ==
  /\ Len(Inserted(t)) = Cap + 1 /\ order = Tail(Inserted(t)) /\ runs = ToSet(order)
  /\ latest = Without(Noted(t), Head(Inserted(t)))

\* Where the call for run t has got to.
Progress(t) ==
  /\ sym[t] \in Symbols \cup {NoSymbol}
  /\ at[t] = "insert" => Found
  /\ at[t] = "put" =>
       order = Inserted(t) /\ latest = rest.latest /\ runs = ToSet(rest.order)
  /\ at[t] = "note" =>
       /\ order = Inserted(t) /\ latest = rest.latest /\ runs = ToSet(Inserted(t))
       /\ sym[t] # NoSymbol
  /\ at[t] = "check" => Whole(t) \/ Trimmed(t)
  /\ at[t] = "pop" => Whole(t) /\ Len(order) = Cap + 1
  /\ at[t] = "drop" => Popped(t) /\ latest = Noted(t) /\ runs = ToSet(Inserted(t))
  /\ at[t] = "copy" => Popped(t) /\ latest = Noted(t) /\ runs = ToSet(order)
  /\ at[t] = "assign" =>
       Popped(t) /\ runs = ToSet(order) /\ copy[t] = Without(Noted(t), expired[t])

RestType ==
  /\ rest.order \in Seq(Runs) /\ rest.latest \in Maps
  /\ IsInjective(rest.order) /\ Len(rest.order) <= Cap

StepsType ==
  /\ at \in [Runs -> Labels] /\ mixed \in BOOLEAN
  /\ sym \in [Runs -> Symbols \cup {NoSymbol}]
  /\ DOMAIN expired = Runs /\ DOMAIN copy = Runs

Alone == \A t, u \in Runs : at[t] # "outside" /\ at[u] # "outside" => t = u

Sequential ==
  ~mixed =>
    /\ RestType /\ Alone
    /\ AtRest => Found
    /\ \A t \in Runs : at[t] # "outside" => Progress(t)

-----------------------------------------------------------------------------
(* Lists of ids *)

LEMMA InsertedOnce ==
  ASSUME RestType, NEW t \in Runs
  PROVE  /\ Inserted(t) \in Seq(Runs) /\ IsInjective(Inserted(t))
         /\ Len(Inserted(t)) \in 1 .. Cap + 1
         /\ ToSet(Inserted(t)) = ToSet(rest.order) \cup {t}
<1> DEFINE o == rest.order  r == t  ids == Append(o, r)
<1>1. o \in Seq(Runs) /\ Len(o) \in Nat /\ Cap \in Nat \ {0} /\ Len(o) <= Cap /\ IsInjective(o)
  BY AuditAssumption DEF RestType
<1>2. r \in Runs
  OBVIOUS
<1>3. Inserted(t) = IF r \in ToSet(o) THEN o ELSE ids
  BY DEF Inserted
<1> HIDE DEF o, r
<1>4. CASE r \in ToSet(o)
  <2>1. Len(o) # 0
    BY <1>1, <1>4 DEF ToSet
  <2>2. QED  BY <1>1, <1>3, <1>4, <2>1 DEF o, r
<1>5. CASE r \notin ToSet(o)
  <2>1. /\ ids \in Seq(Runs) /\ Len(ids) = Len(o) + 1
        /\ DOMAIN ids = 1 .. Len(o) + 1 /\ DOMAIN o = 1 .. Len(o)
        /\ \A i \in DOMAIN ids : ids[i] = IF i = Len(o) + 1 THEN r ELSE o[i]
    BY <1>1, <1>2
  <2>2. \A i \in DOMAIN o : o[i] # r
    BY <1>5 DEF ToSet
  <2>3. IsInjective(ids)
    BY <1>1, <2>1, <2>2 DEF IsInjective
  <2>4. ToSet(ids) = ToSet(o) \cup {r}
    BY <1>1, <2>1 DEF ToSet
  <2>5. Len(ids) \in 1 .. Cap + 1
    BY <1>1, <2>1
  <2>6. QED  BY <1>3, <1>5, <2>1, <2>3, <2>4, <2>5 DEF o, r
<1>6. QED  BY <1>4, <1>5

-----------------------------------------------------------------------------
(* The statements of a call *)

LEMMA StepsTypeStep == StepsType /\ [StepsNext]_stepVars => StepsType'
<1> SUFFICES ASSUME StepsType, [StepsNext]_stepVars PROVE StepsType'
  OBVIOUS
<1> USE DEF StepsType, Labels, Goto
<1>1. ASSUME NEW t \in Runs, Enter(t) PROVE StepsType'
  BY <1>1 DEF Enter, Begin
<1>2. ASSUME NEW t \in Runs, InsertId(t) \/ Put(t) \/ Note(t) \/ Loop(t) \/ Drop(t) \/ Assign(t),
             UNCHANGED history
      PROVE  StepsType'
  BY <1>2 DEF InsertId, Put, Note, Loop, Drop, Assign, locals, history
<1>3. ASSUME NEW t \in Runs, Pop(t) \/ Copy(t), UNCHANGED history PROVE StepsType'
  BY <1>3 DEF Pop, Copy, history
<1>4. ASSUME NEW t \in Runs, Finish(t) PROVE StepsType'
  BY <1>4 DEF Finish, Return, Forgotten
<1>5. ASSUME NEW t \in Runs, NEW u \in Runs, Interrupted(t, u), UNCHANGED history PROVE StepsType'
  BY <1>5 DEF Interrupted, Forgotten, history
<1>6. CASE UNCHANGED stepVars
  BY <1>6 DEF stepVars, recordVars, locals, history
<1>7. QED  BY <1>1, <1>2, <1>3, <1>4, <1>5, <1>6 DEF StepsNext, Statement

\* Between its first and its last statement a lone call changes only its own progress.
LEMMA OnItsOwn ==
  ASSUME StepsType, Sequential, ~mixed, NEW t \in Runs, at[t] # "outside",
         NEW l \in Labels \ {"outside"}, Goto(t, l), UNCHANGED history, Progress(t)'
  PROVE  Sequential'
<1>1. RestType /\ Alone
  BY DEF Sequential
<1>2. at' = [at EXCEPT ![t] = l] /\ at'[t] # "outside"
  BY DEF Goto, StepsType
<1>3. \A u \in Runs : u # t => at'[u] = "outside"
  BY <1>1, <1>2 DEF Alone, StepsType
<1>4. RestType' /\ Alone' /\ ~AtRest'
  BY <1>1, <1>2, <1>3 DEF RestType, Alone, AtRest, Outside, history
<1>5. \A u \in Runs : at'[u] # "outside" => Progress(u)'
  <2>1. SUFFICES ASSUME NEW u \in Runs, at'[u] # "outside" PROVE Progress(u)'
    OBVIOUS
  <2>2. u = t
    BY <1>3, <2>1
  <2>3. QED  BY <2>2
<1>6. QED  BY <1>4, <1>5 DEF Sequential

LEMMA EnterStarts ==
  ASSUME StepsType, Sequential, NEW t \in Runs, Enter(t), ~mixed'
  PROVE  Sequential'
<1>1. ~mixed /\ AtRest /\ at[t] = "outside" /\ at' = [at EXCEPT ![t] = "insert"]
  BY DEF Enter, Begin, Outside, Goto
<1>2. RestType /\ Found
  BY <1>1 DEF Sequential
<1>3. UNCHANGED <<order, runs, latest, rest>>
  BY DEF Enter, Begin, shared
<1>4. sym'[t] \in Symbols \cup {NoSymbol}
  BY DEF Enter, Begin, StepsType
<1>5. at'[t] = "insert" /\ \A u \in Runs : u # t => at'[u] = "outside"
  BY <1>1 DEF AtRest, Outside, StepsType
<1>6. RestType' /\ Alone' /\ ~AtRest' /\ Found'
  BY <1>2, <1>3, <1>5 DEF RestType, Alone, AtRest, Outside, Found
<1>7. Progress(t)'
  BY <1>4, <1>5, <1>6 DEF Progress
<1>8. \A u \in Runs : at'[u] # "outside" => Progress(u)'
  <2>1. SUFFICES ASSUME NEW u \in Runs, at'[u] # "outside" PROVE Progress(u)'
    OBVIOUS
  <2>2. u = t
    BY <1>5, <2>1
  <2>3. QED  BY <1>7, <2>2
<1>9. QED  BY <1>6, <1>8 DEF Sequential

LEMMA NotedTyped ==
  ASSUME RestType, NEW t \in Runs
  PROVE  Noted(t) \in Maps
BY DEF Noted, RestType, Maps

LEMMA WithoutTyped ==
  ASSUME NEW map \in Maps, NEW r
  PROVE  Without(map, r) \in Maps
BY DEF Without, Maps

\* The call ends: what it leaves is what callers see from now on.
LEMMA FinishEnds ==
  ASSUME StepsType, Sequential, ~mixed, NEW t \in Runs, Finish(t)
  PROVE  /\ Sequential' /\ AtRest' /\ rest' = [order |-> order, latest |-> latest]
         /\ UNCHANGED shared
<1>1. /\ at[t] = "check" /\ at' = [at EXCEPT ![t] = "outside"]
      /\ rest' = [order |-> order, latest |-> latest]
      /\ Len(order) <= Cap /\ UNCHANGED <<order, runs, latest, mixed>>
  BY DEF Finish, Return, WithinCap, Goto, shared
<1>2. RestType /\ Alone /\ Progress(t)
  BY <1>1 DEF Sequential
<1>3. t \in Runs /\ (Whole(t) \/ Trimmed(t))
  BY <1>1, <1>2 DEF Progress
<1>4. /\ Inserted(t) \in Seq(Runs) /\ IsInjective(Inserted(t)) /\ Len(Inserted(t)) \in 1 .. Cap + 1
      /\ Noted(t) \in Maps /\ Cap \in Nat \ {0}
  BY <1>2, <1>3, InsertedOnce, NotedTyped, AuditAssumption
<1>5. /\ order \in Seq(Runs) /\ IsInjective(order) /\ runs = ToSet(order) /\ latest \in Maps
  <2>1. CASE Whole(t)
    BY <1>4, <2>1 DEF Whole
  <2>2. CASE Trimmed(t)
    BY <1>4, <2>2, TailOnce, WithoutTyped DEF Trimmed
  <2>3. QED  BY <1>3, <2>1, <2>2
<1>6. AtRest'
  BY <1>1, <1>2 DEF Alone, AtRest, Outside, StepsType
<1>7. RestType' /\ Found'
  BY <1>1, <1>5 DEF RestType, Found, WithinCap
<1>8. Alone' /\ \A u \in Runs : at'[u] = "outside"
  BY <1>6 DEF Alone, AtRest, Outside
<1>9. Sequential'
  BY <1>7, <1>8 DEF Sequential
<1>10. QED  BY <1>1, <1>6, <1>9 DEF shared

LEMMA CallProgresses ==
  ASSUME StepsType, Sequential, ~mixed, NEW t \in Runs,
         Statement(t), UNCHANGED history
  PROVE  Sequential' /\ UNCHANGED <<rest, mixed>> /\ at'[t] # "outside"
<1>1. at[t] # "outside" /\ sym' = sym
  BY DEF Statement, InsertId, Put, Note, Loop, Pop, Drop, Copy, Assign, locals, shared
<1>2. RestType /\ Progress(t)
  BY <1>1 DEF Sequential
<1>3. t \in Runs /\ sym[t] \in Symbols \cup {NoSymbol}
  BY <1>2 DEF Progress
<1>4. /\ Inserted(t) \in Seq(Runs) /\ IsInjective(Inserted(t)) /\ Len(Inserted(t)) \in 1 .. Cap + 1
      /\ ToSet(Inserted(t)) = ToSet(rest.order) \cup {t}
  BY <1>2, <1>3, InsertedOnce
<1>5. Inserted(t)' = Inserted(t) /\ Noted(t)' = Noted(t)
  BY <1>1 DEF Inserted, Noted, history
<1>6. Cap \in Nat \ {0} /\ NoSymbol \notin Symbols
  BY AuditAssumption
<1>7. \E l \in Labels \ {"outside"} : Goto(t, l) /\ Progress(t)'
  <2>1. CASE InsertId(t)
    <3>1. at[t] = "insert" /\ Goto(t, "put") /\ UNCHANGED <<runs, latest>>
          /\ order' = IF t \in runs THEN order ELSE Append(order, t)
      BY <2>1 DEF InsertId
    <3>2. Found
      BY <1>2, <3>1 DEF Progress
    <3>3. order' = Inserted(t)
      BY <3>1, <3>2 DEF Found, Inserted
    <3>4. at'[t] = "put"
      BY <3>1 DEF Goto, StepsType
    <3>5. Progress(t)'
      BY <1>1, <1>3, <1>5, <3>1, <3>2, <3>3, <3>4 DEF Progress, Found, history
    <3>6. QED  BY <3>1, <3>5 DEF Labels
  <2>2. CASE Put(t)
    <3>1. /\ at[t] = "put" /\ UNCHANGED <<order, latest>> /\ runs' = runs \cup {t}
          /\ Goto(t, IF sym[t] = NoSymbol THEN "check" ELSE "note")
      BY <2>2 DEF Put
    <3>2. order = Inserted(t) /\ latest = rest.latest /\ runs = ToSet(rest.order)
      BY <1>2, <3>1 DEF Progress
    <3>3. order' = Inserted(t) /\ latest' = rest.latest /\ runs' = ToSet(Inserted(t))
      BY <1>4, <3>1, <3>2
    <3>4. CASE sym[t] = NoSymbol
      <4>1. at'[t] = "check"
        BY <3>1, <3>4 DEF Goto, StepsType
      <4>2. Noted(t) = rest.latest
        BY <1>2, <1>6, <3>4 DEF Noted, RestType, Maps
      <4>3. Whole(t)'
        BY <1>5, <3>3, <4>2 DEF Whole
      <4>4. Progress(t)'
        BY <1>1, <1>3, <4>1, <4>3 DEF Progress
      <4>5. QED  BY <3>1, <3>4, <4>4 DEF Labels
    <3>5. CASE sym[t] # NoSymbol
      <4>1. at'[t] = "note"
        BY <3>1, <3>5 DEF Goto, StepsType
      <4>2. Progress(t)'
        BY <1>1, <1>3, <1>5, <3>3, <3>5, <4>1 DEF Progress, history
      <4>3. QED  BY <3>1, <3>5, <4>2 DEF Labels
    <3>6. QED  BY <3>4, <3>5
  <2>3. CASE Note(t)
    <3>1. /\ at[t] = "note" /\ UNCHANGED <<order, runs>> /\ Goto(t, "check")
          /\ latest' = [latest EXCEPT ![sym[t]] = t]
      BY <2>3 DEF Note, NoteIt
    <3>2. /\ order = Inserted(t) /\ latest = rest.latest /\ runs = ToSet(Inserted(t))
      BY <1>2, <3>1 DEF Progress
    <3>3. latest' = Noted(t)
      BY <1>2, <3>1, <3>2 DEF Noted, RestType, Maps
    <3>4. at'[t] = "check"
      BY <3>1 DEF Goto, StepsType
    <3>5. Whole(t)'
      BY <1>5, <3>1, <3>2, <3>3 DEF Whole
    <3>6. Progress(t)'
      BY <1>1, <1>3, <3>4, <3>5 DEF Progress
    <3>7. QED  BY <3>1, <3>6 DEF Labels
  <2>4. CASE Loop(t)
    <3>1. /\ at[t] = "check" /\ Goto(t, "pop") /\ UNCHANGED <<order, runs, latest>>
      BY <2>4 DEF Loop, shared
    <3>2. Len(order) > Cap
      BY <2>4, <1>4, <1>6, <1>2, <3>1, TailOnce DEF Loop, WithinCap, Progress, Whole, Trimmed
    <3>3. ~Trimmed(t)
      BY <1>4, <1>6, <3>2, TailOnce DEF Trimmed
    <3>4. Whole(t) /\ Len(order) = Cap + 1
      BY <1>2, <1>4, <1>6, <3>1, <3>2, <3>3 DEF Progress, Whole
    <3>5. Whole(t)' /\ Len(order') = Cap + 1
      BY <1>5, <3>1, <3>4 DEF Whole
    <3>6. at'[t] = "pop"
      BY <3>1 DEF Goto, StepsType
    <3>7. Progress(t)'
      BY <1>1, <1>3, <3>5, <3>6 DEF Progress
    <3>8. QED  BY <3>1, <3>7 DEF Labels
  <2>5. CASE Pop(t)
    <3>1. /\ at[t] = "pop" /\ Goto(t, "drop") /\ UNCHANGED <<runs, latest>>
          /\ expired' = [expired EXCEPT ![t] = Head(order)] /\ order' = Tail(order)
      BY <2>5 DEF Pop
    <3>2. Whole(t) /\ Len(order) = Cap + 1
      BY <1>2, <3>1 DEF Progress
    <3>3. expired'[t] = Head(order) /\ at'[t] = "drop"
      BY <3>1 DEF Goto, StepsType
    <3>4. Popped(t)' /\ latest' = Noted(t) /\ runs' = ToSet(Inserted(t))
      BY <1>5, <3>1, <3>2, <3>3 DEF Popped, Whole
    <3>5. Progress(t)'
      BY <1>1, <1>3, <1>5, <3>3, <3>4 DEF Progress
    <3>6. QED  BY <3>1, <3>5 DEF Labels
  <2>6. CASE Drop(t)
    <3>1. /\ at[t] = "drop" /\ Goto(t, "copy") /\ UNCHANGED <<order, latest, expired>>
          /\ runs' = runs \ {expired[t]}
      BY <2>6 DEF Drop, locals
    <3>2. Popped(t) /\ latest = Noted(t) /\ runs = ToSet(Inserted(t))
      BY <1>2, <3>1 DEF Progress
    <3>3. runs' = ToSet(order)
      BY <1>4, <3>1, <3>2, TailOnce DEF Popped
    <3>4. at'[t] = "copy"
      BY <3>1 DEF Goto, StepsType
    <3>5. Popped(t)' /\ latest' = Noted(t) /\ runs' = ToSet(order')
      BY <1>5, <3>1, <3>2, <3>3 DEF Popped
    <3>6. Progress(t)'
      BY <1>1, <1>3, <1>5, <3>4, <3>5 DEF Progress
    <3>7. QED  BY <3>1, <3>6 DEF Labels
  <2>7. CASE Copy(t)
    <3>1. /\ at[t] = "copy" /\ Goto(t, "assign") /\ UNCHANGED <<order, runs, latest, expired>>
          /\ copy' = [copy EXCEPT ![t] =
               [s \in Symbols |-> IF latest[s] = expired[t] THEN NoRun ELSE latest[s]]]
      BY <2>7 DEF Copy, shared
    <3>2. Popped(t) /\ latest = Noted(t) /\ runs = ToSet(order)
      BY <1>2, <3>1 DEF Progress
    <3>3. copy'[t] = Without(Noted(t), expired[t]) /\ at'[t] = "assign"
      BY <3>1, <3>2 DEF Without, Goto, StepsType
    <3>4. Popped(t)' /\ runs' = ToSet(order') /\ copy'[t] = Without(Noted(t), expired'[t])
      BY <1>5, <3>1, <3>2, <3>3 DEF Popped
    <3>5. Progress(t)'
      BY <1>1, <1>3, <1>5, <3>3, <3>4 DEF Progress, Without
    <3>6. QED  BY <3>1, <3>5 DEF Labels
  <2>8. CASE Assign(t)
    <3>1. /\ at[t] = "assign" /\ Goto(t, "check") /\ UNCHANGED <<order, runs>>
          /\ latest' = copy[t]
      BY <2>8 DEF Assign
    <3>2. Popped(t) /\ runs = ToSet(order) /\ copy[t] = Without(Noted(t), expired[t])
      BY <1>2, <3>1 DEF Progress
    <3>3. Trimmed(t)'
      BY <1>5, <3>1, <3>2 DEF Popped, Trimmed, Without
    <3>4. at'[t] = "check"
      BY <3>1 DEF Goto, StepsType
    <3>5. Progress(t)'
      BY <1>1, <1>3, <3>3, <3>4 DEF Progress
    <3>6. QED  BY <3>1, <3>5 DEF Labels
  <2>9. QED  BY <2>1, <2>2, <2>3, <2>4, <2>5, <2>6, <2>7, <2>8 DEF Statement
<1>8. PICK l \in Labels \ {"outside"} : Goto(t, l) /\ Progress(t)'
  BY <1>7
<1>9. Sequential'
  BY <1>1, <1>8, OnItsOwn
<1>10. QED  BY <1>1, <1>8, <1>9 DEF history, Goto, StepsType

-----------------------------------------------------------------------------
(* The invariant, and the refinement *)

LEMMA SequentialStep == StepsType /\ Sequential /\ [StepsNext]_stepVars => Sequential'
<1> SUFFICES ASSUME StepsType, Sequential, [StepsNext]_stepVars, ~mixed' PROVE Sequential'
  BY DEF Sequential
<1>1. ASSUME NEW t \in Runs, Enter(t) PROVE Sequential'
  BY <1>1, EnterStarts
<1>2. ASSUME NEW t \in Runs, Finish(t) PROVE Sequential'
  <2>1. ~mixed
    BY <1>2 DEF Finish
  <2>2. QED  BY <1>2, <2>1, FinishEnds
<1>3. ASSUME NEW t \in Runs, Statement(t), UNCHANGED history PROVE Sequential'
  <2>1. ~mixed
    BY <1>3 DEF history
  <2>2. QED  BY <1>3, <2>1, CallProgresses
<1>4. ASSUME NEW t \in Runs, NEW u \in Runs, Interrupted(t, u), UNCHANGED history PROVE Sequential'
  <2>1. at[t] # "outside" /\ at[u] # "outside" /\ at[t] # at[u] /\ ~mixed
    BY <1>4 DEF Interrupted, history
  <2>2. Alone
    BY <2>1 DEF Sequential
  <2>3. QED  BY <2>1, <2>2 DEF Alone
<1>5. CASE UNCHANGED stepVars
  <2>1. /\ UNCHANGED <<order, runs, latest, at, sym, expired, copy, times, mixed, rest>>
    BY <1>5 DEF stepVars, recordVars, shared, locals, history
  <2>2. \A t \in Runs : Progress(t)' = Progress(t)
    BY <2>1 DEF Progress, Found, Inserted, Noted, Whole, Popped, Trimmed
  <2>3. QED
    BY <2>1, <2>2 DEF Sequential, RestType, Alone, AtRest, Outside, Found
<1>6. QED  BY <1>1, <1>2, <1>3, <1>4, <1>5 DEF StepsNext

LEMMA InitIsSequential == StepsInit => StepsType /\ Sequential
<1> SUFFICES ASSUME StepsInit PROVE StepsType /\ Sequential
  OBVIOUS
<1>1. rest.order = <<>> /\ rest.latest = NoMap
  BY DEF StepsInit
<1>2. RestType
  BY <1>1, AuditAssumption DEF RestType, NoMap, Maps, IsInjective
<1>3. ToSet(rest.order) = {}
  BY <1>1 DEF ToSet
<1>4. Found /\ Alone /\ \A t \in Runs : at[t] = "outside"
  <2>1. order = <<>> /\ latest = NoMap /\ runs = {} /\ at = [t \in Runs |-> "outside"]
    BY DEF StepsInit, RecordInit, AuditInit, NoMap
  <2>2. QED  BY <1>1, <1>3, <2>1 DEF Found, Alone
<1>5. StepsType
  BY DEF StepsInit, RecordInit, StepsType, Labels
<1>6. QED  BY <1>2, <1>4, <1>5 DEF Sequential

\* A trail that has been trimmed once has forgotten its oldest run, and no other.
LEMMA OneIsTrimmed ==
  ASSUME NEW ids \in Seq(Runs), Len(ids) = Cap + 1
  PROVE  Trail!Trim(ids) = Tail(ids) /\ ToSet(Trail!Oldest(ids)) = {Head(ids)}
<1>1. Cap \in Nat \ {0} /\ Len(ids) - Cap = 1 /\ ids # <<>> /\ Head(ids) = ids[1]
  BY AuditAssumption
<1>2. Trail!Trim(ids) = Tail(ids)
  BY <1>1, TailIsSubSeq DEF Trail!Trim
<1>3. /\ Trail!Oldest(ids) = SubSeq(ids, 1, 1)
  BY <1>1 DEF Trail!Oldest
<1>4. DOMAIN SubSeq(ids, 1, 1) = {1} /\ SubSeq(ids, 1, 1)[1] = ids[1]
  BY <1>1
<1>5. QED  BY <1>1, <1>2, <1>3, <1>4 DEF ToSet

\* What a call that nobody overlapped leaves is what the atomic record leaves.
LEMMA CallIsOneRecord ==
  ASSUME StepsType, Sequential, ~mixed, NEW t \in Runs, Finish(t)
  PROVE  /\ sym[t] \in Symbols \cup {NoSymbol}
         /\ order = LET ids == Trail!Insert(rest.order, t)
                    IN  IF Len(ids) > Cap THEN Trail!Trim(ids) ELSE ids
         /\ latest = LET ids == Trail!Insert(rest.order, t)
                     IN  IF Len(ids) > Cap
                         THEN Trail!Forget(Noted(t), ToSet(Trail!Oldest(ids)))
                         ELSE Noted(t)
<1>1. RestType /\ Progress(t) /\ at[t] = "check"
  BY DEF Sequential, Finish, Return
<1>2. /\ sym[t] \in Symbols \cup {NoSymbol} /\ (Whole(t) \/ Trimmed(t))
  BY <1>1 DEF Progress
<1>3. /\ Inserted(t) \in Seq(Runs) /\ IsInjective(Inserted(t)) /\ Len(Inserted(t)) \in 1 .. Cap + 1
      /\ Cap \in Nat \ {0}
  BY <1>1, <1>2, InsertedOnce, AuditAssumption
<1>4. Trail!Insert(rest.order, t) = Inserted(t)
  BY DEF Trail!Insert, Trail!ToSet, ToSet, Inserted
<1>5. CASE Whole(t)
  <2>1. ~(Len(Inserted(t)) > Cap)
    BY <1>3, <1>5 DEF Whole, WithinCap, Finish, Return
  <2>2. QED  BY <1>2, <1>4, <1>5, <2>1 DEF Whole
<1>6. CASE Trimmed(t)
  <2>1. Len(Inserted(t)) = Cap + 1 /\ Len(Inserted(t)) > Cap
    BY <1>3, <1>6 DEF Trimmed
  <2>2. /\ Trail!Trim(Inserted(t)) = Tail(Inserted(t))
        /\ ToSet(Trail!Oldest(Inserted(t))) = {Head(Inserted(t))}
    BY <1>3, <2>1, OneIsTrimmed
  <2>3. Without(Noted(t), Head(Inserted(t)))
          = Trail!Forget(Noted(t), ToSet(Trail!Oldest(Inserted(t))))
    BY <2>2 DEF Trail!Forget, Without
  <2>4. QED  BY <1>2, <1>4, <1>6, <2>1, <2>2, <2>3 DEF Trimmed
<1>7. QED  BY <1>2, <1>5, <1>6

\* What callers see: the trail as it was when no call was under way.
LEMMA CallersSeeRest ==
  ASSUME Sequential
  PROVE  /\ (IF Complete THEN order ELSE rest.order) = rest.order
         /\ (IF Complete THEN latest ELSE rest.latest) = rest.latest
BY DEF Sequential, Complete, Found

\* Whatever the number of runs and threads, the cap and the order of calls: as long as
\* calls of AuditTrail.record do not overlap, its statements are together one step of the
\* atomic trail (insert or refresh, note the latest analysis, forget the oldest run),
\* and no statement before the last shows anything to callers.
THEOREM CallsAreAtomic == StepsSpec => ImplementsTrail
<1> DEFINE o == IF Complete THEN order ELSE rest.order
           m == IF Complete THEN latest ELSE rest.latest
<1>1. StepsInit => StepsType /\ Sequential
  BY InitIsSequential
<1>2. StepsType /\ Sequential /\ [StepsNext]_stepVars => StepsType' /\ Sequential'
  BY StepsTypeStep, SequentialStep
<1>3. StepsInit => Trail!AuditInit
  BY DEF StepsInit, RecordInit, AuditInit, Trail!AuditInit, NoMap, AtRest, Outside
<1>4. ASSUME StepsType, Sequential, Sequential', [StepsNext]_stepVars
      PROVE  [Trail!AuditNext]_(Trail!auditVars)
  <2>1. o = rest.order /\ m = rest.latest
    BY <1>4, CallersSeeRest
  <2>2. o' = rest'.order /\ m' = rest'.latest
    BY <1>4 DEF Sequential, Complete, Found
  <2>3. CASE rest' = rest
    <3>1. o' = o /\ m' = m
      BY <2>1, <2>2, <2>3
    <3>2. UNCHANGED Trail!auditVars
      BY <3>1 DEF Trail!auditVars
    <3>3. QED  BY <3>2
  <2>4. CASE rest' # rest
    <3>1. PICK t \in Runs : Finish(t) /\ ~mixed
      BY <1>4, <2>4 DEF StepsNext, stepVars, history, Enter, Finish
    <3>2. rest' = [order |-> order, latest |-> latest]
      BY <3>1 DEF Finish
    <3>3. o' = order /\ m' = latest
      BY <2>2, <3>2
    <3>4. /\ sym[t] \in Symbols \cup {NoSymbol}
          /\ order = LET ids == Trail!Insert(rest.order, t)
                     IN  IF Len(ids) > Cap THEN Trail!Trim(ids) ELSE ids
          /\ latest = LET ids == Trail!Insert(rest.order, t)
                      IN  IF Len(ids) > Cap
                          THEN Trail!Forget(Noted(t), ToSet(Trail!Oldest(ids)))
                          ELSE Noted(t)
      BY <1>4, <3>1, CallIsOneRecord
    <3>5. Noted(t) = [s \in Symbols |-> IF s = sym[t] THEN t ELSE m[s]]
      BY <2>1 DEF Noted
    <3>6. \A ids : Trail!ToSet(ids) = ToSet(ids)
      BY DEF Trail!ToSet, ToSet
    <3>7. Trail!Record(t, sym[t])
      <4> DEFINE ids == Trail!Insert(rest.order, t)
                 map == [s \in Symbols |-> IF s = sym[t] THEN t ELSE m[s]]
      <4>1. /\ o' = IF Len(ids) > Cap THEN Trail!Trim(ids) ELSE ids
            /\ m' = IF Len(ids) > Cap
                    THEN Trail!Forget(map, Trail!ToSet(Trail!Oldest(ids))) ELSE map
        BY <3>3, <3>4, <3>5, <3>6
      <4>2. ids = Trail!Insert(o, t)
        BY <2>1
      <4> HIDE DEF ids
      <4>3. IF Len(ids) > Cap
            THEN o' = Trail!Trim(ids) /\ m' = Trail!Forget(map, Trail!ToSet(Trail!Oldest(ids)))
            ELSE o' = ids /\ m' = map
        BY <4>1
      <4>4. QED  BY <4>2, <4>3 DEF Trail!Record
    <3>8. QED  BY <3>4, <3>7 DEF Trail!AuditNext
  <2>5. QED  BY <2>3, <2>4
<1>5. QED  BY <1>1, <1>2, <1>3, <1>4, PTL DEF StepsSpec, ImplementsTrail, Trail!AuditSpec

=============================================================================
