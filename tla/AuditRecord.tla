------------------------------ MODULE AuditRecord ------------------------------
(***************************************************************************)
(* AuditTrail.record, statement by statement.  The request threads of the  *)
(* API share one trail and take no lock, so their statements interleave.   *)
(* A run is recorded by the one thread that works on it: the thread and    *)
(* its locals go by the run.                                               *)
(*                                                                         *)
(* A statement is one step, the rebuilt map included: of one symbol the    *)
(* comprehension reads the entry once, and every property here is about    *)
(* one symbol.  What may happen while it runs is that another thread adds  *)
(* a key: then it raises.                                                  *)
(***************************************************************************)
EXTENDS AuditTrail, FiniteSets

CONSTANT Writers   \* bound: threads inside record at the same time

\* The thread pool (40) is smaller than the cap (200): the list a thread pops from is
\* never empty.
ASSUME WritersAssumption == Writers \in 1 .. Cap + 1

VARIABLES
  runs,     \* the keys of _runs; _order and _latest_analysis are order and latest
  at,       \* the next statement of the thread of a run
  sym,      \* its locals: the symbol to note, the expired id, the rebuilt map
  expired,
  copy

shared == <<order, runs, latest>>
locals == <<sym, expired, copy>>
recordVars == <<shared, at, locals>>

NoMap == [s \in Symbols |-> NoRun]

RecordInit ==
  /\ AuditInit /\ runs = {}
  /\ at = [r \in Runs |-> "outside"]
  /\ sym = [r \in Runs |-> NoSymbol]
  /\ expired = [r \in Runs |-> NoRun]
  /\ copy = [r \in Runs |-> NoMap]

Outside(r) == at[r] = "outside"
AtRest == \A r \in Runs : Outside(r)

Goto(r, label) == at' = [at EXCEPT ![r] = label]

Begin(r, s) ==
  /\ Outside(r) /\ Cardinality({q \in Runs : ~Outside(q)}) < Writers
  /\ sym' = [sym EXCEPT ![r] = s]
  /\ Goto(r, "insert")
  /\ UNCHANGED <<shared, expired, copy>>

InsertId(r) ==
  /\ at[r] = "insert"
  /\ order' = IF r \in runs THEN order ELSE Append(order, r)
  /\ Goto(r, "put")
  /\ UNCHANGED <<runs, latest, locals>>

Put(r) ==
  /\ at[r] = "put"
  /\ runs' = runs \cup {r}
  /\ Goto(r, IF sym[r] = NoSymbol THEN "check" ELSE "note")
  /\ UNCHANGED <<order, latest, locals>>

NoteIt(r) == latest' = [latest EXCEPT ![sym[r]] = r]

Note(r) ==
  /\ at[r] = "note"
  /\ NoteIt(r)
  /\ Goto(r, "check")
  /\ UNCHANGED <<order, runs, locals>>

WithinCap(ids) == Len(ids) <= Cap

Loop(r) ==
  /\ at[r] = "check" /\ ~WithinCap(order)
  /\ Goto(r, "pop")
  /\ UNCHANGED <<shared, locals>>

Pop(r) ==
  /\ at[r] = "pop" /\ order # <<>>
  /\ expired' = [expired EXCEPT ![r] = Head(order)]
  /\ order' = Tail(order)
  /\ Goto(r, "drop")
  /\ UNCHANGED <<runs, latest, sym, copy>>

\* Mutant: the record of the expired run is left behind.
DropNothing(r) ==
  /\ at[r] = "drop"
  /\ Goto(r, "copy")
  /\ UNCHANGED <<shared, locals>>

Drop(r) ==
  /\ at[r] = "drop"
  /\ runs' = runs \ {expired[r]}
  /\ Goto(r, "copy")
  /\ UNCHANGED <<order, latest, locals>>

\* The rebuilt map is computed first ...
Copy(r) ==
  /\ at[r] = "copy"
  /\ copy' = [copy EXCEPT ![r] =
       [s \in Symbols |-> IF latest[s] = expired[r] THEN NoRun ELSE latest[s]]]
  /\ Goto(r, "assign")
  /\ UNCHANGED <<shared, sym, expired>>

\* ... and then assigned.
Assign(r) ==
  /\ at[r] = "assign"
  /\ latest' = copy[r]
  /\ Goto(r, "check")
  /\ UNCHANGED <<order, runs, locals>>

Forgotten(r) ==
  /\ sym' = [sym EXCEPT ![r] = NoSymbol]
  /\ expired' = [expired EXCEPT ![r] = NoRun]
  /\ copy' = [copy EXCEPT ![r] = NoMap]

Return(r) ==
  /\ at[r] = "check" /\ WithinCap(order)
  /\ Goto(r, "outside")
  /\ Forgotten(r)
  /\ UNCHANGED shared

\* The thread of q adds a key to the map that r is reading: RuntimeError, and r leaves.
Interrupted(r, q) ==
  /\ at[r] = "copy" /\ at[q] = "note" /\ latest[sym[q]] = NoRun
  /\ NoteIt(q)
  /\ at' = [at EXCEPT ![r] = "outside", ![q] = "check"]
  /\ Forgotten(r)
  /\ UNCHANGED <<order, runs>>

Statement(r) ==
  InsertId(r) \/ Put(r) \/ Note(r) \/ Loop(r) \/ Pop(r) \/ Drop(r) \/ Copy(r) \/ Assign(r)

-----------------------------------------------------------------------------
(* What callers see *)

\* Mutant: the noted id is answered without being looked up.
AsNoted(s) == latest[s]

latest_analysis(s) == IF latest[s] \in runs THEN latest[s] ELSE NoRun

Labels == {"outside", "insert", "put", "note", "check", "pop", "drop", "copy", "assign"}

RecordTypeOK ==
  /\ AuditTypeOK
  /\ runs \subseteq Runs
  /\ at \in [Runs -> Labels]
  /\ sym \in [Runs -> Symbols \cup {NoSymbol}]
  /\ expired \in [Runs -> Runs \cup {NoRun}]
  /\ copy \in [Runs -> [Symbols -> Runs \cup {NoRun}]]

\* list_runs shows no run twice, however the statements of threads interleave.
NoRunIsListedTwice == IsInjective(order)

\* Whichever way the trimming loops interleave, and whichever of them raises, the list
\* is back within its cap when they are through.
TrimmedAtRest == AtRest => Len(order) <= Cap

\* list_runs finds the record of every listed id.
ListedRunsAreStored == \A i \in DOMAIN order : order[i] \in runs

\* Only what exceeds the cap is trimmed ("trimming the oldest beyond the cap"): a
\* trail that holds Cap runs never holds fewer again.
FullTrailStaysFull ==
  [][Len(order) >= Cap => Len(order') >= Cap]_order

=============================================================================
