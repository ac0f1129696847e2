------------------------------ MODULE AuditTrail ------------------------------
(***************************************************************************)
(* The in-memory audit store of agent runs, as its callers see it: one     *)
(* atomic operation, record, that inserts or refreshes a run, notes the    *)
(* latest successful analysis of its symbol and forgets the oldest runs    *)
(* beyond the cap.  AuditRecord is record statement by statement, which is *)
(* what AgentRuns uses; AuditSteps says when it amounts to this module.    *)
(***************************************************************************)
EXTENDS Naturals, Sequences, SequencesExt

CONSTANTS
  Runs,      \* agent_run_id values
  NoRun,
  Symbols,   \* subjects of analysis runs
  NoSymbol,  \* the run is no analysis, or did not succeed
  Cap        \* max_records

ASSUME AuditAssumption ==
  Cap \in Nat \ {0} /\ NoRun \notin Runs /\ NoSymbol \notin Symbols

VARIABLES
  order,   \* ids in the order they were first recorded
  latest   \* symbol -> its latest successful analysis

auditVars == <<order, latest>>

Kept == ToSet(order)

AuditInit == order = <<>> /\ latest = [s \in Symbols |-> NoRun]

Insert(ids, r) == IF r \in ToSet(ids) THEN ids ELSE Append(ids, r)

Oldest(ids) == SubSeq(ids, 1, Len(ids) - Cap)
Trim(ids) == SubSeq(ids, Len(ids) - Cap + 1, Len(ids))

Forget(map, expired) == [s \in Symbols |-> IF map[s] \in expired THEN NoRun ELSE map[s]]

\* sym is the symbol of a successful analysis, or NoSymbol.
Record(r, sym) ==
  LET ids == Insert(order, r)
      map == [s \in Symbols |-> IF s = sym THEN r ELSE latest[s]]
  IN IF Len(ids) > Cap
     THEN order' = Trim(ids) /\ latest' = Forget(map, ToSet(Oldest(ids)))
     ELSE order' = ids /\ latest' = map

AuditNext == \E r \in Runs, sym \in Symbols \cup {NoSymbol} : Record(r, sym)

AuditSpec == AuditInit /\ [][AuditNext]_auditVars

-----------------------------------------------------------------------------
AuditTypeOK ==
  order \in Seq(Runs) /\ latest \in [Symbols -> Runs \cup {NoRun}]

\* However often runs are refreshed, the store never exceeds its cap and lists
\* no run twice (AuditTrail.record).
AuditBounded == Len(order) <= Cap /\ IsInjective(order)

\* latest_analysis never answers with a run that was forgotten.
LatestIsStored == \A s \in Symbols : latest[s] # NoRun => latest[s] \in Kept

=============================================================================
