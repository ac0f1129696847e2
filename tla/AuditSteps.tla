------------------------------ MODULE AuditSteps ------------------------------
(***************************************************************************)
(* The statements of AuditTrail.record on their own, called for any run    *)
(* and symbol: as long as calls do not overlap they implement the atomic   *)
(* AuditTrail.                                                             *)
(***************************************************************************)
EXTENDS AuditRecord

CONSTANT Times      \* bound: how often one run is recorded

ASSUME StepsAssumption == Times \in Nat

VARIABLES
  times,    \* records left for each run
  mixed,    \* history: two calls of record have overlapped
  rest      \* history: order and latest when no call was under way, until then

history == <<mixed, rest>>
stepVars == <<recordVars, times, history>>

StepsInit ==
  /\ RecordInit
  /\ times = [r \in Runs |-> Times]
  /\ mixed = FALSE /\ rest = [order |-> <<>>, latest |-> NoMap]

Enter(r) ==
  /\ times[r] > 0
  /\ \E s \in Symbols \cup {NoSymbol} : Begin(r, s)
  /\ times' = [times EXCEPT ![r] = @ - 1]
  /\ mixed' = (mixed \/ ~AtRest)
  /\ UNCHANGED rest

Finish(r) ==
  /\ Return(r)
  /\ rest' = IF mixed THEN rest ELSE [order |-> order, latest |-> latest]
  /\ UNCHANGED <<times, mixed>>

StepsNext ==
  \/ \E r \in Runs : Enter(r) \/ Finish(r)
  \/ /\ \/ \E r \in Runs : Statement(r)
        \/ \E r, q \in Runs : Interrupted(r, q)
     /\ UNCHANGED <<times, history>>

StepsSpec == StepsInit /\ [][StepsNext]_stepVars

-----------------------------------------------------------------------------
(* Properties *)

Complete == AtRest /\ ~mixed

Trail == INSTANCE AuditTrail WITH
  order <- IF Complete THEN order ELSE rest.order,
  latest <- IF Complete THEN latest ELSE rest.latest

\* As long as calls do not overlap, callers see the atomic trail: every complete call
\* of record is one step of it, whatever was trimmed and refreshed before.
ImplementsTrail == Trail!AuditSpec

=============================================================================
