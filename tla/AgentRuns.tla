------------------------------ MODULE AgentRuns ------------------------------
(***************************************************************************)
(* The orchestrator of the agents: synchronous runs, queued runs executed  *)
(* by a background task, the retry loop with its timeout, the recorder of  *)
(* tool calls and the record of every run in the audit trail.              *)
(*                                                                         *)
(* Request handlers run on a thread pool and share one Orchestrator, one   *)
(* ToolCatalog and one AuditTrail, whose record they enter without a lock  *)
(* (AuditRecord).  The stored record is the object the run works on, so    *)
(* what a run assigns is visible to a poll at once.                        *)
(***************************************************************************)
EXTENDS AuditRecord

CONSTANTS
  MaxAttempts,  \* max_attempts
  MaxCalls,     \* bound: tool calls a handler makes in one attempt
  Overlap       \* may two runs execute at the same time

ASSUME RunsAssumption ==
  MaxAttempts \in Nat \ {0} /\ MaxCalls \in Nat /\ Overlap \in BOOLEAN

VARIABLES
  pc,        \* where the thread of a run is
  subject,   \* the symbol an analysis run is about
  status,    \* run.status
  attempts,  \* run.attempts
  tools,     \* run.tools_called: who made each recorded call, in which attempt
  output,    \* run.final_output
  made,      \* calls the handler has made in the present attempt
  broken,    \* how a call of the present attempt failed, if one did
  late,      \* the present attempt exceeded timeout_s
  error,     \* outcome of the last attempt
  recorder,  \* ToolCatalog._recorder: the run whose list calls are appended to
  previous   \* collect's local: the recorder to restore

work == <<attempts, tools, made, broken, late, error, recorder, previous>>
vars == <<pc, subject, status, output, work, recordVars>>

Statuses == {"none", "queued", "running", "succeeded", "failed", "timeout"}
Final == {"succeeded", "failed", "timeout"}
Waiting == {"new", "queue", "deferred", "done", "aborted"}
Calls == Runs \X (1 .. MaxAttempts) \X (1 .. MaxCalls)

Init ==
  /\ RecordInit
  /\ pc = [r \in Runs |-> "new"]
  /\ subject = [r \in Runs |-> NoSymbol]
  /\ status = [r \in Runs |-> "none"]
  /\ attempts = [r \in Runs |-> 0]
  /\ tools = [r \in Runs |-> <<>>]
  /\ output = [r \in Runs |-> "none"]
  /\ made = [r \in Runs |-> 0]
  /\ broken = [r \in Runs |-> "no"]
  /\ late = [r \in Runs |-> FALSE]
  /\ error = [r \in Runs |-> "none"]
  /\ recorder = NoRun
  /\ previous = [r \in Runs |-> NoRun]

MayExecute(r) == Overlap \/ \A q \in Runs \ {r} : pc[q] \in Waiting

\* _prepare: the record is registered before anything runs; r's thread is in record
\* until it is outside again.
Prepare(r, next) ==
  /\ pc[r] = "new"
  /\ \E s \in Symbols \cup {NoSymbol} : subject' = [subject EXCEPT ![r] = s]
  /\ status' = [status EXCEPT ![r] = "running"]
  /\ pc' = [pc EXCEPT ![r] = next]
  /\ Begin(r, NoSymbol)
  /\ UNCHANGED <<output, work>>

Run(r) == MayExecute(r) /\ Prepare(r, "execute")

Submit(r) == Prepare(r, "queue")

\* The rest of submit: the prepared run is queued, and recorded as such.
Queue(r) ==
  /\ pc[r] = "queue" /\ Outside(r)
  /\ status' = [status EXCEPT ![r] = "queued"]
  /\ pc' = [pc EXCEPT ![r] = "deferred"]
  /\ Begin(r, NoSymbol)
  /\ UNCHANGED <<subject, output, work>>

\* Mutant: the queued entry is looked up but not popped, so a second delivery runs again.
ExecuteDeferredAgain(r) ==
  /\ Outside(r)
  /\ pc[r] = "deferred" \/ (pc[r] = "done" /\ attempts[r] < MaxAttempts)
  /\ MayExecute(r)
  /\ pc' = [pc EXCEPT ![r] = "execute"]
  /\ UNCHANGED <<subject, status, output, work, recordVars>>

ExecuteDeferred(r) ==
  /\ pc[r] = "deferred" /\ Outside(r) /\ MayExecute(r)
  /\ pc' = [pc EXCEPT ![r] = "execute"]
  /\ UNCHANGED <<subject, status, output, work, recordVars>>

\* Mutants: the attempt is not counted; the calls of a failed attempt are kept.
SameAttempt(r) == attempts[r]
KeptCalls(r) == tools[r]

NextAttempt(r) == attempts[r] + 1
ClearedCalls(r) == <<>>

BeginAttempt(r) ==
  /\ pc[r] = "execute" /\ Outside(r)
  /\ attempts' = [attempts EXCEPT ![r] = NextAttempt(r)]
  /\ tools' = [tools EXCEPT ![r] = ClearedCalls(r)]
  /\ status' = [status EXCEPT ![r] = "running"]
  /\ previous' = [previous EXCEPT ![r] = recorder]
  /\ recorder' = r
  /\ made' = [made EXCEPT ![r] = 0]
  /\ broken' = [broken EXCEPT ![r] = "no"]
  /\ late' = [late EXCEPT ![r] = FALSE]
  /\ pc' = [pc EXCEPT ![r] = "handler"]
  /\ UNCHANGED <<subject, output, error, recordVars>>

\* ToolCatalog.call: a call that returns a dict, or is refused for its arguments
\* (TypeError), is appended to the list of whoever is the recorder; one whose tool
\* raises anything else, or returns no dict, is not.  No agent catches what a call raises.
CallTool(r) ==
  /\ pc[r] = "handler" /\ broken[r] = "no" /\ made[r] < MaxCalls
  /\ made' = [made EXCEPT ![r] = @ + 1]
  /\ \E outcome \in {"no", "refused", "raised"} :
       /\ broken' = [broken EXCEPT ![r] = outcome]
       /\ tools' = IF recorder = NoRun \/ outcome = "raised" THEN tools
                   ELSE [tools EXCEPT ![recorder] = Append(@, <<r, attempts[r], made[r] + 1>>)]
  /\ UNCHANGED <<pc, subject, status, attempts, output, late, error, recorder, previous, recordVars>>

\* The wait for the handler times out; leaving the executor still waits for it.
TimeOut(r) ==
  /\ pc[r] = "handler" /\ ~late[r]
  /\ late' = [late EXCEPT ![r] = TRUE]
  /\ UNCHANGED <<pc, subject, status, attempts, tools, output, made, broken, error, recorder,
                 previous, recordVars>>

MayRetry(r) == attempts[r] < MaxAttempts

\* How an attempt may end: a TimeoutError of the handler itself counts as its timeout.
Outcomes(r) ==
  IF late[r] THEN {"timeout"}
  ELSE {"failed", "timeout"} \cup (IF broken[r] = "no" THEN {"none"} ELSE {})

\* The handler's thread ends, with a result or an exception.
HandlerEnds(r) ==
  /\ pc[r] = "handler"
  /\ \E outcome \in Outcomes(r) :
       /\ error' = [error EXCEPT ![r] = outcome]
       /\ pc' = [pc EXCEPT ![r] =
            IF outcome # "none" /\ MayRetry(r) THEN "execute" ELSE "conclude"]
  /\ recorder' = previous[r]
  /\ previous' = [previous EXCEPT ![r] = NoRun]
  /\ late' = [late EXCEPT ![r] = FALSE]
  /\ UNCHANGED <<subject, status, attempts, tools, output, made, broken, recordVars>>

\* finished_at, then status: a poll sees it from here on.
Conclude(r) ==
  /\ pc[r] = "conclude"
  /\ status' = [status EXCEPT ![r] = IF error[r] = "none" THEN "succeeded" ELSE error[r]]
  /\ pc' = [pc EXCEPT ![r] = "store"]
  /\ UNCHANGED <<subject, output, work, recordVars>>

Store(r) ==
  /\ pc[r] = "store"
  /\ output' = [output EXCEPT ![r] = IF status[r] = "succeeded" THEN "result" ELSE "error"]
  /\ Begin(r, IF status[r] = "succeeded" THEN subject[r] ELSE NoSymbol)
  /\ pc' = [pc EXCEPT ![r] = "done"]
  /\ UNCHANGED <<subject, status, work>>

\* The statements of record, of any caller.
Recording(r) == (Statement(r) \/ Return(r)) /\ UNCHANGED <<pc, subject, status, output, work>>

\* record raises: the request fails.  A run that was prepared or queued is never
\* executed; one that has finished has done all it does.
RecordRaises(r) ==
  /\ \E q \in Runs : Interrupted(r, q)
  /\ pc' = [pc EXCEPT ![r] = IF @ = "done" THEN @ ELSE "aborted"]
  /\ UNCHANGED <<subject, status, output, work>>

Handler(r) == CallTool(r) \/ HandlerEnds(r)
Execution(r) ==
  Queue(r) \/ ExecuteDeferred(r) \/ BeginAttempt(r) \/ Conclude(r) \/ Store(r) \/ Recording(r)

Next ==
  \E r \in Runs :
    Run(r) \/ Submit(r) \/ Execution(r) \/ RecordRaises(r) \/ Handler(r) \/ TimeOut(r)

\* The pool runs background tasks and lets every thread go on, but nothing makes a
\* handler return.
Spec == Init /\ [][Next]_vars /\ \A r \in Runs : WF_vars(Execution(r))

SpecHandlersReturn == Spec /\ \A r \in Runs : WF_vars(Handler(r))

-----------------------------------------------------------------------------
(* Properties *)

\* The calls of the last attempt, the first n of them.
Called(r, n) == [i \in 1 .. n |-> <<r, attempts[r], i>>]

Answered(r) == IF broken[r] = "raised" THEN made[r] - 1 ELSE made[r]

\* Every variable has its type; in particular no run exceeds its attempts.
TypeOK ==
  /\ RecordTypeOK
  /\ pc \in [Runs -> Waiting \cup {"execute", "handler", "conclude", "store"}]
  /\ subject \in [Runs -> Symbols \cup {NoSymbol}]
  /\ status \in [Runs -> Statuses]
  /\ attempts \in [Runs -> 0 .. MaxAttempts]
  /\ tools \in [Runs -> Seq(Calls)]
  /\ output \in [Runs -> {"none", "result", "error"}]
  /\ made \in [Runs -> 0 .. MaxCalls]
  /\ broken \in [Runs -> {"no", "refused", "raised"}]
  /\ late \in [Runs -> BOOLEAN]
  /\ error \in [Runs -> {"none", "failed", "timeout"}]
  /\ recorder \in Runs \cup {NoRun}
  /\ previous \in [Runs -> Runs \cup {NoRun}]

\* A finished run shows exactly the calls of its last attempt that returned or were
\* refused, each once and in order, after retries and timeouts too: all of its calls,
\* but for a last one whose tool raised, which only a run that failed has (collect, call).
AnsweredCallsMirrored ==
  \A r \in Runs : status[r] \in Final =>
    /\ tools[r] = Called(r, Answered(r))
    /\ status[r] = "succeeded" => Answered(r) = made[r]

\* A finished run shows every call of its last attempt ("Mirror every tool call made
\* inside the block").
ToolCallsMirrored ==
  \A r \in Runs : status[r] \in Final => tools[r] = Called(r, made[r])

RecordsStand ==
  \A r \in Runs :
    pc[r] = "done" => UNCHANGED <<pc[r], status[r], attempts[r], tools[r], output[r]>>

\* A finished run is not executed again, and nothing a later run does changes its
\* record.
FinishedRunsAreFrozen == [][RecordsStand]_vars

\* latest_analysis answers with a stored, successful analysis of that symbol, with its
\* result, although entries are noted, trimmed and rebuilt by threads that overlap.
LatestIsSuccessful ==
  \A s \in Symbols :
    LET r == latest_analysis(s)
    IN  r # NoRun => /\ r \in runs /\ status[r] = "succeeded"
                     /\ subject[r] = s /\ output[r] = "result"

\* What overlapping, unlocked calls of record leave right: list_runs shows no run twice,
\* the list is back within its cap when no call is under way, whichever of them raised,
\* and latest_analysis answers with stored, successful analyses only.
TrailIsSound == NoRunIsListedTwice /\ TrimmedAtRest /\ LatestIsSuccessful

\* While a successful analysis of a symbol is stored, latest_analysis finds one.
LatestIsFound ==
  \A s \in Symbols :
    (\E r \in runs : pc[r] = "done" /\ Outside(r) /\ status[r] = "succeeded" /\ subject[r] = s)
      => latest_analysis(s) # NoRun

\* An accepted run can be polled until it has finished.
AcceptedRunsCanBePolled ==
  \A r \in Runs : pc[r] \notin {"new", "done"} /\ Outside(r) => r \in runs

\* A poll that sees success sees the result.
SucceededHasResult == \A r \in Runs : status[r] = "succeeded" => output[r] = "result"

\* No request fails in the trail.
NoRequestIsLost == \A r \in Runs : pc[r] # "aborted"

Accepted(r) == pc[r] \in {"deferred", "execute"} /\ Outside(r)

\* Every accepted run ends, and is recorded, when handlers return.
RunsTerminate == \A r \in Runs : Accepted(r) ~> pc[r] = "done" /\ Outside(r)

\* The timeout bounds an attempt even when the handler hangs.
TimeOutEndsTheRun == \A r \in Runs : (pc[r] = "handler" /\ late[r]) ~> pc[r] # "handler"

=============================================================================
