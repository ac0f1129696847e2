------------------------------- MODULE Monitoring -------------------------------
(***************************************************************************)
(* The monitoring agent: it walks a watchlist, asks its tools for each     *)
(* symbol and raises alerts.  The orchestrator keeps ONE agent, whose      *)
(* memory of the signals it saw is shared by every POST of a watch, while  *)
(* GET /monitoring/alerts builds an agent of its own.  Requests run in     *)
(* threads; an attempt that raises, or ends after its time, is thrown away *)
(* and made again from the first symbol, but what it remembered stays.     *)
(***************************************************************************)
EXTENDS Integers, Sequences, FiniteSetsExt

CONSTANTS
  Requests,     \* threads that serve watches
  Symbols,
  Boards,       \* what the market may say of a symbol: [rows, rsi, risk, signal, flagged, quality]
  Absent,       \* no value
  Watchlists,   \* lists asked for
  Baselines,    \* previous_signals given with a request: functions on some symbols
  MaxAttempts,  \* max_attempts
  MaxFaults,    \* bound: attempts that fail although every price is there
  MaxMoves,     \* bound: changes of the market
  MaxReports    \* bound: requests

VARIABLES
  market,    \* symbol -> its board now
  memory,    \* agent -> _last_signals; the agents are "shared" and one per GET
  watch,     \* request -> where it is
  moves, faults, reports,
  seen,      \* ghost: symbol -> the signal in the last report delivered by the shared agent
  spoilt,    \* ghost: symbols remembered by a discarded attempt or by overlapping watches
  crowded    \* ghost: requests that overlapped another on some symbol

monitoringVars == <<market, memory, watch, moves, faults, reports, seen, spoilt, crowded>>

Agents == {"shared"} \cup Requests
Nothing == [s \in {} |-> Absent]
AtRest == [step |-> "idle", list |-> <<>>, given |-> Nothing, agent |-> "shared", attempt |-> 0,
           signal |-> Absent, alerts |-> {}, found |-> <<>>]

MonitoringInit ==
  /\ market \in [Symbols -> Boards]
  /\ memory = [a \in Agents |-> Nothing]
  /\ watch = [r \in Requests |-> AtRest]
  /\ moves = 0 /\ faults = 0 /\ reports = 0
  /\ seen = [s \in Symbols |-> Absent]
  /\ spoilt = {}
  /\ crowded = {}

-----------------------------------------------------------------------------
(* The tools' answers and the alerts they make *)

Alert(type, severity, old, new) == [type |-> type, severity |-> severity, old |-> old, new |-> new]
Plain(type, severity) == Alert(type, severity, Absent, Absent)
When(condition, alert) == IF condition THEN {alert} ELSE {}

\* get_stock_price: the last row against the rows of the last twenty days, itself one of them.
Price(rows) ==
  LET all(field) == {rows[i][field] : i \in DOMAIN rows}
  IN [last |-> rows[Len(rows)].close, volume |-> rows[Len(rows)].volume,
      high |-> Max(all("high")), low |-> Min(all("low")), days |-> Len(rows),
      volumes |-> MapThenSumSet(LAMBDA i : rows[i].volume, DOMAIN rows)]

TechnicalAlerts(board) ==
  LET p == Price(board.rows)
  IN When(p.last >= p.high, Plain("technical_breakout", "normal"))
     \cup When(p.last < p.high /\ p.last <= p.low, Plain("technical_breakout", "warning"))
     \cup When(board.rsi # Absent /\ (board.rsi >= 70 \/ board.rsi <= 30),
               Plain("technical_breakout", "warning"))
     \cup When(p.volume > 0 /\ 2 * p.volume * p.days >= 3 * p.volumes,
               Plain("volume_spike", "normal"))

RiskAlerts(board) ==
  When(board.risk # Absent /\ board.risk <= 30,
       Plain("risk_increased", IF board.risk <= 20 THEN "critical" ELSE "warning"))

NewsAlerts(board) == When(board.flagged, Plain("important_news", "warning"))

QualityAlerts(board) ==
  When(board.quality # Absent /\ (board.quality.below \/ board.quality.score < 70),
       Plain("fundamental_deterioration", IF board.quality.below THEN "critical" ELSE "warning"))

Flips == {<<"POSITIVE", "NEGATIVE">>, <<"NEGATIVE", "POSITIVE">>}
SignalAlerts(previous, signal) ==
  When(previous \notin {Absent, signal},
       Alert("signal_changed", IF <<previous, signal>> \in Flips THEN "critical" ELSE "warning",
             previous, signal))

Recall(known, s) == IF s \in DOMAIN known THEN known[s] ELSE Absent
Previous(given, remembered, s) ==
  IF Recall(given, s) # Absent THEN Recall(given, s) ELSE Recall(remembered, s)

\* Mutant: what was remembered first is kept.
KeepsFirst(known, s, signal) ==
  [t \in DOMAIN known \cup {s} |-> IF t \in DOMAIN known THEN known[t] ELSE signal]
Remembered(known, s, signal) ==
  [t \in DOMAIN known \cup {s} |-> IF t = s THEN signal ELSE known[t]]

-----------------------------------------------------------------------------
(* Requests *)

SymbolsOf(r) == {watch[r].list[i] : i \in DOMAIN watch[r].list}
Position(r) == Len(watch[r].found) + 1
Current(r) == watch[r].list[Position(r)]
Becomes(r, changes) ==
  watch' = [watch EXCEPT ![r] = [f \in DOMAIN AtRest |->
              IF f \in DOMAIN changes THEN changes[f] ELSE watch[r][f]]]

\* POST of a watch goes to the shared agent; GET builds one and gives it no baseline.
Start(r) ==
  /\ watch[r].step = "idle"
  /\ reports < MaxReports
  /\ reports' = reports + 1
  /\ \E list \in Watchlists, given \in Baselines, agent \in {"shared", r} :
       /\ agent = r => given = Nothing
       /\ Becomes(r, [step |-> "price", list |-> list, given |-> given, agent |-> agent,
                      attempt |-> 1])
       /\ memory' = IF agent = r THEN [memory EXCEPT ![r] = Nothing] ELSE memory
       /\ LET others == {q \in Requests \ {r} : /\ watch[q].agent = agent
                                                /\ \E i \in DOMAIN list : list[i] \in SymbolsOf(q)}
          IN crowded' = IF others = {} THEN crowded ELSE crowded \cup others \cup {r}
  /\ UNCHANGED <<market, moves, faults, seen, spoilt>>

\* get_stock_price, get_technical, get_risk.
LookUp(r) ==
  /\ watch[r].step = "price"
  /\ market[Current(r)].rows # <<>>
  /\ Becomes(r, [step |-> "rank", alerts |-> TechnicalAlerts(market[Current(r)])
                                             \cup RiskAlerts(market[Current(r)])])
  /\ UNCHANGED <<market, memory, moves, faults, reports, seen, spoilt, crowded>>

\* get_ranking, get_news, get_fundamentals.
Rank(r) ==
  LET board == market[Current(r)]
  IN /\ watch[r].step = "rank"
     /\ Becomes(r, [step |-> "compare",
                    signal |-> IF board.signal = Absent THEN "NEUTRAL" ELSE board.signal,
                    alerts |-> watch[r].alerts \cup NewsAlerts(board) \cup QualityAlerts(board)])
     /\ UNCHANGED <<market, memory, moves, faults, reports, seen, spoilt, crowded>>

\* _signal_alerts reads the memory ...
Compare(r) ==
  LET previous == Previous(watch[r].given, memory[watch[r].agent], Current(r))
  IN /\ watch[r].step = "compare"
     /\ Becomes(r, [step |-> "remember",
                    alerts |-> watch[r].alerts \cup SignalAlerts(previous, watch[r].signal)])
     /\ UNCHANGED <<market, memory, moves, faults, reports, seen, spoilt, crowded>>

\* ... and the signal is remembered once every alert of the symbol is built.
Remember(r) ==
  /\ watch[r].step = "remember"
  /\ memory' = [memory EXCEPT ![watch[r].agent] = Remembered(@, Current(r), watch[r].signal)]
  /\ Becomes(r, [step |-> IF Position(r) = Len(watch[r].list) THEN "report" ELSE "price",
                 found |-> Append(watch[r].found, [signal |-> watch[r].signal,
                                                   alerts |-> watch[r].alerts])])
  /\ UNCHANGED <<market, moves, faults, reports, seen, spoilt, crowded>>

\* A symbol without prices raises; so does any tool whose source fails.  The shared
\* agent's attempt may also end late, when its result is no longer waited for.
Raises(r) == watch[r].step = "price" /\ market[Current(r)].rows = <<>>
Breaks(r) == /\ faults < MaxFaults
             /\ \/ watch[r].step \in {"price", "rank"}
                \/ watch[r].step = "report" /\ watch[r].agent = "shared"

Touched(r) == {watch[r].list[i] : i \in DOMAIN watch[r].found}
FailAttempt(r) ==
  /\ Raises(r) \/ Breaks(r)
  /\ faults' = IF Raises(r) THEN faults ELSE faults + 1
  /\ IF watch[r].agent = "shared" /\ watch[r].attempt < MaxAttempts
     THEN /\ Becomes(r, [step |-> "price", attempt |-> watch[r].attempt + 1, found |-> <<>>,
                         alerts |-> {}, signal |-> Absent])
          /\ UNCHANGED crowded
     ELSE watch' = [watch EXCEPT ![r] = AtRest] /\ crowded' = crowded \ {r}
  /\ spoilt' = IF watch[r].agent = "shared"
               THEN spoilt \cup Touched(r) \cup (IF r \in crowded THEN SymbolsOf(r) ELSE {})
               ELSE spoilt
  /\ UNCHANGED <<market, memory, moves, reports, seen>>

\* The report is delivered.
LastSignal(r, s) ==
  watch[r].found[Max({i \in DOMAIN watch[r].list : watch[r].list[i] = s})].signal
Deliver(r) ==
  /\ watch[r].step = "report"
  /\ watch' = [watch EXCEPT ![r] = AtRest]
  /\ crowded' = crowded \ {r}
  /\ IF watch[r].agent = "shared"
     THEN /\ seen' = [s \in Symbols |-> IF s \in SymbolsOf(r) THEN LastSignal(r, s) ELSE seen[s]]
          /\ spoilt' = IF r \in crowded THEN spoilt \cup SymbolsOf(r) ELSE spoilt \ SymbolsOf(r)
     ELSE UNCHANGED <<seen, spoilt>>
  /\ UNCHANGED <<market, memory, moves, faults, reports>>

Move ==
  /\ moves < MaxMoves
  /\ moves' = moves + 1
  /\ \E s \in Symbols, board \in Boards : /\ board # market[s]
                                          /\ market' = [market EXCEPT ![s] = board]
  /\ UNCHANGED <<memory, watch, faults, reports, seen, spoilt, crowded>>

MonitoringNext ==
  \/ \E r \in Requests : \/ Start(r) \/ LookUp(r) \/ Rank(r) \/ Compare(r) \/ Remember(r)
                         \/ FailAttempt(r) \/ Deliver(r)
  \/ Move
MonitoringSpec == MonitoringInit /\ [][MonitoringNext]_monitoringVars

-----------------------------------------------------------------------------
(* Properties *)

\* The signal of the i-th symbol of a watch before it: given, met earlier in the list,
\* or in the last report of the shared agent.
Before(r, i) ==
  LET s == watch[r].list[i]
      earlier == {j \in 1 .. i - 1 : watch[r].list[j] = s}
  IN IF Recall(watch[r].given, s) # Absent THEN watch[r].given[s]
     ELSE IF earlier # {} THEN watch[r].found[Max(earlier)].signal
     ELSE IF watch[r].agent = "shared" THEN seen[s] ELSE Absent

Told(r) ==
  \A i \in DOMAIN watch[r].found :
    LET w == watch[r]
    IN \/ w.agent = "shared" /\ (w.list[i] \in spoilt \/ r \in crowded)
       \/ {a \in w.found[i].alerts : a.type = "signal_changed"}
            = SignalAlerts(Before(r, i), w.found[i].signal)

\* A report tells of each of its symbols exactly the change since the report before it,
\* once, unless an attempt that was thrown away or an overlapping watch remembered the
\* symbol in between (_last_signals, monitor, the orchestrator's retries).
SignalChangesAreTold == \A r \in Requests : watch[r].step = "report" => Told(r)

=============================================================================
