---------------------------- MODULE StrategyBacktest ----------------------------
(***************************************************************************)
(* The backtest of the strategy scores: bars aligned on the index's        *)
(* calendar, scores computed as of each rebalance day, the weights handed  *)
(* to the engine (module Backtest), the walk-forward windows and the       *)
(* metrics of an equity curve.  Days are numbers.  One technical feature   *)
(* stands for the 24, whose definitions are in StrategyFeatures.           *)
(*                                                                         *)
(* A market is [stocks: symbol -> day -> bar, index: day -> bar], the days *)
(* of a symbol being those it traded; a bar is [open, close, volume].      *)
(* Roots are left out: a Sharpe or Sortino ratio is given by the mean      *)
(* return and the variance it is divided by.                               *)
(***************************************************************************)
EXTENDS StrategyScores, Questions

CONSTANTS
  Start,      \* first day of the window asked for; the bars before it are the lookback
  TopN,       \* top_n
  EveryDays,  \* rebalance_days
  Profile,    \* the profile whose scores are traded
  Markets     \* the markets that may be loaded

DayBars == [open : Nat, close : Nat, volume : Nat]
TradingDays(days) == IsFiniteSet(days) /\ days \subseteq Int

\* A market that was loaded, and the options of a run.
Market(m) ==
  /\ IsFiniteSet(DOMAIN m.stocks) /\ DOMAIN m.stocks \subseteq Int
  /\ \A s \in DOMAIN m.stocks :
       TradingDays(DOMAIN m.stocks[s]) /\ m.stocks[s] \in [DOMAIN m.stocks[s] -> DayBars]
  /\ TradingDays(DOMAIN m.index) /\ m.index \in [DOMAIN m.index -> DayBars]
BacktestOptions ==
  /\ Start \in Int /\ TopN \in Nat /\ Profile \in Profiles
  /\ Span.return_20d \in Nat /\ Missing \notin DayBars

ASSUME MarketsAssumption == BacktestOptions /\ \A m \in Markets : Market(m)

-----------------------------------------------------------------------------
(* load_backtest_data *)

InWindow(days) == {d \in days : d >= Start}
Earliest(days) == Min(days)
UpTo(days, d)  == {e \in days : e <= d}

\* The index's days; those of any symbol when the index has none.
Calendar(m) ==
  LET index == InWindow(DOMAIN m.index)
  IN IF index # {} THEN index
     ELSE UNION {InWindow(DOMAIN m.stocks[s]) : s \in DOMAIN m.stocks}

\* The bar of a day without a print: the last one seen since the calendar began.
Halted(bar) == [bar EXCEPT !.volume = 0]
Seen(m, s, d) == UpTo(DOMAIN m.stocks[s], d) \cap Calendar(m)
\* Mutant: a day before the first print takes the bar of the next.
FilledBoth(m, s, d) ==
  IF d \in DOMAIN m.stocks[s] THEN m.stocks[s][d]
  ELSE IF Seen(m, s, d) # {} THEN Halted(m.stocks[s][Max(Seen(m, s, d))])
  ELSE IF Calendar(m) \cap DOMAIN m.stocks[s] = {} THEN Missing
  ELSE Halted(m.stocks[s][Min(Calendar(m) \cap DOMAIN m.stocks[s])])
Filled(m, s, d) ==
  IF d \in DOMAIN m.stocks[s] THEN m.stocks[s][d]
  ELSE IF Seen(m, s, d) # {} THEN Halted(m.stocks[s][Max(Seen(m, s, d))]) ELSE Missing

\* A symbol is left out unless it printed on or before the first day, and unless every
\* day of the calendar then has a bar.
Universe(m) ==
  {s \in DOMAIN m.stocks :
     /\ DOMAIN m.stocks[s] # {}
     /\ Earliest(DOMAIN m.stocks[s]) <= Earliest(Calendar(m))
     /\ \A d \in Calendar(m) : Filled(m, s, d) # Missing}

Aligned(m) == [s \in Universe(m) |-> [d \in Calendar(m) |-> Filled(m, s, d)]]
Flat == [open |-> 0, close |-> 0, volume |-> 0]
Benchmark(m) == [d \in Calendar(m) |-> IF d \in DOMAIN m.index THEN m.index[d] ELSE Flat]

-----------------------------------------------------------------------------
(* rebalance_dates, score_schedule, top_weights, build_strategy *)

RebalanceDates(m) == {d \in Calendar(m) : Place(Calendar(m), d) % EveryDays = 0}

\* The feature engine run with the day as as_of: the closes of the days up to it.
ClosesAsOf(m, s, d) ==
  LET days == UpTo(DOMAIN m.stocks[s], d)
  IN [i \in 1 .. Cardinality(days) |-> Whole(m.stocks[s][Nth(days, i)].close)]
RawAsOf(m, d) ==
  {r \in {<<s, "return_20d", ReturnOver(ClosesAsOf(m, s, d), Span.return_20d)>> : s \in Universe(m)} :
     r[3] # Missing}
ScoresAsOf(m, d) ==
  LET raw == RawAsOf(m, d)
  IN {sc \in {<<s, Overall(GroupScores(raw, s), Profile)>> : s \in Universe(m)} : sc[2] # Missing}

\* Best first, equal scores by symbol (a smaller number first).
Ahead(a, b) == Less(b[2], a[2]) \/ (a[2] = b[2] /\ a[1] < b[1])
Top(scores, n) == {a \in scores : Cardinality({b \in scores : Ahead(b, a)}) < n}
TopWeights(scores, n) ==
  LET top == Top(scores, n)
  IN [s \in {a[1] : a \in top} |-> Frac(1, Cardinality(top))]

\* What the strategy answers the engine on a day; an empty answer keeps the positions.
Targets(m) ==
  [d \in Calendar(m) |->
     IF d \in RebalanceDates(m) THEN TopWeights(ScoresAsOf(m, d), TopN) ELSE <<>>]

-----------------------------------------------------------------------------
(* walk_forward_windows and rolling_windows, over observations 0 .. n - 1 *)

WalkForwardWindows(n, train, test, step) ==
  IF n < train + test \/ train < 1 \/ test < 1 \/ step < 1 THEN {}
  ELSE {[train |-> t - train .. t - 1, test |-> t .. t + test - 1] :
          t \in {t \in train .. n - test : (t - train) % step = 0}}
RollingWindows(n, length, step) ==
  IF n < length \/ length < 1 \/ step < 1 THEN {}
  ELSE {b .. b + length - 1 : b \in {b \in 0 .. n - length : b % step = 0}}

-----------------------------------------------------------------------------
(* compute_metrics: a curve is a sequence of positive fractions *)

Growth(curve, i) == Minus(Over2(curve[i], curve[i - 1]), Whole(1))
Returns(curve) == [i \in 1 .. Len(curve) - 1 |-> Growth(curve, i + 1)]
TotalReturn(curve) ==
  IF Len(curve) < 2 THEN Zero ELSE Minus(Over2(Last(curve), curve[1]), Whole(1))
Variance(values) ==
  IF values = <<>> THEN Zero
  ELSE Mean([i \in DOMAIN values |->
               Times(Minus(values[i], Mean(values)), Minus(values[i], Mean(values)))])
Losses(curve) == {i \in DOMAIN Returns(curve) : Less(Returns(curve)[i], Zero)}
Mean0(values) == IF values = <<>> THEN Zero ELSE Mean(values)
\* [mean, spread] of a ratio, 0 over anything when the spread is nothing.
Ratio(mean, spread) == IF spread = Zero THEN [mean |-> Zero, spread |-> Zero]
                       ELSE [mean |-> mean, spread |-> spread]
Sharpe(curve) == Ratio(Mean0(Returns(curve)), Variance(Returns(curve)))
Sortino(curve) ==
  LET losses == Losses(curve)
      Square(i) == Times(Returns(curve)[i], Returns(curve)[i])
  IN Ratio(Mean0(Returns(curve)),
           IF losses = {} THEN Zero
           ELSE Over2(TotalOf([i \in losses |-> Square(i)]), Whole(Cardinality(losses))))
Peak(curve, i) == CHOOSE p \in {curve[j] : j \in 1 .. i} : \A j \in 1 .. i : ~Less(p, curve[j])
MaxDrawdown(curve) ==
  LET falls == {Minus(Over2(curve[i], Peak(curve, i)), Whole(1)) : i \in DOMAIN curve} \cup {Zero}
  IN CHOOSE worst \in falls : \A f \in falls : ~Less(f, worst)

\* Trades are [entry, exit, quantity, pnl]; an open trade has no exit and no pnl.
Closed(trades) == SelectSeq(trades, LAMBDA t : t.pnl # Missing)
WinRate(trades) ==
  IF Closed(trades) = <<>> THEN Zero
  ELSE Frac(Len(SelectSeq(Closed(trades), LAMBDA t : t.pnl > 0)), Len(Closed(trades)))
Notional(t) == (t.entry + (IF t.exit = Missing THEN 0 ELSE t.exit)) * t.quantity
Turnover(trades, capital) ==
  Over2(Sum([i \in DOMAIN trades |-> Whole(Notional(trades[i]))]), Whole(capital))

\* The benchmark held over the days it has a price of, nothing for fewer than two.
BenchmarkCurve(m) ==
  LET days == {d \in Calendar(m) : Benchmark(m)[d].close > 0}
      close(i) == Whole(Benchmark(m)[Nth(days, i)].close)
  IN IF Cardinality(days) < 2 THEN <<>>
     ELSE [i \in 1 .. Cardinality(days) |-> Over2(close(i), close(1))]

-----------------------------------------------------------------------------
(* Properties *)

Cut(series, d) == [e \in UpTo(DOMAIN series, d) |-> series[e]]
AsKnownOn(m, d) ==
  [stocks |-> [s \in DOMAIN m.stocks |-> Cut(m.stocks[s], d)], index |-> Cut(m.index, d)]

\* The bars shown to the engine and the weights given to it on a day are those a backtest
\* ended on that day gives: nothing later is in them (carry-forward, the dropped symbols,
\* the as-of scores); a day's weights share the whole capital over at most top_n symbols
\* that have bars.
SeesOnlyThePast(m) ==
  LET universe == Universe(m)
      bars == Aligned(m)
      targets == Targets(m)
  IN \A d \in Calendar(m) :
       LET past == AsKnownOn(m, d)
       IN /\ Universe(past) = universe
          /\ \A s \in universe : Aligned(past)[s] = Cut(bars[s], d)
          /\ Targets(past) = Cut(targets, d)
          /\ targets[d] # <<>> =>
               /\ DOMAIN targets[d] \subseteq universe
               /\ Cardinality(DOMAIN targets[d]) \in 1 .. TopN
               /\ TotalOf(targets[d]) = Whole(1)

\* The fall from the first to the last day is never worse than the worst fall reported, and
\* a curve that never falls has none (total_return, max_drawdown).
MetricsAgree(m) ==
  LET curve == BenchmarkCurve(m)
  IN curve # <<>> => /\ ~Less(TotalReturn(curve), MaxDrawdown(curve))
                     /\ (Losses(curve) = {}) = (MaxDrawdown(curve) = Zero)
                     /\ Sharpe(curve).mean = Zero \/ Losses(curve) = {}
                          \/ Sortino(curve).mean = Sharpe(curve).mean

BacktestInit == question \in [kind : {"backtest"}, of : Markets]
BacktestSpec == BacktestInit /\ Stays

\* A strategy backtest sees the past only, and its metrics agree with its equity curve.
BacktestIsHonest ==
  Asked("backtest") => SeesOnlyThePast(question.of) /\ MetricsAgree(question.of)

\* The documented convention: a symbol that traded before the window and is halted on its
\* first day keeps its last bar.
HaltedFirstDayIsCarried(m) ==
  \A s \in DOMAIN m.stocks :
    (\E d \in DOMAIN m.stocks[s] : d < Start) /\ Calendar(m) # {} => s \in Universe(m)

\* The documented form of the windows: no training after a test overlaps it.
TrainingNeverMeetsATest(n, train, test) ==
  \A v, w \in WalkForwardWindows(n, train, test, test) : v.test \cap w.train = {}

=============================================================================
