------------------------------- MODULE Indicators -------------------------------
(***************************************************************************)
(* The price indicators of src/market and the dataset the price-direction  *)
(* model is trained on: pure functions of a series of bars, oldest first.  *)
(* A value is a fraction, and an indicator a series as long as the bars,   *)
(* Missing where it is warming up.  Square roots and logarithms are left   *)
(* out: a deviation is its variance, a log return the ratio of two closes. *)
(***************************************************************************)
EXTENDS StrategyFeatures, Questions

CONSTANTS
  Period,     \* the periods of the indicators, by their names, and the dataset's days
  BarSeries   \* series of stored bars

PeriodNames == {"sma", "ema", "rsi", "atr", "fast", "slow", "signal", "roc", "vol"}

\* A bar is [open, high, low, close, volume, bench, market]; what validation lets into the tables.
StoredBar(b) ==
  /\ {b.open, b.high, b.low, b.close, b.volume, b.bench} \subseteq Fractions
  /\ Less(Zero, b.open) /\ Less(Zero, b.low) /\ Less(Zero, b.close)
  /\ ~Less(b.high, b.low) /\ ~Less(b.volume, Zero)
Stored(bars) == bars \in Seq({bars[i] : i \in DOMAIN bars}) /\ \A i \in DOMAIN bars : StoredBar(bars[i])

ASSUME IndicatorsAssumption ==
  /\ Missing \notin Fractions
  /\ \A name \in PeriodNames : Period[name] \in Nat \ {0}
  /\ Period.fast < Period.slow /\ 1 < Period.atr
  /\ {Period.warmup, Period.least, Period.horizon} \subseteq Nat
  /\ \A bars \in BarSeries : Stored(bars)

-----------------------------------------------------------------------------
(* Windows and smoothing *)

WindowAhead(values, i, n) == SubSeq(values, i - n + 2, IF i = Len(values) THEN i ELSE i + 1)
Window(values, i, n) == SubSeq(values, i - n + 1, i)

Square(a) == Times(a, a)
Deviations(values) == Sum([j \in DOMAIN values |-> Square(Minus(values[j], Mean(values)))])
Defined(values) == Picked(values, {i \in DOMAIN values : values[i] # Missing})

sma(values, n) ==
  [i \in DOMAIN values |-> IF i < n THEN Missing ELSE Mean(Window(values, i, n))]

\* Seeded with the mean of the first n values, then (value - prev) * alpha + prev.
Smoothed(values, n, alpha) ==
  LET s[i \in n .. Len(values)] ==
        IF i = n THEN Mean(SubSeq(values, 1, n))
        ELSE Plus(Times(alpha, values[i]), Times(Minus(Whole(1), alpha), s[i - 1]))
  IN [i \in DOMAIN values |-> IF i < n THEN Missing ELSE s[i]]
ema(values, n)    == Smoothed(values, n, Frac(2, n + 1))
Wilder(values, n) == Smoothed(values, n, Frac(1, n))

-----------------------------------------------------------------------------
(* src/market/technical *)

Up(a)   == IF Less(a, Zero) THEN Zero ELSE a
Down(a) == Up(Minus(Zero, a))
Strength(gain, loss) ==
  IF loss = Zero THEN Whole(100)
  ELSE Minus(Whole(100), Over2(Whole(100), Plus(Whole(1), Over2(gain, loss))))

rsi(close, n) ==
  LET delta == [i \in 1 .. Len(close) - 1 |-> Minus(close[i + 1], close[i])]
      gain == Wilder([i \in DOMAIN delta |-> Up(delta[i])], n)
      loss == Wilder([i \in DOMAIN delta |-> Down(delta[i])], n)
  IN [i \in DOMAIN close |-> IF i <= n THEN Missing ELSE Strength(gain[i - 1], loss[i - 1])]

\* Line, signal and histogram: the signal smooths the defined part of the line.
macd_line(close, fast, slow) ==
  [i \in DOMAIN close |->
     IF i < slow THEN Missing ELSE Minus(ema(close, fast)[i], ema(close, slow)[i])]
macd_signal(close, fast, slow, n) ==
  LET signal == ema(Defined(macd_line(close, fast, slow)), n)
  IN [i \in DOMAIN close |-> IF i < slow THEN Missing ELSE signal[i - slow + 1]]
macd_histogram(close, fast, slow, n) ==
  LET line == macd_line(close, fast, slow)
      signal == macd_signal(close, fast, slow, n)
  IN [i \in DOMAIN close |-> IF signal[i] = Missing THEN Missing ELSE Minus(line[i], signal[i])]

\* The band's width squared, over num_std squared.
bollinger_width(close, n) ==
  [i \in DOMAIN close |->
     IF i < n THEN Missing ELSE Over2(Deviations(Window(close, i, n)), Whole(n))]

Widest(values) == CHOOSE a \in values : \A b \in values : ~Less(a, b)
TrueRange(bars, i) ==
  IF i = 1 THEN Minus(bars[1].high, bars[1].low)
  ELSE Widest({Minus(bars[i].high, bars[i].low), Distance(bars[i].high, bars[i - 1].close),
               Distance(bars[i].low, bars[i - 1].close)})
\* A single bar, and fewer ranges than the period, give nothing.
atr(bars, n) ==
  IF Len(bars) < 2 THEN [i \in DOMAIN bars |-> Missing]
  ELSE Wilder([i \in DOMAIN bars |-> TrueRange(bars, i)], n)

obv(bars) ==
  LET o[i \in DOMAIN bars] ==
        IF i = 1 THEN bars[1].volume
        ELSE CASE Less(bars[i - 1].close, bars[i].close) -> Plus(o[i - 1], bars[i].volume)
               [] Less(bars[i].close, bars[i - 1].close) -> Minus(o[i - 1], bars[i].volume)
               [] OTHER -> o[i - 1]
  IN [i \in DOMAIN bars |-> o[i]]

relative_strength(close, bench) == [i \in DOMAIN close |-> RatioOf(close[i], bench[i])]

-----------------------------------------------------------------------------
(* src/market/momentum and src/market/risk *)

return_n(close, n) ==
  [i \in DOMAIN close |->
     IF i <= n THEN Missing ELSE RatioOf(Minus(close[i], close[i - n]), close[i - n])]
relative_momentum(close, bench, n) ==
  [i \in DOMAIN close |-> RatioOf(return_n(close, n)[i], return_n(bench, n)[i])]
volume_expansion(volume, n) ==
  [i \in DOMAIN volume |-> RatioOf(volume[i], sma(volume, n)[i])]

\* Sample variance of the last n daily ratios (a close that is not positive has none).
DailyRatio(close, i) ==
  IF Less(Zero, close[i]) /\ Less(Zero, close[i - 1]) THEN Over2(close[i], close[i - 1]) ELSE Missing
volatility(close, n) ==
  [i \in DOMAIN close |->
     IF i <= n THEN Missing
     ELSE LET valid == Defined([j \in 1 .. n |-> DailyRatio(close, i - n + j)])
          IN IF Len(valid) < 2 THEN Missing ELSE Over2(Deviations(valid), Whole(Len(valid) - 1))]

\* cov(stock, market) / var(market) over the pairs of the last n returns that are known.
beta(stock, market, n) ==
  [i \in DOMAIN stock |->
     IF i < n THEN Missing
     ELSE LET pairs == Picked([j \in 1 .. n |-> <<stock[i - n + j], market[i - n + j]>>],
                             {j \in 1 .. n : Missing \notin {stock[i - n + j], market[i - n + j]}})
              side(k) == [j \in DOMAIN pairs |-> pairs[j][k]]
              cov == Sum([j \in DOMAIN pairs |-> Times(Minus(pairs[j][1], Mean(side(1))),
                                                       Minus(pairs[j][2], Mean(side(2))))])
          IN IF Len(pairs) < 2 THEN Missing ELSE RatioOf(cov, Deviations(side(2)))]

\* The worst fall from an earlier peak, not above 0; nothing on the first day.
max_drawdown(close) ==
  [i \in DOMAIN close |->
     IF i = 1 THEN Missing
     ELSE LET falls == UNION {{Over2(Minus(close[j], close[k]), close[k]) : k \in 1 .. j} : j \in 1 .. i}
          IN CHOOSE worst \in falls : \A f \in falls : ~Less(f, worst)]

\* The share of the window's days, the first one aside, that opened 1% away.
gap_risk(bars, n) ==
  [i \in DOMAIN bars |->
     IF i <= n \/ n < 2 THEN Missing
     ELSE LET gaps == {j \in i - n + 2 .. i :
                         Less(Frac(1, 100), Distance(Over2(bars[j].open, bars[j - 1].close), Whole(1)))}
          IN Frac(Cardinality(gaps), n - 1)]

Field(bars, field) == [i \in DOMAIN bars |-> bars[i][field]]
IndicatorsOf(bars) ==
  LET close == Field(bars, "close")
      bench == Field(bars, "bench")
      P == Period
  IN [sma |-> sma(close, P.sma), ema |-> ema(close, P.ema), rsi |-> rsi(close, P.rsi),
      macd |-> macd_histogram(close, P.fast, P.slow, P.signal),
      width |-> bollinger_width(close, P.sma), atr |-> atr(bars, P.atr), obv |-> obv(bars),
      strength |-> relative_strength(close, bench), roc |-> return_n(close, P.roc),
      momentum |-> relative_momentum(close, bench, P.roc),
      expansion |-> volume_expansion(Field(bars, "volume"), P.sma),
      volatility |-> volatility(close, P.vol), drawdown |-> max_drawdown(close),
      beta |-> beta(return_n(close, 1), return_n(bench, 1), P.vol), gaps |-> gap_risk(bars, P.vol)]

-----------------------------------------------------------------------------
(* src/ml: one row per day with its past and its future *)

\* The last value at or before a day, and what "or 0.0" makes of none.
SeriesAt(values, i) ==
  IF \E j \in 1 .. i : values[j] # Missing
  THEN values[CHOOSE j \in 1 .. i : values[j] # Missing /\ \A k \in j + 1 .. i : values[k] = Missing]
  ELSE Zero

\* The columns computed from the closes and volumes up to the row's day, and the three
\* taken from the market as it is when the dataset is built.
Tail2(values, n) == Window(values, Len(values), IF n < Len(values) THEN n ELSE Len(values))
RangeOf(values) ==
  LET low == CHOOSE a \in Range(values) : \A b \in Range(values) : ~Less(b, a)
  IN Over2(Minus(Widest(Range(values)), low), low)
OverOrOne(a, b) == IF Less(Zero, b) THEN Over2(a, b) ELSE Whole(1)
FeaturesAt(bars, now) ==
  LET i == Len(bars)
      close == Field(bars, "close")
      volume == Field(bars, "volume")
      ind == IndicatorsOf(bars)
      average == Mean(Tail2(volume, Period.sma))
  IN [close |-> close[i], lag |-> IF i > 1 THEN close[i - 1] ELSE Zero,
      roc |-> SeriesAt(<<ind.roc[i]>>, 1), sma |-> SeriesAt(ind.sma, i),
      ema |-> SeriesAt(ind.ema, i), rsi |-> SeriesAt(ind.rsi, i),
      price_vs_sma |-> OverOrOne(close[i], SeriesAt(ind.sma, i)),
      volatility |-> SeriesAt(ind.volatility, i),
      drawdown |-> Minus(Zero, SeriesAt(ind.drawdown, i)),
      volume |-> volume[i], volume_avg |-> average, volume_vs_avg |-> OverOrOne(volume[i], average),
      price_range |-> IF i <= Period.sma THEN Zero ELSE RangeOf(Tail2(close, Period.sma + 1)),
      overall_score |-> now.score, signal |-> now.score, regime |-> now.regime]

ForwardReturn(bars, i, horizon) ==
  Over2(Minus(bars[i + horizon].close, bars[i].close), bars[i].close)

\* Days are numbered from 1; a row needs the warm-up behind it and the horizon ahead.
RowDays(bars) == IF Len(bars) < Period.least THEN {}
                 ELSE Period.warmup + 1 .. Len(bars) - Period.horizon
Row(bars, i) == [day |-> i, features |-> FeaturesAt(SubSeq(bars, 1, i), Last(bars).market),
                 target |-> ForwardReturn(bars, i, Period.horizon)]
Dataset(bars) == {Row(bars, i) : i \in RowDays(bars)}

\* The first 60% of the days train, the next 20% validate, the rest test.
Partition(days, part) ==
  LET n == Cardinality(days)
      rank(d) == Cardinality({e \in days : e < d})
  IN {d \in days : CASE part = "train" -> rank(d) < (n * 6) \div 10
                     [] part = "validation" -> rank(d) >= (n * 6) \div 10 /\ rank(d) < (n * 8) \div 10
                     [] part = "test" -> rank(d) >= (n * 8) \div 10}

-----------------------------------------------------------------------------
(* Properties *)

\* What an indicator says of a day is the same whether or not later bars are known.
PastOnly(bars) ==
  \A k \in 1 .. Len(bars) :
    LET early == IndicatorsOf(SubSeq(bars, 1, k))
        late == IndicatorsOf(bars)
    IN \A name \in DOMAIN late : early[name] = SubSeq(late[name], 1, k)

\* Ranges a reader of the indicators relies on.
InRange(bars) ==
  LET ind == IndicatorsOf(bars)
      Between(lo, v, hi) == v = Missing \/ (~Less(v, lo) /\ ~Less(hi, v))
  IN \A i \in DOMAIN bars :
       /\ Between(Zero, ind.rsi[i], Whole(100))
       /\ Between(Whole(-1), ind.drawdown[i], Zero)
       /\ Between(Zero, ind.gaps[i], Whole(1))
       /\ ind.atr[i] # Missing => ~Less(ind.atr[i], Zero)

\* The split is by days, in their order: what is tested is later than what is learnt.
SplitsAreOrdered(bars) ==
  \A d, e \in RowDays(bars) :
    LET In(day, p) == day \in Partition(RowDays(bars), p)
    IN d < e => ~(In(e, "train") /\ ~In(d, "train")) /\ ~(In(d, "test") /\ ~In(e, "test"))

IndicatorsInit == question \in [kind : {"indicators"}, of : BarSeries]
IndicatorsSpec == IndicatorsInit /\ Stays

\* No indicator of a day depends on the bar of a later one, and the model is tested on the
\* days after those it was trained on.
IndicatorsAreCausal ==
  Asked("indicators") =>
    PastOnly(question.of) /\ InRange(question.of) /\ SplitsAreOrdered(question.of)

\* The documented form: a row's features are what was known on its day.
FeaturesKnownAtTheirDay(bars) ==
  \A r \in Dataset(bars) : r.features = FeaturesAt(SubSeq(bars, 1, r.day), bars[r.day].market)

=============================================================================
