---------------------------- MODULE StrategyFeatures ----------------------------
(***************************************************************************)
(* The 24 raw features of the strategy module: pure functions of what is   *)
(* known of one symbol as of a day.  Data that is absent makes a feature   *)
(* Missing, never 0.                                                       *)
(*                                                                         *)
(* A value is a fraction.  The cube root of the revenue growth over three  *)
(* years is left out: features are only compared, and it keeps their order.*)
(***************************************************************************)
EXTENDS Integers, Sequences, FiniteSets, FiniteSetsExt, SequencesExt

CONSTANTS
  Missing,   \* no value
  Span       \* bars a feature looks back, by its name (20, 50, 63, 200 ... in the code)

Features ==
  [technical |-> {"price_vs_sma20", "price_vs_sma50", "price_vs_sma200", "return_20d",
                  "return_63d", "rs_vs_index_63d", "macd_hist_pct", "atr20_pct"},
   moneyflow |-> {"avg_value_20d", "volume_ratio_20d"},
   growth |-> {"revenue_yoy", "net_profit_yoy", "revenue_cagr_3y"},
   quality |-> {"roe_ttm", "roa_ttm", "net_margin", "cfo_to_net_profit_ttm"},
   valuation |-> {"pe_ttm", "pb", "dividend_yield_ttm"},
   macro |-> {"catalyst_event_ttm"},
   governance |-> {"debt_to_equity", "current_ratio", "redflag_free"}]

Groups == DOMAIN Features
FeatureNames == UNION {Features[g] : g \in Groups}

\* Features of which less is better.
Inverse24 == {"atr20_pct", "pe_ttm", "pb", "debt_to_equity"}

GenericLeverage == {"debt_to_equity", "current_ratio"}
GenericValuation == {"pe_ttm", "pb"}

AppliesTo(name, industry) ==
  /\ name \in GenericLeverage => industry \notin {"banking", "securities", "insurance"}
  /\ name \in GenericValuation => industry # "banking"

-----------------------------------------------------------------------------
(* Fractions, with a positive denominator in lowest terms, and what is Missing *)

Gcd[p \in Nat \X Nat] == IF p[2] = 0 THEN p[1] ELSE Gcd[<<p[2], p[1] % p[2]>>]

Magnitude(n) == IF n < 0 THEN -n ELSE n

Frac(num, den) ==
  IF den = 1 THEN [num |-> num, den |-> 1]
  ELSE LET sign == IF den < 0 THEN -1 ELSE 1
           g == Gcd[<<Magnitude(num), Magnitude(den)>>]
       IN [num |-> (sign * num) \div g, den |-> (sign * den) \div g]

\* The fractions themselves.
Fractions == {f \in [num : Int, den : Nat \ {0}] : Gcd[<<Magnitude(f.num), f.den>>] = 1}

Whole(n) == [num |-> n, den |-> 1]
Zero == Whole(0)
Plus(a, b) == Frac(a.num * b.den + b.num * a.den, a.den * b.den)
Times(a, b) == Frac(a.num * b.num, a.den * b.den)
Minus(a, b) == Frac(a.num * b.den - b.num * a.den, a.den * b.den)
Over2(a, b) == Frac(a.num * b.den, a.den * b.num)
Less(a, b) == a.num * b.den < b.num * a.den
Distance(a, b) == LET d == Minus(a, b) IN [d EXCEPT !.num = Magnitude(@)]

Sum(seq) ==
  LET first[n \in 0 .. Len(seq)] == IF n = 0 THEN Zero ELSE Plus(first[n - 1], seq[n])
  IN first[Len(seq)]
\* The sum of the values of a function, in whatever order.
TotalOf(w) == FoldSet(LAMBDA x, sum : Plus(sum, w[x]), Zero, DOMAIN w)
Mean(seq) == Over2(Sum(seq), Whole(Len(seq)))
LastN(seq, n) == SubSeq(seq, Len(seq) - n + 1, Len(seq))
FromEnd(seq, n) == seq[Len(seq) - n]

\* The n-th of a set of numbers, and the elements of a sequence at some places, in its order.
Place(set, x) == Cardinality({y \in set : y < x})
Nth(set, n) == CHOOSE x \in set : Place(set, x) = n - 1
Picked(seq, places) == [n \in 1 .. Cardinality(places) |-> seq[Nth(places, n)]]

\* A set in the order of a relation, given as its pairs: each comes after those it follows.
Sorted(set, pairs) ==
  [n \in 1 .. Cardinality(set) |->
     CHOOSE x \in set : Cardinality({y \in set : <<y, x>> \in pairs}) = n - 1]

\* _ratio and _pct_change.
RatioOf(a, b) == IF Missing \in {a, b} \/ b = Zero THEN Missing ELSE Over2(a, b)
PctChange(now, before) ==
  IF Missing \in {now, before} \/ before = Zero THEN Missing
  ELSE Over2(Minus(now, before), Distance(before, Zero))

-----------------------------------------------------------------------------
(* Prices, oldest first *)

PriceVsSma(closes, n) ==
  IF Len(closes) < n THEN Missing ELSE PctChange(Last(closes), Mean(LastN(closes, n)))

ReturnOver(closes, n) ==
  IF Len(closes) <= n THEN Missing ELSE PctChange(Last(closes), FromEnd(closes, n))

\* The index is read n of its own bars back, whichever days the symbol has bars of.
RsOverIndex(snap, n) ==
  LET own == ReturnOver(snap.closes, n)
      index == ReturnOver(snap.index_closes, n)
  IN IF Missing \in {own, index} THEN Missing ELSE Minus(own, index)

TrueRanges(closes) == [i \in 1 .. Len(closes) - 1 |-> Distance(closes[i + 1], closes[i])]

Atr(closes, n) ==
  IF Len(closes) < n + 1 THEN Missing ELSE Mean(TrueRanges(LastN(closes, n + 1)))

AtrPct(closes, n) ==
  IF Len(closes) < n + 1 \/ ~Less(Zero, Last(closes)) THEN Missing
  ELSE Over2(Atr(closes, n), Last(closes))

Ema(values, n) ==
  LET alpha == Frac(2, n + 1)
      ema[i \in n .. Len(values)] ==
        IF i = n THEN Mean(SubSeq(values, 1, n))
        ELSE Plus(Times(alpha, values[i]), Times(Minus(Whole(1), alpha), ema[i - 1]))
  IN [i \in 1 .. Len(values) - n + 1 |-> ema[i + n - 1]]

\* The difference of two averages, as long as the slower one.
MacdLine(fast, slow) ==
  [i \in 1 .. Len(slow) |-> Minus(FromEnd(fast, Len(slow) - i), slow[i])]
AboveSignal(line) == Minus(Last(line), Last(Ema(line, Span.macd_signal)))

MacdHistPct(closes) ==
  LET line == MacdLine(Ema(closes, Span.ema_fast), Ema(closes, Span.ema_slow))
  IN IF Len(closes) < Span.macd_bars \/ ~Less(Zero, Last(closes)) THEN Missing
     ELSE Over2(AboveSignal(line), Last(closes))

AvgValue(values, n) ==
  IF values = <<>> THEN Missing ELSE Mean(IF Len(values) < n THEN values ELSE LastN(values, n))

VolumeRatio(volumes, recent, n) ==
  IF Len(volumes) < n THEN Missing
  ELSE RatioOf(Mean(LastN(volumes, recent)), Mean(LastN(volumes, n)))

-----------------------------------------------------------------------------
(* Statements, ascending by report date *)

Codes == {"revenue", "net_profit", "eps", "assets", "current_assets", "liabilities",
          "current_liabilities", "equity", "cfo"}

\* Mutant: a line that was not reported counts as zero.
ValueOrZero(period, code) ==
  IF period = Missing \/ period.values[code] = Missing THEN Zero ELSE period.values[code]

FinancialValue(period, code) == IF period = Missing THEN Missing ELSE period.values[code]

\* A period of a report, and what it reported.
PeriodRecords == [type : {"QUARTER", "YEAR"}, year : Int, period : Int,
                  values : [Codes -> Fractions \cup {Missing}]]

LatestOf(snap) == IF snap.financials = <<>> THEN Missing ELSE Last(snap.financials)

SamePeriod(p, latest) ==
  /\ p.type = latest.type /\ p.period = latest.period /\ p.year = latest.year - 1

YearAgo(snap) ==
  LET fin == snap.financials
      earlier == {i \in 1 .. Len(fin) - 1 : SamePeriod(fin[i], Last(fin))}
  IN IF earlier = {} THEN Missing ELSE fin[Max(earlier)]

\* Where the statements of a type are, and the one k before the last of them.
OfType(snap, type) == {i \in DOMAIN snap.financials : snap.financials[i].type = type}
Before(snap, is, k) == snap.financials[CHOOSE i \in is : Cardinality({j \in is : j > i}) = k]

YoY(snap, code) == PctChange(FinancialValue(LatestOf(snap), code), FinancialValue(YearAgo(snap), code))

RevenueCagr(snap) ==
  LET years == OfType(snap, "YEAR")
      start == FinancialValue(Before(snap, years, 3), "revenue")
      end == FinancialValue(Before(snap, years, 0), "revenue")
  IN IF Cardinality(years) < 4 \/ Missing \in {start, end} \/ ~Less(Zero, start) THEN Missing
     ELSE Over2(end, start)

\* The last quarters the symbol has, be they consecutive or not.
TtmSum(snap, code) ==
  LET quarters == OfType(snap, "QUARTER")
      four == [i \in 1 .. Span.quarters |->
                 FinancialValue(Before(snap, quarters, Span.quarters - i), code)]
  IN IF Cardinality(quarters) < Span.quarters \/ \E i \in DOMAIN four : four[i] = Missing
     THEN Missing ELSE Sum(four)

LatestRatio(snap, a, b) == RatioOf(FinancialValue(LatestOf(snap), a), FinancialValue(LatestOf(snap), b))

Positive(x) == x # Missing /\ Less(Zero, x)

\* Price over a positive figure per share.
Multiple(snap, perShare) ==
  IF snap.closes # <<>> /\ Positive(perShare) THEN Over2(Last(snap.closes), perShare)
  ELSE Missing

SharesOutstanding(snap) == RatioOf(TtmSum(snap, "net_profit"), TtmSum(snap, "eps"))

DividendYield(snap) ==
  IF snap.closes # <<>> /\ snap.dividend # Missing /\ Less(Zero, Last(snap.closes))
  THEN Over2(snap.dividend, Last(snap.closes)) ELSE Missing

CatalystEvent(snap) ==
  IF snap.dividend = Missing THEN Missing
  ELSE IF Less(Zero, snap.dividend) THEN Whole(1) ELSE Zero

RedflagFree(snap) ==
  IF snap.red_flags.unchecked # {} THEN Missing
  ELSE IF snap.red_flags.flags = {} THEN Whole(1) ELSE Zero

Feature(name, snap) ==
  CASE name \in {"price_vs_sma20", "price_vs_sma50", "price_vs_sma200"} ->
         PriceVsSma(snap.closes, Span[name])
    [] name \in {"return_20d", "return_63d"} -> ReturnOver(snap.closes, Span[name])
    [] name = "rs_vs_index_63d" -> RsOverIndex(snap, Span[name])
    [] name = "macd_hist_pct" -> MacdHistPct(snap.closes)
    [] name = "atr20_pct" -> AtrPct(snap.closes, Span[name])
    [] name = "avg_value_20d" -> AvgValue(snap.values, Span[name])
    [] name = "volume_ratio_20d" -> VolumeRatio(snap.volumes, Span.recent, Span[name])
    [] name = "revenue_yoy" -> YoY(snap, "revenue")
    [] name = "net_profit_yoy" -> YoY(snap, "net_profit")
    [] name = "revenue_cagr_3y" -> RevenueCagr(snap)
    [] name = "roe_ttm" -> RatioOf(TtmSum(snap, "net_profit"), FinancialValue(LatestOf(snap), "equity"))
    [] name = "roa_ttm" -> RatioOf(TtmSum(snap, "net_profit"), FinancialValue(LatestOf(snap), "assets"))
    [] name = "net_margin" -> LatestRatio(snap, "net_profit", "revenue")
    [] name = "cfo_to_net_profit_ttm" -> RatioOf(TtmSum(snap, "cfo"), TtmSum(snap, "net_profit"))
    [] name = "pe_ttm" -> Multiple(snap, TtmSum(snap, "eps"))
    [] name = "pb" -> Multiple(snap, RatioOf(FinancialValue(LatestOf(snap), "equity"),
                                             SharesOutstanding(snap)))
    [] name = "dividend_yield_ttm" -> DividendYield(snap)
    [] name = "catalyst_event_ttm" -> CatalystEvent(snap)
    [] name = "debt_to_equity" -> LatestRatio(snap, "liabilities", "equity")
    [] name = "current_ratio" -> LatestRatio(snap, "current_assets", "current_liabilities")
    [] name = "redflag_free" -> RedflagFree(snap)

\* The features a symbol has, each with its value.
ComputeRawFeatures(snap) ==
  {<<name, Feature(name, snap)>> :
     name \in {name \in FeatureNames : AppliesTo(name, snap.industry)
                                        /\ Feature(name, snap) # Missing}}

=============================================================================
