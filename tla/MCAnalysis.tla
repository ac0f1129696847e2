------------------------------ MODULE MCAnalysis ------------------------------
(***************************************************************************)
(* From a vendor's answer to a report, part by part: a call of a vendor    *)
(* adapter, the strategy job, and the pure calculations, of which a        *)
(* behaviour is one input, the question.  The parts meet in the database   *)
(* only, so the others stay as they started.                               *)
(***************************************************************************)
EXTENDS VendorFetch, VendorRows, StrategyJob, StrategyAdvice, StrategyBacktest, Evidence,
        AgentReports

VARIABLE part

-----------------------------------------------------------------------------
(* A call of a vendor adapter: bars of every day, of some days, of one, or none *)

MCListings == {{}, {"a", "b"} \X (1 .. 3), {<<"a", 2>>, <<"a", 3>>, <<"b", 1>>}, {<<"b", 2>>}}

MCSplits == {[day |-> 2, num |-> 2, den |-> 1], [day |-> 3, num |-> 3, den |-> 2],
             [day |-> 4, num |-> 1, den |-> 2]}

-----------------------------------------------------------------------------
(* The strategy job: a restatement and a corrected bar arrive while it runs *)

\* The windows of the features, a few days long, and the weights of the shipped profiles.
MCSpan ==
  [price_vs_sma20 |-> 2, price_vs_sma50 |-> 2, price_vs_sma200 |-> 3, return_20d |-> 1,
   return_63d |-> 2, rs_vs_index_63d |-> 1, ema_fast |-> 1, ema_slow |-> 2, macd_signal |-> 1,
   macd_bars |-> 2, atr20_pct |-> 1, avg_value_20d |-> 2, volume_ratio_20d |-> 2, recent |-> 1,
   quarters |-> 1, trend_fast |-> 2, trend_slow |-> 3, levels |-> 1, min_avg_value |-> Whole(1)]

MCWeights ==
  [short |-> [technical |-> 40, moneyflow |-> 25, growth |-> 10, quality |-> 5, valuation |-> 5,
              macro |-> 15, governance |-> 0],
   mid |-> [technical |-> 20, moneyflow |-> 10, growth |-> 30, quality |-> 15, valuation |-> 15,
            macro |-> 10, governance |-> 0],
   long |-> [technical |-> 5, moneyflow |-> 5, growth |-> 20, quality |-> 30, valuation |-> 25,
             macro |-> 5, governance |-> 10]]

MCIndustry == [s \in {"a", "b"} |-> IF s = "a" THEN "software" ELSE "banks"]
MCLag == [QUARTER |-> 2, YEAR |-> 3]

DayBar(s, d, c) == [symbol |-> s, day |-> d, close |-> c, volume |-> 1, value |-> c]
Line(s, code, report, value, public, restated) ==
  [symbol |-> s, type |-> "QUARTER", year |-> 1, period |-> 1, report |-> report,
   december |-> FALSE, code |-> code, value |-> value, public |-> public, published |-> Missing,
   restated |-> restated]

MCMarket0 ==
  [bars |-> {DayBar("a", 0, 2), DayBar("b", 0, 2), DayBar("VNINDEX", 0, 2),
             DayBar("a", 1, 2), DayBar("b", 1, 3), DayBar("VNINDEX", 1, 2)},
   lines |-> {Line("a", "net_profit", -1, 1, 1, FALSE), Line("a", "revenue", -1, 2, 1, FALSE),
              Line("b", "revenue", -1, 2, 1, FALSE), Line("b", "net_profit", 0, 2, 1, FALSE)},
   events |-> {}]

MCArrivals ==
  {[kind |-> "bar", day |-> 2, row |-> DayBar("b", 2, 1)],
   [kind |-> "line", day |-> 2, row |-> Line("a", "net_profit", -1, 3, 2, TRUE)]}

-----------------------------------------------------------------------------
(* The scores: universes, sets of groups and snapshots *)

\* At most one value per key.
Partial(keys, values) ==
  UNION {{{<<k, f[k]>> : k \in ks} : f \in [ks -> values]} : ks \in SUBSET keys}

MCUniverses ==
  {{<<f[1][1], f[1][2], f[2]>> : f \in u} :
     u \in Partial({"a", "b", "c"} \X {"pe_ttm", "pb"}, {Whole(-1), Zero, Frac(1, 2)})}
MCGroupSets == Partial(Groups, {Whole(10), Whole(90)})

Quarter(year, rest, few) ==
  [type |-> "QUARTER", year |-> year, period |-> 1,
   values |-> [c \in Codes |-> IF c \in {"eps", "equity", "revenue", "current_liabilities"}
                               THEN few ELSE rest]]
MCReported == {<<Whole(1), Whole(2)>>, <<Whole(-1), Whole(1)>>, <<Zero, Whole(1)>>, <<Whole(3), Zero>>}
MCSnaps ==
  {[closes |-> <<Whole(2), Whole(3)>>, volumes |-> <<Whole(1)>>, values |-> <<Whole(5)>>,
    index_closes |-> <<Whole(1), Whole(2)>>, dividend |-> Missing, industry |-> industry,
    red_flags |-> [unchecked |-> {"audit"}, flags |-> {}],
    financials |-> <<Quarter(1, v[1], v[2]), Quarter(2, w[1], w[2])>>] :
     industry \in {"software", "banking"}, v, w \in MCReported}

-----------------------------------------------------------------------------
(* Indicators and ML features: series of bars *)

MCPeriod ==
  [sma |-> 2, ema |-> 2, rsi |-> 2, atr |-> 2, fast |-> 1, slow |-> 2, signal |-> 2,
   roc |-> 1, vol |-> 2, warmup |-> 1, least |-> 3, horizon |-> 1]

MLBar(o, h, l, c, v, b, s) ==
  [open |-> Whole(o), high |-> Whole(h), low |-> Whole(l), close |-> Whole(c), volume |-> Whole(v),
   bench |-> Whole(b), market |-> [score |-> s, regime |-> s]]
MLBars == {MLBar(1, 2, 1, 1, 1, 2, 1), MLBar(2, 3, 1, 2, 2, 2, 1), MLBar(4, 4, 2, 3, 1, 3, 2)}
MCBarSeries == UNION {[1 .. n -> MLBars] : n \in 1 .. 4}

-----------------------------------------------------------------------------
(* The strategy backtest: two stocks, one may not trade every day *)

Traded(days, closes) ==
  UNION {[ds -> {[open |-> n, close |-> n, volume |-> 1] : n \in closes}] : ds \in SUBSET days}
MCMarkets ==
  [stocks : {s \in [{1, 2} -> Traded(1 .. 3, {1, 2})] : DOMAIN s[1] = 1 .. 3},
   index : {[d \in ds |-> [open |-> 1, close |-> 1, volume |-> 1]] : ds \in {2 .. 3, 2 .. 4}}]

-----------------------------------------------------------------------------
(* Evidence: an article cut into chunks, and one that names no symbol *)

MCReliability == [s \in {"cafef"} |-> Frac(9, 10)]
Para(n) == [i \in 1 .. n |-> i % 2]
Texts == {<<Para(1)>>, <<Para(6)>>, <<Para(2), Para(1)>>, <<Para(2), Para(2)>>,
          <<Para(9), Para(1)>>, <<Para(1), Para(7)>>}
Item(id, text, symbols, source, age) ==
  [id |-> id, title |-> <<1>>, text |-> text, symbols |-> symbols, source |-> source, age |-> age]
MCSearches ==
  {[items |-> {Item(1, t, {"a", "b"}, "cafef", 1), Item(2, u, named, "x", Missing)},
    query |-> <<0, 1>>, top_k |-> k, symbol |-> s, source |-> so] :
      t \in Texts, u \in {<<Para(1)>>, <<Para(6), Para(3)>>}, named \in {{}, {"a"}},
      k \in {1, 2}, s \in {Missing, "a"}, so \in {Missing, "x"}}

-----------------------------------------------------------------------------
(* Pages and reports: three stocks over three days *)

MCStockRows == <<"s1", "s2", "s3">>

\* A database with these closes, 0 for a day without a bar, s2 of this status.
Database(closes, status) ==
  [status |-> [s \in Stocks |-> IF s = "s2" THEN status ELSE "ACTIVE"],
   exchange |-> [s \in Stocks |-> IF s = "s3" THEN "HNX" ELSE "HOSE"],
   vn30 |-> [s \in Stocks |-> s = "s1"],
   bars |-> UNION {{[stock |-> s, day |-> d, close |-> Whole(closes[s][d])] :
                      d \in {d \in 1 .. 3 : closes[s][d] # 0}} : s \in Stocks},
   scores |-> {},
   sector |-> [s \in Stocks |-> IF s = "s2" THEN "it" ELSE "oil"],
   risk |-> [s \in Stocks |-> [volatility |-> IF s = "s2" THEN Missing ELSE Frac(1, 4),
                               max_drawdown |-> Frac(-1, 5)]],
   quality |-> [s \in Stocks |-> IF s = "s3" THEN Missing ELSE Whole(80)],
   by_symbol |-> StockRows,
   pe |-> [s \in Stocks |-> Whole(9)], median_pe |-> [s \in Stocks |-> Missing],
   regime |-> [name |-> "BULL", confidence |-> Frac(1, 2)]]

MCDatabases ==
  {Database(closes, status) : status \in {"ACTIVE", "SUSPENDED"},
     closes \in [Stocks -> {<<2, 3, 2>>, <<3, 3, 2>>, <<2, 3, 0>>, <<3, 0, 3>>, <<0, 3, 3>>,
                           <<0, 0, 2>>, <<0, 0, 0>>}]}

\* Raw factors of three stocks, some of them unknown.
MCRaws ==
  {[f \in Factors |-> IF f = "momentum" THEN m ELSE IF f = "risk" THEN r ELSE Missing] :
     m \in {Missing, Whole(1), Whole(3)}, r \in {Missing, Whole(1), Whole(2)}}
MCRawUniverses == [Stocks -> MCRaws]

MCDescribed ==
  {Database(a @@ b @@ c, "ACTIVE") : a \in [{"s1"} -> {<<1, 2, 3>>, <<2, 2, 2>>}],
     b \in [{"s2"} -> {<<1, 2, 1>>, <<3, 2, 1>>}],
     c \in [{"s3"} -> {<<0, 0, 0>>, <<0, 0, 2>>, <<2, 2, 2>>}]}
MCPosition == [symbol : Stocks, quantity : {Whole(1), Whole(3)}]
MCPortfolios ==
  [1 .. 2 -> MCPosition] \cup [1 .. 1 -> MCPosition]
    \cup {<<[symbol |-> "s1", quantity |-> Whole(n)], [symbol |-> "s2", quantity |-> Whole(1)],
             [symbol |-> "s3", quantity |-> Whole(m)]>> : n, m \in {1, 3}}
MCOthers ==
  {[evidence |-> 2, news |-> 1, events |-> 0, llm |-> "fails", predicted |-> TRUE]}

-----------------------------------------------------------------------------

Asleep == [kind |-> "none"]

Init ==
  /\ part \in {"fetch", "rows", "strategy", "question"}
  /\ FetchInit
  /\ part # "fetch" => vendor = "rss" /\ listed = {} /\ cached = 0
  /\ StrategyInit
  /\ IF part = "rows" THEN RowsInit ELSE answer = Asleep
  /\ IF part # "question" THEN question = Asleep
     ELSE \/ AdviceInit
          \/ BacktestInit
          \/ IndicatorsInit
          \/ EvidenceInit
          \/ PagesInit
          \/ ReportsInit

asked == <<part, answer, question>>
FetchMoves    == part = "fetch" /\ FetchNext /\ UNCHANGED <<asked, strategyVars>>
StrategyMoves == part = "strategy" /\ StrategyNext /\ UNCHANGED <<asked, fetchVars>>
FetchGoesOn   == part = "fetch" /\ FetchSteps /\ UNCHANGED <<asked, strategyVars>>

vars == <<asked, fetchVars, strategyVars>>
Spec == Init /\ [][FetchMoves \/ StrategyMoves]_vars /\ WF_vars(FetchGoesOn)

=============================================================================
