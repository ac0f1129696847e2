------------------------------- MODULE MarketViews -------------------------------
(***************************************************************************)
(* What the API shows of the market database: the nightly factor scores,   *)
(* the ranking made of them, breadth, movers, stocks and indicators.       *)
(*                                                                         *)
(* A database is a record: the status, exchange and index membership of    *)
(* every stock, the set of stored bars [stock, day, close] and the set of  *)
(* factor score rows [stock, day, scores].  "rows" is the order in which a *)
(* query without an ORDER BY returns the stocks.                           *)
(***************************************************************************)
EXTENDS Indicators, FactorScores

CONSTANTS
  Stocks,       \* every stock of the reference table
  StockRows,    \* the stocks in the order a query returns them
  BarsRead,     \* bars of a stock the scoring job reads (250 in the code)
  Reach,        \* days back the movers and the ranking read bars of (100 in the code)
  RawUniverses, \* raw factors of every stock that are asked about
  Databases,    \* databases that are asked about
  ScoringDays   \* newest day of the bars when the scoring job ran

ASSUME PagesAssumption ==
  /\ IsFiniteSet(Stocks) /\ StockRows \in Seq(Stocks) /\ Range(StockRows) = Stocks
  /\ {Unit, BarsRead} \subseteq Nat \ {0} /\ Reach \in Nat /\ ScoringDays \subseteq Int
  /\ \A raws \in RawUniverses : raws \in [Stocks -> [Factors -> Fractions \cup {Missing}]]

\* Prices are printed in whole hundredths.
Printed(x) == x \in Fractions /\ Less(Zero, x) /\ 100 % x.den = 0

Ascending(bars) == Sorted(bars, {p \in bars \X bars : p[1].day < p[2].day})
Closes(bars) == Field(Ascending(bars), "close")
BarsOf(db, s) == {b \in db.bars : b.stock = s}
Active(db) == {s \in Stocks : db.status[s] = "ACTIVE"}
DaysOf(bars) == {b.day : b \in bars}

TradedOn(db, day) == {s \in Stocks : day \in DaysOf(BarsOf(db, s))}

\* The tables: a bar per stock and day, and scores of stocks that traded on the day.
MarketTables(db) ==
  /\ {"bars", "scores", "status", "exchange", "vn30"} \subseteq DOMAIN db
  /\ IsFiniteSet(db.bars) /\ IsFiniteSet(db.scores)
  /\ \A b \in db.bars : b.stock \in Stocks /\ b.day \in Int /\ Printed(b.close)
  /\ \A b, c \in db.bars : b.stock = c.stock /\ b.day = c.day => b = c
  /\ \A r \in db.scores : r.stock \in TradedOn(db, r.day) /\ ScoreShape(r.scores)

ASSUME DatabasesAssumption == \A db \in Databases : MarketTables(db)

-----------------------------------------------------------------------------
(* The scoring job *)

Negated(x) == IF x = Missing THEN Missing ELSE Minus(Zero, x)
raw_price_factors(closes) ==
  [f \in Factors |->
     CASE f = "technical" -> Last(rsi(closes, Period.rsi))
       [] f = "momentum" -> Last(return_n(closes, Period.roc))
       [] f = "risk" -> Negated(Last(volatility(closes, Period.vol)))
       [] OTHER -> Missing]

NewestBars(bars, n) == IF Len(bars) < n THEN bars ELSE LastN(bars, n)
load_price_series(db) ==
  [s \in {s \in Active(db) : BarsOf(db, s) # {}} |->
     NewestBars(Ascending(BarsOf(db, s)), BarsRead)]

\* Mutant: a stock without a bar of the day is ranked by its older bars.
AllOf(series, latest) == DOMAIN series

FreshOf(series, latest) == {s \in DOMAIN series : Last(series[s]).day = latest}

\* The rows of the newest day; a row that is there is replaced.
Upserted(scores, day, raws) ==
  {r \in scores : r.day # day \/ r.stock \notin DOMAIN raws}
    \cup {[stock |-> s, day |-> day, scores |-> compute_factor_scores(raws[s], raws)] :
            s \in DOMAIN raws}
StoreOf(db, series, latest) ==
  [db EXCEPT !.scores =
     Upserted(@, latest, [s \in FreshOf(series, latest) |->
                            raw_price_factors(Field(series[s], "close"))])]
compute_and_store_scores(db) ==
  LET series == load_price_series(db)
  IN IF DOMAIN series = {} THEN db
     ELSE StoreOf(db, series, Max({Last(series[s]).day : s \in DOMAIN series}))

-----------------------------------------------------------------------------
(* The ranking of the newest scored day, with prices as they are now *)

Recent(db, s, day) == Closes({b \in BarsOf(db, s) : b.day >= day - Reach})

\* Mutant: the change of the whole window.
FirstClose(closes) == closes[1]

Previous(closes) == FromEnd(closes, 1)

\* Against an average that is rounded first.
Change(now, before) ==
  IF before = Zero THEN Missing ELSE Rounded(Minus(Over2(now, before), Whole(1)))
VersusSma(closes, n) ==
  IF Len(closes) < n THEN Missing
  ELSE Change(Last(closes), RoundTo(Mean(LastN(closes, n)), 100))

PriceMetrics(closes) ==
  [price |-> Last(closes),
   change |-> IF Len(closes) < 2 THEN Missing
              ELSE RoundTo(Minus(Last(closes), Previous(closes)), 100),
   price_vs_sma20 |-> VersusSma(closes, Period.sma)]

ScoredDay(db) == Max(DaysOf(db.scores))
Scored(db) == {r.stock : r \in {r \in db.scores : r.day = ScoredDay(db)}}
ScoresOf(db, s) == (CHOOSE r \in db.scores : r.stock = s /\ r.day = ScoredDay(db)).scores

\* The payload of a stock and its prices, if it has any in reach.
MetricsOf(closes) == IF closes = <<>> THEN Missing ELSE PriceMetrics(closes)
WithPrices(db, payload, day) ==
  [payload |-> payload, metrics |-> MetricsOf(Recent(db, payload.symbol, day))]

RankingOn(db, rows, day) ==
  LET payloads == Payloads([s \in Scored(db) |-> ScoresOf(db, s)], rows)
  IN [i \in DOMAIN rows |-> WithPrices(db, payloads[i], day)]
get_ranked(db, rows) ==
  IF db.scores = {} THEN <<>>
  ELSE RankingOn(db, Picked(rows, {i \in DOMAIN rows : rows[i] \in Scored(db)}), ScoredDay(db))

-----------------------------------------------------------------------------
(* Breadth and movers *)

CloseOn(db, s, day) == (CHOOSE b \in BarsOf(db, s) : b.day = day).close

\* The two newest days on which anything traded, whatever the status of the stock; with
\* one day nothing has moved.
BreadthOn(db, current) ==
  LET earlier == DaysOf(db.bars) \ {current}
      both == IF earlier = {} THEN {} ELSE TradedOn(db, current) \cap TradedOn(db, Max(earlier))
      was(s) == CloseOn(db, s, Max(earlier))
      is(s) == CloseOn(db, s, current)
  IN [trade_date |-> current,
      participation |-> IF Active(db) = {} THEN Missing
        ELSE Frac(Cardinality(TradedOn(db, current)), Cardinality(Active(db))),
      advancers |-> {s \in both : Less(was(s), is(s))},
      decliners |-> {s \in both : Less(is(s), was(s))},
      unchanged |-> {s \in both : is(s) = was(s)}]
get_breadth(db) ==
  IF db.bars = {}
  THEN [trade_date |-> Missing, participation |-> Missing, advancers |-> {}, decliners |-> {},
        unchanged |-> {}]
  ELSE BreadthOn(db, Max(DaysOf(db.bars)))

Members(db, name) ==
  {s \in Active(db) :
     CASE name = "ALL" -> TRUE
       [] name = "VN30" -> db.vn30[s]
       [] name \in {"HOSE", "HNX", "UPCOM"} -> db.exchange[s] = name
       [] OTHER -> FALSE}

\* The last two bars of each stock in reach, be they of the newest day or not.
Mover(s, closes) ==
  [symbol |-> s, close |-> Last(closes), price_vs_sma20 |-> VersusSma(closes, Period.sma),
   change_pct |-> IF Previous(closes) = Zero THEN Zero ELSE Change(Last(closes), Previous(closes))]
Movers(db, name) ==
  LET closes == [s \in Members(db, name) |-> Recent(db, s, Max(DaysOf(db.bars)))]
  IN {Mover(s, closes[s]) : s \in {s \in Members(db, name) : Len(closes[s]) >= 2}}

Leading(sorted, limit) == SubSeq(sorted, 1, IF Len(sorted) < limit THEN Len(sorted) ELSE limit)

RowOf(rows, item) == CHOOSE i \in DOMAIN rows : rows[i] = item.symbol

\* Items of one change keep the order of the rows.
get_movers(db, name, limit, rows) ==
  LET items == Movers(db, name)
      earlier(a, b) == a.change_pct = b.change_pct /\ RowOf(rows, a) < RowOf(rows, b)
      up == {p \in items \X items :
               Less(p[2].change_pct, p[1].change_pct) \/ earlier(p[1], p[2])}
      down == {p \in items \X items :
                 Less(p[1].change_pct, p[2].change_pct) \/ earlier(p[1], p[2])}
  IN [gainers |-> Leading(Sorted(items, up), limit),
      decliners |-> Leading(Sorted(items, down), limit)]

-----------------------------------------------------------------------------
(* Stocks and indicators *)

latest_closes(db) == [s \in {s \in Stocks : BarsOf(db, s) # {}} |-> Last(Closes(BarsOf(db, s)))]

\* A stock that is not active is still found by its symbol.
get_stock(db, s) ==
  [symbol |-> s, status |-> db.status[s], exchange |-> db.exchange[s], is_vn30 |-> db.vn30[s],
   price |-> IF s \in DOMAIN latest_closes(db) THEN latest_closes(db)[s] ELSE Missing]

list_stocks(db, exchange, vn30) ==
  {get_stock(db, s) : s \in {s \in Active(db) : /\ exchange \in {Missing, db.exchange[s]}
                                                /\ vn30 => db.vn30[s]}}

IndicatorsOn(day, closes) ==
  [as_of |-> day, close |-> Last(closes), sma20 |-> Last(sma(closes, Period.sma)),
   rsi14 |-> Last(rsi(closes, Period.rsi))]
get_indicators(db, s) ==
  IF BarsOf(db, s) = {} THEN Missing
  ELSE IndicatorsOn(Max(DaysOf(BarsOf(db, s))), Closes(BarsOf(db, s)))

-----------------------------------------------------------------------------
(* Properties *)

\* Breadth and movers never contradict each other about a stock that traded on both days.
MovesAgree(breadth, movers) ==
  \A m \in movers :
    m.symbol \in breadth.advancers \cup breadth.decliners \cup breadth.unchanged =>
      /\ Less(Zero, m.change_pct) => m.symbol \in breadth.advancers
      /\ Less(m.change_pct, Zero) => m.symbol \in breadth.decliners
      /\ m.symbol \in breadth.unchanged => m.change_pct = Zero

\* One price and one previous price per stock, whichever page shows it.
PricesAgree(db, ranked, movers) ==
  /\ \A r \in ranked :
       r.metrics # Missing =>
         /\ r.metrics.price = get_stock(db, r.payload.symbol).price
         /\ r.metrics.price = get_indicators(db, r.payload.symbol).close
         /\ \A m \in movers :
              m.symbol = r.payload.symbol /\ Less(Zero, m.change_pct) =>
                Less(Zero, r.metrics.change)
  /\ \A m \in movers : \E s \in list_stocks(db, Missing, FALSE) :
       s.symbol = m.symbol /\ s.price = m.close

\* A ranked stock traded on the ranked day: nobody is ranked by the prices of another day.
RankedTraded(db, ranked) ==
  \A r \in ranked : r.payload.symbol \in TradedOn(db, ScoredDay(db))

\* Pages that are computed apart, from the same tables, tell one story.
ViewsAgree(db, rows) ==
  \E movers \in {Movers(db, "ALL")}, ranked \in {Range(get_ranked(db, rows))} :
    MovesAgree(get_breadth(db), movers) /\ PricesAgree(db, ranked, movers)
      /\ RankedTraded(db, ranked)

\* The scores are those of the day before when the newest bars came later.
ScoredUpTo(db, day) ==
  [compute_and_store_scores([db EXCEPT !.bars = {b \in @ : b.day <= day}]) EXCEPT !.bars = db.bars]
ScoresOfAll(raws) == [s \in DOMAIN raws |-> compute_factor_scores(raws[s], raws)]

PagesInit ==
  question \in [kind : {"ranking"}, of : RawUniverses]
               \cup [kind : {"pages"}, of : Databases, scored : ScoringDays]
PagesSpec == PagesInit /\ Stays

\* The pages made from one database agree, and a ranking explains its own scores.  That a
\* halted stock's last move shows under the current date in movers is not asked about.
PagesAgree ==
  /\ Asked("pages") => \A db \in {ScoredUpTo(question.of, question.scored)} :
                         ViewsAgree(db, StockRows)
  /\ Asked("ranking") => RankingIsExplained(ScoresOfAll(question.of), StockRows)

\* What the docstring says of the movers: gainers gained, decliners declined.  The code cuts
\* two sorted lists and looks at no sign.
GainersGained(db, limit, rows) ==
  LET m == get_movers(db, "ALL", limit, rows)
  IN /\ \A i \in DOMAIN m.gainers : Less(Zero, m.gainers[i].change_pct)
     /\ \A i \in DOMAIN m.decliners : Less(m.decliners[i].change_pct, Zero)

=============================================================================
