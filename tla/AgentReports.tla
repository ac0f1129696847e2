------------------------------- MODULE AgentReports -------------------------------
(***************************************************************************)
(* What the analysis, research and portfolio agents make of the tools:     *)
(* every number comes from the market views, the agents only combine them. *)
(*                                                                         *)
(* Besides the market database, "db" has the sector, the risk figures, the *)
(* quality score and the P/E (and its median in the industry) of every     *)
(* stock, the stocks in the order of their symbols, and the market regime. *)
(* A report is Missing when the agent raises an error; a text is the facts *)
(* it states.                                                              *)
(***************************************************************************)
EXTENDS MarketViews

CONSTANTS
  WeightUnit,  \* a portfolio weight is a multiple of 1/WeightUnit (1000000 in the code)
  Described,   \* databases that are reported on
  Portfolios,  \* sequences of positions [symbol, quantity]
  Others       \* what else an analysis is given

ASSUME ReportsAssumption ==
  /\ WeightUnit \in Nat /\ WeightUnit >= 5
  /\ \A db \in Described :
       /\ MarketTables(db) /\ {"quality", "regime"} \subseteq DOMAIN db
       /\ db.regime.confidence \in Fractions
       /\ \A s \in Stocks : db.quality[s] \in Fractions \cup {Missing}
  /\ \A positions \in Portfolios :
       positions \in Seq([symbol : Stocks, quantity : {q \in Fractions : Less(Zero, q)}])
  /\ \A other \in Others : "evidence" \in DOMAIN other /\ other.evidence \in Nat

-----------------------------------------------------------------------------
(* Tools *)

\* A stock with a single bar has not changed.
get_stock_price(db, s) ==
  LET closes == Closes(BarsOf(db, s))
      before == IF Len(closes) > 1 THEN Previous(closes) ELSE Last(closes)
  IN IF closes = <<>> THEN Missing
     ELSE [price |-> Last(closes),
           change_pct |-> IF before = Zero THEN Zero
                          ELSE Rounded(Over2(Minus(Last(closes), before), before))]

get_ranking(ranked, s) ==
  LET at == {i \in DOMAIN ranked : ranked[i].payload.symbol = s}
  IN IF at = {} THEN Missing ELSE ranked[CHOOSE i \in at : TRUE].payload

\* No figure of risk for a stock that is not ranked, although its prices are known.
get_risk(db, ranking, s) ==
  IF ranking = Missing \/ BarsOf(db, s) = {}
  THEN [volatility |-> Missing, max_drawdown |-> Missing] ELSE db.risk[s]

ScoreOf(ranking) == IF ranking = Missing THEN Missing ELSE ranking.overall_score
SignalOf(ranking) == IF ranking = Missing THEN "NEUTRAL" ELSE ranking.signal

\* The first peers of the sector by symbol, and the mean of those that are ranked.
get_peer_analysis(db, ranked, s, limit) ==
  LET others == {p \in Active(db) \ {s} : db.sector[p] = db.sector[s]}
      peers == Picked(db.by_symbol, {i \in DOMAIN db.by_symbol : db.by_symbol[i] \in others})
      first == SubSeq(peers, 1, IF Len(peers) < limit THEN Len(peers) ELSE limit)
      scores == Defined([i \in DOMAIN first |-> ScoreOf(get_ranking(ranked, first[i]))])
  IN [count |-> Len(first),
      average_score |-> IF scores = <<>> THEN Missing ELSE RoundTo(Mean(scores), 100)]

\* The answers of the tools for one stock, all read from one state of the database.
ToolsOf(db, ranked, s) ==
  [price |-> get_stock_price(db, s), ranking |-> get_ranking(ranked, s),
   risk |-> get_risk(db, get_ranking(ranked, s), s), sector |-> db.sector[s],
   peers |-> get_peer_analysis(db, ranked, s, 4), technical |-> get_indicators(db, s),
   quality |-> db.quality[s], regime |-> db.regime, pe |-> db.pe[s],
   median_pe |-> db.median_pe[s]]

-----------------------------------------------------------------------------
(* Portfolio *)

PositionRow(tools, p) ==
  LET t == tools[p.symbol]
  IN [symbol |-> p.symbol, value |-> Times(p.quantity, t.price.price), sector |-> t.sector,
      score |-> ScoreOf(t.ranking), signal |-> SignalOf(t.ranking),
      volatility |-> t.risk.volatility, max_drawdown |-> t.risk.max_drawdown]

\* Mutant: a row without the figure counts as zero.
OverAll(rs, key) == DOMAIN rs

Scorable(rs, key) == {i \in DOMAIN rs : rs[i][key] # Missing}

SumOver(set, term) == TotalOf([i \in set |-> term[i]])
Percent(x) == Times(Whole(100), x)

OrZero(x) == IF x = Missing THEN Zero ELSE x

Budget == Frac(20, 100)

InSector(rs, sector) == {i \in DOMAIN rs : rs[i].sector = sector}

\* The largest sum of the rounded weights of a sector.
SectorExposure(rs, w) == Widest({SumOver(InSector(rs, rs[i].sector), w) : i \in DOMAIN rs})

\* A row without the figure adds nothing to the estimate.
Estimate(rs, w, key) ==
  SumOver(Scorable(rs, key), [i \in DOMAIN rs |-> Times(w[i], OrZero(rs[i][key]))])

\* A figure over the rows that have it, by their rounded weights.
Weighted(rs, w, key) ==
  LET known == SumOver(Scorable(rs, key), w)
  IN IF Less(Zero, known) THEN Over2(Estimate(rs, w, key), known) ELSE Zero

If(condition, kind) == IF condition THEN {kind} ELSE {}

Alerts(rs, w, concentration, exposure, used) ==
  LET negative == SumOver({i \in DOMAIN rs : rs[i].signal = "NEGATIVE"}, w)
  IN If(Less(Whole(30), concentration), "concentration")
     \cup If(Less(Whole(50), concentration), "concentration_critical")
     \cup If(Less(Whole(40), Percent(exposure)), "sector_exposure")
     \cup If(~Less(Percent(negative), Whole(20)), "signal_exposure")
     \cup If(Less(Whole(100), used), "risk_budget")

Limits(rs) ==
  If(Len(rs) = 1, "single") \cup If(Len(rs) > 1, "undiversified")
  \cup If(Scorable(rs, "volatility") # DOMAIN rs, "volatility")
  \cup If(Scorable(rs, "score") # DOMAIN rs, "score")

\* No snapshot of a position without a price, or of no value at all.
analyze_portfolio(tools, positions) ==
  LET rs == [i \in DOMAIN positions |-> PositionRow(tools, positions[i])]
      total == Sum([i \in DOMAIN rs |-> rs[i].value])
      weight(i) == Over2(rs[i].value, total)
      w == [i \in DOMAIN rs |-> RoundTo(weight(i), WeightUnit)]
      top == CHOOSE i \in DOMAIN rs : \A j \in DOMAIN rs : ~Less(rs[i].value, rs[j].value)
      exposure == SectorExposure(rs, w)
      used == Percent(Over2(Estimate(rs, w, "volatility"), Budget))
  IN IF (\E i \in DOMAIN positions : tools[positions[i].symbol].price = Missing)
        \/ ~Less(Zero, total)
     THEN Missing
     ELSE [rows |-> rs, largest |-> rs[top].symbol, concentration |-> Percent(weight(top)),
           sector |-> Percent(exposure), score |-> Weighted(rs, w, "score"), budget_used |-> used,
           max_drawdown |-> Estimate(rs, w, "max_drawdown"), warnings |-> Limits(rs),
           alerts |-> Alerts(rs, w, Percent(weight(top)), exposure, used)]

-----------------------------------------------------------------------------
(* Analysis: "other" has the counts of evidence, news and events, and what the LLM does *)

Clamp(x) == IF Less(x, Zero) THEN Zero ELSE IF Less(Whole(1), x) THEN Whole(1) ELSE x

\* Mutant: an input that is missing counts in full.
QualityOrFull(quality) == IF quality = Missing THEN Whole(100) ELSE quality

QualityOrNone(quality) == OrZero(quality)

Agreement(signal) ==
  CASE signal = "POSITIVE" -> Whole(10) [] signal = "NEGATIVE" -> Whole(9) [] OTHER -> Whole(7)

\* A weighted blend, in hundredths of the five parts.
AnalysisConfidence(ranking, quality, regime, evidence) ==
  LET reliability == Clamp(Plus(Frac(1, 2), Times(Frac(1, 2), ranking.confidence)))
      part(weight, x) == Times(Frac(weight, 100), x)
  IN Clamp(Sum(<<part(30, reliability),
                 part(30, Clamp(Over2(QualityOrNone(quality), Whole(100)))),
                 part(20, Clamp(regime.confidence)),
                 part(10, Frac(IF evidence < 4 THEN evidence ELSE 4, 4)),
                 part(10, Over2(Agreement(ranking.signal), Whole(10)))>>))

\* The contributions that have a share, in the order of the payload.
WithShare(ranking) ==
  Picked(ranking.contributions, {i \in DOMAIN ranking.contributions :
                                   ranking.contributions[i].contribution_pct # Missing})
First(seq) == IF seq = <<>> THEN Missing ELSE seq[1].factor

top_factor(ranking) == First(WithShare(ranking))

\* The first of the contributions with the smallest share.
bottom_factor(ranking) ==
  LET shared == WithShare(ranking)
  IN First(Picked(shared, {i \in DOMAIN shared : \A j \in DOMAIN shared :
                             ~Less(shared[j].contribution_pct, shared[i].contribution_pct)}))

\* A factor that has no score is shown with the score zero.
FactorScore(ranking, f) ==
  LET of == {i \in DOMAIN ranking.contributions : ranking.contributions[i].factor = f}
  IN IF of = {} THEN Zero ELSE ranking.contributions[Min(of)].score

\* The text of the language model, unless there is none, it fails or it says nothing.
Thesis(llm, template) == IF llm = "text" THEN "text" ELSE template

Template(t) ==
  [led_by |-> top_factor(t.ranking), overall_score |-> OrZero(t.ranking.overall_score),
   price |-> t.price, regime |-> t.regime, peers |-> t.peers]

\* The two largest shares, whatever the scores, and at most two news.
Catalysts(ranking, other) ==
  [factors |-> {ranking.contributions[i].factor : i \in 1 .. Min({Len(WithShare(ranking)), 2})},
   news |-> Min({other.news, 2}), events |-> other.events]

Risks(t) ==
  [weakest |-> bottom_factor(t.ranking), figures |-> t.risk,
   regime |-> t.regime.name \in {"BEAR", "VOLATILE"},
   valuation |-> Missing \notin {t.pe, t.median_pe} /\ Less(t.median_pe, t.pe)]

\* An indicator without a value is one that is warming up; events are never fed.
Gaps(t, other) ==
  (IF t.technical = Missing THEN {"technical"}
   ELSE IF Missing \in {t.technical.sma20, t.technical.rsi14} THEN {"warmup"} ELSE {})
  \cup (IF other.predicted THEN {} ELSE {"prediction"}) \cup {"events"}

analyze(t, other) ==
  IF t.ranking = Missing THEN Missing
  ELSE [overall_score |-> OrZero(t.ranking.overall_score), signal |-> t.ranking.signal,
        scores |-> [f \in Factors \ {"quality"} |-> FactorScore(t.ranking, f)],
        thesis |-> Thesis(other.llm, Template(t)), catalysts |-> Catalysts(t.ranking, other),
        risks |-> Risks(t), warnings |-> Gaps(t, other),
        confidence |-> AnalysisConfidence(t.ranking, t.quality, t.regime, other.evidence)]

-----------------------------------------------------------------------------
(* Research *)

\* Facts are stated only of what a tool has; confidence is the mean of the evidence's.
KeyFacts(t) ==
  {"profile"} \cup (IF t.price = Missing THEN {} ELSE {"price"})
  \cup (IF t.quality = Missing THEN {} ELSE {"quality"})
  \cup (IF t.peers.count = 0 THEN {} ELSE {"peers"})

research(t, evidence) ==
  IF t = Missing THEN Missing
  ELSE [facts |-> KeyFacts(t),
        confidence |-> IF evidence = <<>> THEN Zero ELSE Clamp(Mean(evidence)),
        warnings |-> {"events"} \cup (IF evidence = <<>> THEN {"evidence"} ELSE {})]

-----------------------------------------------------------------------------
(* Properties *)

\* The guardrails of a portfolio agree with each other: a position beyond the limit of a
\* sector is seen there too, whatever is rounded; an average lies between what it averages;
\* and a figure that leaves a position out says so.
PortfolioIsSound(tools, positions) ==
  \A p \in {analyze_portfolio(tools, positions)} \ {Missing} :
    LET scores == {p.rows[i].score : i \in DOMAIN p.rows} \ {Missing}
        margin == Frac(100 * Len(p.rows), WeightUnit)
    IN /\ Less(Plus(Whole(40), margin), p.concentration) => "sector_exposure" \in p.alerts
       /\ "concentration_critical" \in p.alerts => {"concentration", "sector_exposure"}
                                                     \subseteq p.alerts
       /\ scores = {} => "score" \in p.warnings
       /\ scores # {} /\ Less(Zero, p.score) =>
            \E a, b \in scores : ~Less(p.score, a) /\ ~Less(b, p.score)
       /\ (\E i \in DOMAIN p.rows : p.rows[i].signal = "NEGATIVE"
                                    /\ p.rows[i].symbol = p.largest)
            /\ "concentration" \in p.alerts => "signal_exposure" \in p.alerts

\* An analysis follows its ranking: the factor that leads has no smaller share than the one
\* it calls weakest, and knowing less never makes it surer.
AnalysisIsSound(t, other) ==
  \A a \in {analyze(t, other)} \ {Missing} :
    LET share(f) == (CHOOSE c \in Range(t.ranking.contributions) : c.factor = f).contribution_pct
        knowingLess == analyze([t EXCEPT !.quality = Missing], [other EXCEPT !.evidence = 0])
    IN /\ a.risks.weakest # Missing =>
            ~Less(share(top_factor(t.ranking)), share(a.risks.weakest))
       /\ ~Less(a.confidence, knowingLess.confidence)

ReportsHold(tools, other, positions) ==
  PortfolioIsSound(tools, positions) /\ \A s \in DOMAIN tools : AnalysisIsSound(tools[s], other)

\* What the agents' tools say of every stock.
ToolsFrom(db) ==
  LET then == compute_and_store_scores(db)
      ranked == get_ranked(then, StockRows)
  IN [s \in Stocks |-> ToolsOf(then, ranked, s)]

ReportsInit ==
  question \in [kind : {"reports"}, of : Described, positions : Portfolios, other : Others]
ReportsSpec == ReportsInit /\ Stays

\* The figures of portfolio and analysis reports are backed by what the tools said.
ReportsAreSound ==
  Asked("reports") => \A tools \in {ToolsFrom(question.of)} :
                        ReportsHold(tools, question.other, question.positions)

\* What a comment of the code says: a missing factor is not a weak factor.  An analysis
\* shows it with the score zero.
MissingIsNotWeak(t, other) ==
  \A a \in {analyze(t, other)} \ {Missing} : \A f \in DOMAIN a.scores :
    f \notin {c.factor : c \in Range(t.ranking.contributions)} => a.scores[f] # Zero

\* Holding a stock in two positions is no way around a limit: merging them changes no alert.
\* The limit is compared with each position on its own.
SplitsAreSeen(tools, positions) ==
  LET merged == <<[positions[1] EXCEPT !.quantity = Plus(@, positions[2].quantity)]>>
                  \o SubSeq(positions, 3, Len(positions))
  IN Len(positions) >= 2 /\ positions[1].symbol = positions[2].symbol =>
       LET a == analyze_portfolio(tools, positions)
           b == analyze_portfolio(tools, merged)
       IN a # Missing /\ b # Missing => a.alerts = b.alerts

=============================================================================
