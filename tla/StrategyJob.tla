------------------------------- MODULE StrategyJob -------------------------------
(***************************************************************************)
(* The 17:00 strategy job of the worker and the commands that do parts of  *)
(* it by hand: compute-features, strategy-scores, notify-strategy-changes. *)
(* Each part reads the market for itself, one SELECT after another, while  *)
(* ingestion commits; features and scores are upserts on the trade date;   *)
(* an alert compares the grades of the two newest trade dates.             *)
(*                                                                         *)
(* Rows of statements with one report date come in the order of their      *)
(* type; SQL leaves the order open.                                        *)
(***************************************************************************)
EXTENDS StrategyScores

CONSTANTS
  Symbols,     \* ACTIVE symbols
  Industry,    \* of a symbol, as the industries table names it in lower case
  LastDay, LookBack, DividendDays,
  Lag,         \* days after the report date of a [QUARTER, YEAR] filing without a date
  Arrivals,    \* bars, lines and events that ingestion may commit, each with its day
  Market0,
  HandSymbols, \* sets of symbols a command may name
  MaxHand      \* bound: commands started by hand

VARIABLES
  market,      \* bars, lines of statements (their current version), events
  today,
  features,    \* grp:<group> rows by symbol and trade date
  scores,      \* rows of strategy_scores with their recommendation, by symbol, date, profile
  run,         \* per process: what it does, for which day and symbols, and what it read
  ran,         \* days the scheduled job has begun
  hand,
  basis,       \* history: what the last features of a row, and scores per profile, come from
  known,       \* history: the grade a reader of the mails takes a key to have
  untold       \* history: keys whose grade the mails need not tell

tables == <<features, scores, basis>>
mails == <<known, untold>>
strategyVars == <<market, today, tables, run, ran, hand, mails>>

ASSUME AtLeastOneDay == LastDay \in Nat \ {0}

\* Vendors: a filing is public on its publication date, and by its legal deadline, that of
\* a year's filing for a report date of 31 December, when the vendor gives none.
Filings == Market0.lines \cup {a.row : a \in {a \in Arrivals : a.kind = "line"}}
ASSUME FiledInTime ==
  /\ DOMAIN Market0 = {"bars", "lines", "events"}
  /\ \A l \in Filings :
       /\ l.public \in Int /\ l.report \in Int
       /\ l.published # Missing => l.published \in Int /\ l.public <= l.published
       /\ l.published = Missing /\ ~l.restated /\ l.december => l.public <= l.report + Lag.YEAR
       /\ l.published = Missing /\ ~l.restated /\ ~l.december => l.public <= l.report + Lag.QUARTER
ASSUME LagsAreDays == Lag.YEAR \in Nat /\ Lag.QUARTER \in Nat

Days == 1 .. LastDay
Procs2 == {"job", "hand"}
RowKeys == Symbols \X Profiles

-----------------------------------------------------------------------------
(* What a run sees as of a day *)

\* Mutant: a filing without a publication date is used from its report date.
UsableAtOnce(l) == IF l.published # Missing THEN l.published ELSE l.report

\* A filing of 31 December has the deadline of a year's, be it of a quarter.
UsableFrom(l) ==
  IF l.published # Missing THEN l.published
  ELSE l.report + (IF l.december THEN Lag.YEAR ELSE Lag.QUARTER)

Series(bars, s, asOf) ==
  {b \in bars : b.symbol = s /\ b.day <= asOf /\ b.day >= asOf - LookBack}

\* The rows of a symbol that a run as of a day looks at.
AsOf(view, s, asOf) ==
  [bars |-> Series(view.bars, s, asOf), index |-> Series(view.bars, "VNINDEX", asOf),
   lines |-> {l \in view.lines : l.symbol = s /\ UsableFrom(l) <= asOf},
   events |-> {e \in view.events : /\ e.symbol = s /\ e.day <= asOf
                                   /\ e.day >= asOf - DividendDays}]

\* A column of bars, oldest first.
Column(bars, f) ==
  LET days == {b.day : b \in bars}
      sorted == IF bars = {} THEN <<>>
                ELSE SelectSeq([i \in 1 .. Max(days) - Min(days) + 1 |-> Min(days) + i - 1],
                               LAMBDA d : d \in days)
  IN [i \in DOMAIN sorted |-> Whole((CHOOSE b \in bars : b.day = sorted[i])[f])]

\* The periods with a visible line, ascending by report date.
Periods(lines) ==
  LET periods == {[type |-> l.type, year |-> l.year, period |-> l.period, report |-> l.report] :
                    l \in lines}
      line(p, c) == {l \in lines : l.code = c /\ l.type = p.type /\ l.year = p.year
                                               /\ l.period = p.period}
      sorted == SetToSortSeq(periods, LAMBDA p, q :
                  p.report < q.report \/ (p.report = q.report /\ p.type = "QUARTER"
                                                              /\ q.type = "YEAR"))
  IN [i \in DOMAIN sorted |->
        [type |-> sorted[i].type, year |-> sorted[i].year, period |-> sorted[i].period,
         values |-> [c \in Codes |->
                      IF line(sorted[i], c) = {} THEN Missing
                      ELSE Whole((CHOOSE l \in line(sorted[i], c) : TRUE).value)]]]

BuildSnapshot(rows, industry) ==
  LET periods == Periods(rows.lines)
      values == Column(rows.bars, "value")
  IN [closes |-> Column(rows.bars, "close"), volumes |-> Column(rows.bars, "volume"),
      values |-> values, index_closes |-> Column(rows.index, "close"), financials |-> periods,
      dividend |-> IF rows.events = {} THEN Missing
                   ELSE Whole(MapThenSumSet(LAMBDA e : e.amount, rows.events)),
      industry |-> industry,
      red_flags |-> EvaluateRedflags(
        [avg_value |-> AvgValue(values, Span.avg_value_20d),
         debt_to_equity |-> IF periods = <<>> THEN Missing
                            ELSE RatioOf(FinancialValue(Last(periods), "liabilities"),
                                         FinancialValue(Last(periods), "equity")),
         industry |-> industry, trading_status |-> "NORMAL",
         loss_years |-> Missing, cfo_negative |-> Missing, audit |-> Missing])]

\* Symbols without a bar in reach are left out of the universe that is ranked.
Snapshots(view, who, asOf) ==
  {<<s, BuildSnapshot(AsOf(view, s, asOf), Industry[s])>> :
     s \in {s \in who : Series(view.bars, s, asOf) # {}}}

\* The groups of every symbol that has bars: <<symbol, groups>>.
ComputeGroups(view, who, asOf) ==
  LET snaps == Snapshots(view, who, asOf)
      raw == UNION {{<<sn[1], f[1], f[2]>> : f \in ComputeRawFeatures(sn[2])} : sn \in snaps}
  IN {<<sn[1], GroupScores(raw, sn[1])>> : sn \in snaps}

-----------------------------------------------------------------------------

Idle == [step |-> "idle", asOf |-> 0, who |-> {}, view |-> Market0, latest |-> 0, before |-> 0,
         now |-> {}]

StrategyInit ==
  /\ market = Market0 /\ today = 1
  /\ features = [k \in Symbols \X Days |-> {}]
  /\ scores = [k \in {} |-> Missing]
  /\ basis = [k \in Symbols \X Days |->
               [features |-> Missing, scores |-> [pr \in Profiles |-> Missing]]]
  /\ run = [p \in Procs2 |-> Idle] /\ ran = {} /\ hand = 0
  /\ known = [k \in RowKeys |-> Missing] /\ untold = {}

\* Ingestion commits a bar, or a version of a line that replaces the one before.
Arrive ==
  \E a \in Arrivals :
    /\ a.day <= today
    /\ \/ /\ a.kind = "bar"
          /\ market' = [market EXCEPT !.bars =
               {b \in @ : <<b.symbol, b.day>> # <<a.row.symbol, a.row.day>>} \cup {a.row}]
       \/ /\ a.kind = "line"
          /\ market' = [market EXCEPT !.lines =
               {l \in @ : <<l.symbol, l.type, l.year, l.period, l.code>>
                            # <<a.row.symbol, a.row.type, a.row.year, a.row.period, a.row.code>>}
               \cup {a.row}]
       \/ a.kind = "event" /\ market' = [market EXCEPT !.events = @ \cup {a.row}]
    /\ market' # market
  /\ UNCHANGED <<today, tables, run, ran, hand, mails>>

NextDay ==
  /\ today < LastDay /\ run["job"].step = "idle" /\ today' = today + 1
  /\ UNCHANGED <<market, tables, run, ran, hand, mails>>

Begin(p, step, asOf, who) ==
  run' = [run EXCEPT ![p] = [Idle EXCEPT !.step = step, !.asOf = asOf, !.who = who]]

\* 17:00: the day is fixed first; catch-up ingestion commits through Arrive.
StartJob ==
  /\ run["job"].step = "idle" /\ today \notin ran
  /\ Begin("job", "features", today, Symbols) /\ ran' = ran \cup {today}
  /\ UNCHANGED <<market, today, tables, hand, mails>>

StartHand ==
  /\ run["hand"].step = "idle" /\ hand < MaxHand /\ hand' = hand + 1
  /\ \/ \E step \in {"features", "scores"}, asOf \in 1 .. today,
           who \in HandSymbols : Begin("hand", step, asOf, who)
     \/ Begin("hand", "latest", today, {})
  /\ UNCHANGED <<market, today, tables, ran, mails>>

Finish(p) == run' = [run EXCEPT ![p] = Idle]
Read(p, step, view) == run' = [run EXCEPT ![p].step = step, ![p].view = view]

\* compute_snapshots: prices first, then statements and events, each as committed then.
ReadPrices(p) ==
  /\ run[p].step \in {"features", "scores"}
  /\ Read(p, IF run[p].step = "features" THEN "features_lines" ELSE "scores_lines",
          [market EXCEPT !.lines = {}, !.events = {}])
  /\ UNCHANGED <<market, today, tables, ran, hand, mails>>

ReadLines(p) ==
  /\ run[p].step \in {"features_lines", "scores_lines"}
  /\ Read(p, IF run[p].step = "features_lines" THEN "features_store" ELSE "scores_store",
          [market EXCEPT !.bars = run[p].view.bars])
  /\ UNCHANGED <<market, today, tables, ran, hand, mails>>

Basis(p) == [view |-> run[p].view, who |-> run[p].who]

Named(groups) == {gs[1] : gs \in groups}

\* Mutant: a row that is there stays as it is.
KeepOld(old, new) == old \cup {gs \in new : gs[1] \notin Named(old)}

\* Upsert: a group without a score leaves the row of an earlier run as it is.
Merge(old, new) == {gs \in old : gs[1] \notin Named(new)} \cup new

StoreFeatures(p) ==
  LET day == run[p].asOf
  IN /\ run[p].step = "features_store"
     /\ \E written \in {ComputeGroups(run[p].view, run[p].who, day)} :
          /\ features' = [k \in DOMAIN features |->
               Merge(features[k], UNION {w[2] : w \in {w \in written : k = <<w[1], day>>}})]
          /\ basis' = [k \in DOMAIN basis |->
               IF \E w \in written : k = <<w[1], day>>
               THEN [features |-> Basis(p), scores |-> basis[k].scores] ELSE basis[k]]
     /\ IF p = "job" THEN Begin(p, "scores", day, run[p].who) ELSE Finish(p)
     /\ UNCHANGED <<market, today, scores, ran, hand, mails>>

ScoreRows(view, who, day) ==
  LET closes(s) == Column(Series(view.bars, s, day), "close")
      rows == {[key |-> <<w[1], day, p>>, groups |-> w[2], grade |-> Grade(w[2], p, closes(w[1]))] :
                 w \in ComputeGroups(view, who, day), p \in Profiles}
  IN {r \in rows : r.grade # Missing}

ScoredDays == {k[2] : k \in DOMAIN scores}
Grades(d) == [k \in {k \in RowKeys : <<k[1], d, k[2]>> \in DOMAIN scores} |->
                scores[<<k[1], d, k[2]>>].grade]
Newest == Grades(Max(ScoredDays))

\* A profile without an overall score leaves its row of an earlier run as it is.  A day that
\* is scored again, or by hand, is not what the next mail compares with.
StoreScores(p) ==
  /\ run[p].step = "scores_store"
  /\ \E written \in {ScoreRows(run[p].view, run[p].who, run[p].asOf)} :
       LET keys == {r.key : r \in written}
           again == {k \in RowKeys : /\ <<k[1], run[p].asOf, k[2]>> \in keys
                                     /\ p = "hand" \/ k \in DOMAIN Grades(run[p].asOf)}
       IN /\ scores' = [k \in DOMAIN scores \cup keys |->
               IF k \in keys THEN CHOOSE r \in written : r.key = k ELSE scores[k]]
          /\ basis' = [k \in DOMAIN basis |->
               [features |-> basis[k].features,
                scores |-> [pr \in Profiles |-> IF <<k[1], k[2], pr>> \in keys THEN Basis(p)
                                                ELSE basis[k].scores[pr]]]]
          /\ untold' = untold \cup again \cup
               (IF p = "hand" /\ written # {} THEN RowKeys \ DOMAIN Newest' ELSE {})
          /\ IF p = "job" /\ written # {} THEN Begin(p, "latest", run[p].asOf, {}) ELSE Finish(p)
  /\ UNCHANGED <<market, today, features, ran, hand, known>>

-----------------------------------------------------------------------------
(* Alerts *)

IsNewest(k, grade) == k \in DOMAIN Newest /\ Newest[k] = grade

\* The two newest trade dates and the grades of the newest; fewer dates: nothing to compare.
ReadLatest(p) ==
  /\ run[p].step = "latest"
  /\ LET latest == Max(ScoredDays)
         before == ScoredDays \ {latest}
     IN IF ScoredDays = {} \/ before = {} THEN Finish(p)
        ELSE run' = [run EXCEPT ![p].step = "compare", ![p].latest = latest,
                                ![p].before = Max(before), ![p].now = Grades(latest)]
  /\ known' = IF Cardinality(ScoredDays) = 1
              THEN [k \in RowKeys |-> IF k \in DOMAIN Newest THEN Newest[k] ELSE known[k]]
              ELSE known
  /\ UNCHANGED <<market, today, tables, ran, hand, untold>>

Order == [A |-> 4, B |-> 3, C |-> 2, D |-> 1]
Direction(old, new) == IF Order[new] > Order[old] THEN "UP" ELSE "DOWN"

\* Mutant: only a better grade is a change.
ImprovedKeys(now, old) ==
  {k \in DOMAIN now \cap DOMAIN old : Direction(old[k], now[k]) = "UP"}

\* A key that one of the two dates does not have is no change.
ChangedKeys(now, old) == {k \in DOMAIN now \cap DOMAIN old : now[k] # old[k]}

\* One mail tells every change; it goes out, or fails for good: nothing is sent again.  It may
\* be overtaken, and tell of a day that is not the newest any more.
SendAlert(p) ==
  LET now == run[p].now
      old == Grades(run[p].before)
      changed == ChangedKeys(now, old)
      news == {k \in DOMAIN now : known[k] = Missing}
  IN /\ run[p].step = "compare"
     /\ \E told \in {changed, {}} :
          /\ known' = [k \in RowKeys |-> IF k \in told \cup news THEN now[k] ELSE known[k]]
          /\ untold' = (untold \ told) \cup (changed \ told)
                         \cup {k \in told \cup news : ~IsNewest(k, now[k])}
                         \cup (RowKeys \ (DOMAIN now \cap DOMAIN old))
     /\ Finish(p)
     /\ UNCHANGED <<market, today, tables, ran, hand>>

\* An exception ends the run; what it committed stays.
Fail(p) ==
  /\ run[p].step # "idle" /\ Finish(p)
  /\ untold' = untold \cup (IF p = "job" /\ run[p].step \in {"latest", "compare"} THEN RowKeys ELSE {})
  /\ UNCHANGED <<market, today, tables, ran, hand, known>>

StrategyNext ==
  \/ Arrive \/ NextDay \/ StartJob \/ StartHand
  \/ \E p \in Procs2 : \/ ReadPrices(p) \/ ReadLines(p) \/ StoreFeatures(p) \/ StoreScores(p)
                       \/ ReadLatest(p) \/ SendAlert(p) \/ Fail(p)

StrategySpec == StrategyInit /\ [][StrategyNext]_strategyVars

-----------------------------------------------------------------------------
(* Properties *)

\* What was public by the end of a day; a restatement the vendor does not date is excused.
PublicBy(d) ==
  [market EXCEPT !.bars = {b \in @ : b.day <= d}, !.events = {e \in @ : e.day <= d},
                 !.lines = {l \in @ : l.public <= d \/ (l.restated /\ l.published = Missing)}]

\* Whatever has arrived in the market's tables: what they answer as of a day is what was
\* public by that day, when every filing is published by its legal deadline.
NothingTooEarly ==
  \A s \in Symbols, d \in 0 .. LastDay : AsOf(market, s, d) = AsOf(PublicBy(d), s, d)

\* The stored features and scores of a row agree whenever they were computed from the same
\* reads and universe, whatever was stored before and by whom.
FeaturesMatchScores ==
  \A k \in Symbols \X Days, p \in Profiles :
    basis[k].features # Missing /\ basis[k].features = basis[k].scores[p] =>
      scores[<<k[1], k[2], p>>].groups \subseteq features[k]

\* A reader who keeps to the mails knows the newest grade of every key, but while the job has
\* not mailed yet, unless a mail failed or was overtaken, the key was scored twice for a day
\* or by hand, or one of the two dates compared did not have it.
AlertsKeepUp ==
  \A k \in RowKeys :
    run["job"].step \notin {"latest", "compare"} /\ known[k] # Missing /\ k \notin untold =>
      IsNewest(k, known[k])

=============================================================================
