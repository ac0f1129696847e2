------------------------------ MODULE FactorScores ------------------------------
(***************************************************************************)
(* The factor ranking: raw factor values become percentiles of the         *)
(* universe, percentiles a weighted score, and the ranking says why each   *)
(* stock stands where it does.  A factor without a value is left out and   *)
(* the weights of the others are renormalised.                             *)
(*                                                                         *)
(* Scores are fractions of 100.  A universe maps a stock to its factors.   *)
(***************************************************************************)
EXTENDS StrategyFeatures

CONSTANT Unit   \* a published share is a multiple of 1/Unit (10000 in the code)

WEIGHTS == [technical |-> 20, fundamental |-> 30, valuation |-> 15, momentum |-> 15,
            quality |-> 10, risk |-> 10]
FACTOR_COLUMNS == <<"technical", "fundamental", "valuation", "momentum", "quality", "risk">>
Factors == Range(FACTOR_COLUMNS)

-----------------------------------------------------------------------------
(* From raw values to scores *)

Distribution(raws, f) ==
  {<<s, raws[s][f]>> : s \in {s \in DOMAIN raws : raws[s][f] # Missing}}

\* The part of the distribution that is strictly less: the best stock never has 100.
percentile_rank(value, distribution) ==
  Frac(100 * Cardinality({x \in distribution : Less(x[2], value)}), Cardinality(distribution))

compute_factor_scores(raw, raws) ==
  [f \in Factors |-> IF raw[f] = Missing THEN Missing
                     ELSE percentile_rank(raw[f], Distribution(raws, f))]

\* A score is missing or not negative.
ScoreShape(scores) ==
  /\ scores \in [Factors -> Fractions \cup {Missing}]
  /\ \A f \in Factors : scores[f] # Missing => ~Less(scores[f], Zero)

Available(scores) == {f \in Factors : scores[f] # Missing}
WeightSum(scores) == SumFunction([f \in Available(scores) |-> WEIGHTS[f]])

\* Mutant: weights are not renormalised over the factors that have a score.
FullWeight(scores, f) == Frac(WEIGHTS[f], 100)

NormalWeight(scores, f) == Frac(WEIGHTS[f], WeightSum(scores))

compute_overall_score(scores) ==
  IF Available(scores) = {} THEN Missing
  ELSE Over2(TotalOf([f \in Available(scores) |-> Times(Whole(WEIGHTS[f]), scores[f])]),
             Whole(WeightSum(scores)))

-----------------------------------------------------------------------------
(* Why a stock has its score *)

Position(f) == CHOOSE i \in DOMAIN FACTOR_COLUMNS : FACTOR_COLUMNS[i] = f
ShareOrZero(c) == IF c.contribution_pct = Missing THEN Zero ELSE c.contribution_pct

\* By share, the greatest first; factors of one share keep the order of the columns.
LargerShare(c, d) ==
  \/ Less(ShareOrZero(d), ShareOrZero(c))
  \/ ShareOrZero(d) = ShareOrZero(c) /\ Position(c.factor) < Position(d.factor)

\* A share of an overall score of zero has no value.
Contribution(f, score, weight, overall) ==
  [factor |-> f, score |-> score, weight |-> weight, weighted_score |-> Times(score, weight),
   contribution_pct |-> RatioOf(Times(score, weight), overall)]

ByShare(cs) == Sorted(cs, {p \in cs \X cs : LargerShare(p[1], p[2])})

decompose_score(scores) ==
  LET overall == compute_overall_score(scores)
  IN [overall_score |-> overall,
      contributions |-> ByShare({Contribution(f, scores[f], NormalWeight(scores, f), overall) :
                                   f \in Available(scores)})]

build_signal_label(overall) ==
  CASE overall = Missing -> "NEUTRAL"
    [] overall # Missing /\ ~Less(overall, Whole(70)) -> "POSITIVE"
    [] overall # Missing /\ Less(overall, Whole(40)) -> "NEGATIVE"
    [] OTHER -> "NEUTRAL"

build_confidence(overall, factors) ==
  LET extremity == Over2(Distance(overall, Whole(55)), Whole(45))
      c == Times(Frac(1, 2), Plus(extremity, Frac(factors, Cardinality(Factors))))
  IN IF overall = Missing THEN Zero ELSE IF Less(Whole(1), c) THEN Whole(1) ELSE c

-----------------------------------------------------------------------------
(* The ranking of a universe, whose rows come in the order of the sequence "rows" *)

RankedBefore(a, b) ==
  \/ a.overall_score # Missing /\ b.overall_score = Missing
  \/ Missing \notin {a.overall_score, b.overall_score} /\ Less(b.overall_score, a.overall_score)

RankingOf(stock, row, d) ==
  [stock |-> stock, row |-> row, overall_score |-> d.overall_score,
   contributions |-> d.contributions, signal |-> build_signal_label(d.overall_score),
   confidence |-> build_confidence(d.overall_score, Len(d.contributions))]

\* Stocks of one score keep the order of the rows.
ByScore(rankings) ==
  Sorted(rankings, {p \in rankings \X rankings :
                      \/ RankedBefore(p[1], p[2])
                      \/ ~RankedBefore(p[2], p[1]) /\ p[1].row < p[2].row})

score_universe(universe, rows) ==
  ByScore({RankingOf(rows[i], i, decompose_score(universe[rows[i]])) : i \in DOMAIN rows})

\* To the nearest multiple of 1/unit, the even one when two are as near.
RoundTo(x, unit) ==
  LET low == (x.num * unit) \div x.den
      left == 2 * ((x.num * unit) % x.den)
  IN Frac(IF left > x.den \/ (left = x.den /\ low % 2 = 1) THEN low + 1 ELSE low, unit)
Rounded(x) == RoundTo(x, Unit)

\* Mutant: each share is rounded on its own.
RoundedApart(shares) == [i \in DOMAIN shares |-> Rounded(shares[i])]

\* What rounding takes from the whole is given to the first of the largest shares.
Completed(each) ==
  LET largest == Min({i \in DOMAIN each : \A j \in DOMAIN each : ~Less(each[i], each[j])})
  IN [each EXCEPT ![largest] = Plus(@, Minus(Whole(1), Sum(each)))]
RoundedShares(shares) ==
  IF shares # <<>> /\ Sum(shares) = Whole(1)
  THEN Completed([i \in DOMAIN shares |-> Rounded(shares[i])])
  ELSE [i \in DOMAIN shares |-> Rounded(shares[i])]

\* Shares are rounded together only when every contribution has one.
to_ranking_payload(r, rank, total) ==
  LET shares == [i \in DOMAIN r.contributions |-> r.contributions[i].contribution_pct]
  IN [symbol |-> r.stock, overall_score |-> r.overall_score, signal |-> r.signal,
      confidence |-> r.confidence, rank |-> rank, total |-> total,
      contributions |-> r.contributions,
      shares |-> IF \E i \in DOMAIN shares : shares[i] = Missing THEN <<>>
                 ELSE RoundedShares(shares)]

Payloads(universe, rows) ==
  LET rankings == score_universe(universe, rows)
  IN [i \in DOMAIN rows |-> to_ranking_payload(rankings[i], i, Len(rows))]

-----------------------------------------------------------------------------
(* Properties *)

\* Everything that explains a rank adds up to it, whichever factors are missing: weighted
\* scores to the overall score and, unless that is zero, published shares to one whole.
Explained(p) ==
  /\ p.overall_score # Missing =>
       Sum([i \in DOMAIN p.contributions |-> p.contributions[i].weighted_score])
         = p.overall_score
  /\ p.overall_score \notin {Missing, Zero} => Sum(p.shares) = Whole(1)

\* A stock at least as good on the same factors never ranks below one it is better than.
Dominates(a, b) ==
  /\ Available(a) = Available(b) /\ Available(a) # {}
  /\ \A f \in Available(a) : ~Less(a[f], b[f])
  /\ \E f \in Available(a) : Less(b[f], a[f])

\* Every stock is ranked once, its rank is explained, and no better stock ranks below it:
\* scoring, renormalising, decomposing, sorting and rounding agree with each other.
RankingIsExplained(universe, rows) ==
  \E ps \in {Payloads(universe, rows)} :
    /\ {ps[i].symbol : i \in DOMAIN ps} = DOMAIN universe /\ Len(ps) = Len(rows)
    /\ \A i \in DOMAIN ps : Explained(ps[i])
    /\ \A i, j \in DOMAIN ps :
         Dominates(universe[ps[i].symbol], universe[ps[j].symbol]) => i < j

\* What a comment of the code says of every decomposition: the shares sum to one.  A stock
\* that is the worst on every factor has an overall score of zero, and no shares.
SharesAlwaysSumToOne(universe, rows) ==
  \A i \in DOMAIN rows :
    LET d == decompose_score(universe[rows[i]])
    IN d.contributions # <<>> =>
         Sum([j \in DOMAIN d.contributions |-> ShareOrZero(d.contributions[j])]) = Whole(1)

=============================================================================
