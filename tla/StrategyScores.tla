----------------------------- MODULE StrategyScores -----------------------------
(***************************************************************************)
(* From raw features to advice: every feature is ranked in the universe of *)
(* the run, features are averaged per group, groups are weighted per       *)
(* strategy profile, and the overall score becomes a grade.  Scores are    *)
(* fractions of 100; weights are in percent.                               *)
(***************************************************************************)
EXTENDS StrategyFeatures

CONSTANT ProfileWeights   \* profile -> group -> weight, as configured

Profiles == DOMAIN ProfileWeights

\* configs/strategy_weights.yaml is rejected unless this holds.
ValidConfig ==
  \A p \in Profiles :
    /\ DOMAIN ProfileWeights[p] = Groups
    /\ \A g \in Groups : ProfileWeights[p][g] \in 0 .. 100
    /\ MapThenSumSet(LAMBDA g : ProfileWeights[p][g], Groups) = 100

ASSUME Loaded == ValidConfig

Threshold == [A |-> Whole(80), B |-> Whole(65), C |-> Whole(50)]
RequireTrend == {"short"}

-----------------------------------------------------------------------------
(* Ranks: raw is a set of <<symbol, feature, value>> *)

\* Mutant: equal values share the rank of the least of them.
RankBelow(x, others) ==
  Frac(100 * Cardinality({r \in others : Less(r[3], x)}), Cardinality(others))

\* Mid-rank: equal values share the average of their ranks.
RankPercentile(x, others) ==
  LET less == Cardinality({r \in others : Less(r[3], x)})
      equal == Cardinality({r \in others : r[3] = x})
  IN Frac(100 * less + 50 * equal, Cardinality(others))

\* The rank of a row among the rows of its feature.
Ranked(raw, row) ==
  LET pct == RankPercentile(row[3], {r \in raw : r[2] = row[2]})
  IN IF row[2] \in Inverse24 THEN Minus(Whole(100), pct) ELSE pct

\* The groups that have a feature, each with the average of their ranks.
GroupScores(raw, s) ==
  LET rows(g) == {r \in raw : r[1] = s /\ r[2] \in Features[g]}
      score(g) == Over2(TotalOf([r \in rows(g) |-> Ranked(raw, r)]), Whole(Cardinality(rows(g))))
  IN {<<g, score(g)>> : g \in {g \in Groups : rows(g) # {}}}

-----------------------------------------------------------------------------
(* Profiles: groups without a score or a weight are left out, the rest renormalised *)

Weight(p, gs) == ProfileWeights[p][gs[1]]
Contributing(groups, p) == {gs \in groups : Weight(p, gs) > 0}

Overall(groups, p) ==
  LET in == Contributing(groups, p)
      total == MapThenSumSet(LAMBDA gs : Weight(p, gs), in)
  IN IF in = {} THEN Missing
     ELSE Over2(TotalOf([gs \in in |-> Times(Whole(Weight(p, gs)), gs[2])]), Whole(total))

\* The part of the weights that data backs, more so the further the score is from 55.
Confidence(groups, p) ==
  LET coverage == Frac(MapThenSumSet(LAMBDA gs : Weight(p, gs), Contributing(groups, p)), 100)
      extremity == Over2(Distance(Overall(groups, p), Whole(55)), Whole(45))
      c == Times(Frac(1, 2), Plus(coverage, Times(coverage, extremity)))
  IN IF Contributing(groups, p) = {} THEN Zero
     ELSE IF Less(Whole(1), c) THEN Whole(1) ELSE c

-----------------------------------------------------------------------------
(* Recommendations *)

AssignGrade(overall, capped) ==
  CASE ~Less(overall, Threshold.A) /\ ~capped -> "A"
    [] Less(overall, Threshold.A) /\ ~Less(overall, Threshold.B) /\ ~capped -> "B"
    [] ~Less(overall, Threshold.C) /\ (capped \/ Less(overall, Threshold.B)) -> "C"
    [] OTHER -> "D"

TrendConfirmed(closes) ==
  /\ Len(closes) >= Span.trend_slow
  /\ LET fast == Mean(LastN(closes, Span.trend_fast))
         slow == Mean(LastN(closes, Span.trend_slow))
     IN Less(fast, Last(closes)) /\ Less(slow, fast)

Grade(groups, p, closes) ==
  IF Overall(groups, p) = Missing THEN Missing
  ELSE AssignGrade(Overall(groups, p), p \in RequireTrend /\ ~TrendConfirmed(closes))

\* Buy zone, stop and target, as multiples of the average range around the last close.
PriceLevels(closes) ==
  LET band == Atr(closes, Span.levels)
      at(k) == Plus(Last(closes), Times(k, band))
  IN IF closes = <<>> \/ band = Missing \/ band = Zero THEN Missing
     ELSE [stop |-> at(Whole(-2)), low |-> at(Whole(-1)), high |-> at(Frac(1, 4)),
           target |-> at(Whole(3))]

-----------------------------------------------------------------------------
(* Red flags.  Loss years, operating cash flow and the audit opinion are not fed yet. *)

DebtLimit(industry) ==
  CASE industry \in {"banking", "securities"} -> Missing
    [] industry = "realestate" -> Whole(3)
    [] OTHER -> Whole(2)

EvaluateRedflags(in) ==
  LET Unknown(f) == IF in[f] = Missing THEN {f} ELSE {}
      Flag(f, bad(_)) == IF in[f] # Missing /\ bad(in[f]) THEN {f} ELSE {}
      limit == DebtLimit(in.industry)
  IN [unchecked |-> Unknown("avg_value") \cup Unknown("loss_years") \cup Unknown("cfo_negative")
                    \cup Unknown("trading_status") \cup Unknown("audit")
                    \cup (IF limit = Missing THEN {} ELSE Unknown("debt_to_equity")),
      flags |-> Flag("avg_value", LAMBDA x : Less(x, Span.min_avg_value))
                \cup Flag("loss_years", LAMBDA x : x >= 2 /\ in.cfo_negative = TRUE)
                \cup (IF limit = Missing THEN {}
                      ELSE Flag("debt_to_equity", LAMBDA x : Less(limit, x)))
                \cup Flag("trading_status", LAMBDA x : x # "NORMAL")
                \cup Flag("audit", LAMBDA x : x # "UNQUALIFIED")]

=============================================================================
