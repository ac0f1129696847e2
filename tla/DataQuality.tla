------------------------------ MODULE DataQuality ------------------------------
(***************************************************************************)
(* The quality framework: how a batch is validated and scored.  A score is *)
(* a number of hundredths of a percent, the precision the code rounds to   *)
(* (quantize "0.01"); ratios are kept as fractions until then.  A          *)
(* dimension that has no denominator is left out of the weighted mean.     *)
(***************************************************************************)
EXTENDS Integers, Sequences, FiniteSets, FiniteSetsExt

CONSTANT None   \* an unknown value

Weights == [completeness |-> 25, validity |-> 20, consistency |-> 15,
            uniqueness |-> 15, freshness |-> 15, accuracy |-> 10]

DecayDays == 5
DefaultThreshold == 8000

\* An issue names the row of the batch it was found in, the field and the rule.
Issue(i, key, field, rule) == [row |-> i, key |-> key, field |-> field, rule |-> rule]

CoherenceRules == {"high < low", "close > high", "close < low"}

ClassifyIssue(issue) ==
  CASE issue.rule = "duplicate" -> "uniqueness"
    [] issue.rule \in CoherenceRules -> "consistency"
    [] OTHER -> "validity"

PriceFields == {"open", "high", "low", "close"}
OhlcInvariantFields == PriceFields \cup {"volume", "trading_value"}

\* What is wrong with one bar.  Nothing compares the open with the range.
CheckOhlcRow(i, bar) ==
  LET Wrong(cond, field, rule) == IF cond THEN {Issue(i, bar.key, field, rule)} ELSE {}
  IN (UNION {Wrong(bar[f] <= 0, f, "must be > 0") : f \in PriceFields})
     \cup Wrong(bar.high < bar.low, "high", "high < low")
     \cup Wrong(bar.close > bar.high, "close", "close > high")
     \cup Wrong(bar.close < bar.low, "close", "close < low")
     \cup Wrong(bar.volume < 0, "volume", "must be >= 0")

CorruptKeys(issues) == {is.key : is \in {x \in issues : x.field \in OhlcInvariantFields}}

\* A key that an earlier row of the batch has.
Duplicates(rows, field) ==
  {Issue(i, rows[i].key, field, "duplicate") :
     i \in {i \in DOMAIN rows : \E j \in 1 .. i - 1 : rows[j].key = rows[i].key}}

\* A fraction, or None.
Ratio(num, den) == IF den <= 0 THEN None ELSE [num |-> num, den |-> den]

FreshnessScore(latest, asOf) ==
  IF latest = None THEN None
  ELSE IF asOf <= latest THEN Ratio(1, 1)
  ELSE Ratio(Max({0, DecayDays - (asOf - latest)}), DecayDays)

Computable(dims) == {d \in DOMAIN dims : dims[d] # None}

RoundHalfUp(num, den) == (2 * num + den) \div (2 * den)

\* Weighted mean over the dimensions that could be computed.
OverallFrom(dims) ==
  LET common == ProductSet({dims[d].den : d \in Computable(dims)})
      weighted == MapThenSumSet(
        LAMBDA d : Weights[d] * dims[d].num * (common \div dims[d].den), Computable(dims))
      weight == MapThenSumSet(LAMBDA d : Weights[d], Computable(dims))
  IN RoundHalfUp(10000 * weighted, weight * common)

ComputeQuality(asOf, rowsTotal, issues, expectedKeys, presentKeys, latest) ==
  LET Count(dim) == Cardinality({is \in issues : ClassifyIssue(is) = dim})
      dims == [completeness |-> IF expectedKeys \in {None, 0} THEN None
                                ELSE Ratio(presentKeys, expectedKeys),
               accuracy |-> None,
               consistency |-> Ratio(rowsTotal - Count("consistency"), rowsTotal),
               freshness |-> FreshnessScore(latest, asOf),
               uniqueness |-> Ratio(rowsTotal - Count("uniqueness"), rowsTotal),
               validity |-> Ratio(rowsTotal - Count("validity"), rowsTotal)]
      overall == OverallFrom(dims)
  IN [dims |-> dims, overall |-> overall, flagged |-> overall < DefaultThreshold]

=============================================================================
