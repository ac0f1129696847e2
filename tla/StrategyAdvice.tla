----------------------------- MODULE StrategyAdvice -----------------------------
(***************************************************************************)
(* What the pure calculations of the strategy module promise, over bounded *)
(* inputs: a behaviour is one input of one of them.                        *)
(***************************************************************************)
EXTENDS StrategyScores, Questions

CONSTANTS
  Universes,    \* sets of <<symbol, feature, value>>
  GroupSets,    \* sets of <<group, score>>
  AdviceSnaps   \* snapshots of one symbol

\* What is known of one symbol as of a day, as the snapshot loader hands it over.
SnapshotRecords ==
  [closes : Seq(Fractions), volumes : Seq(Fractions), values : Seq(Fractions),
   index_closes : Seq(Fractions), dividend : Fractions \cup {Missing}, industry : STRING,
   red_flags : [unchecked : SUBSET STRING, flags : SUBSET STRING], financials : Seq(PeriodRecords)]

ASSUME AdviceAssumption ==
  /\ Missing \notin PeriodRecords /\ Span.quarters \in Nat
  /\ \A raw \in Universes : IsFiniteSet(raw) /\ \A r \in raw : r[3] \in Fractions
  /\ \A groups \in GroupSets :
       IsFiniteSet(groups) /\ \A gs \in groups : gs[1] \in Groups /\ gs[2] \in Fractions
  /\ AdviceSnaps \subseteq SnapshotRecords

AdviceInit ==
  question \in [kind : {"universe"}, of : Universes] \cup [kind : {"groups"}, of : GroupSets]
              \cup [kind : {"snapshot"}, of : AdviceSnaps]

AdviceSpec == AdviceInit /\ Stays

-----------------------------------------------------------------------------
(* Properties *)

\* What becomes of a snapshot when one line of one period was not reported.
Without(snap, i, code) == [snap EXCEPT !.financials[i].values[code] = Missing]

\* A line that is absent makes features absent and changes no other: nothing is filled in.
NothingFilledIn(snap) ==
  \A i \in DOMAIN snap.financials, code \in Codes :
    ComputeRawFeatures(Without(snap, i, code)) \subseteq ComputeRawFeatures(snap)

\* The order of the ranks is the order of the values, whatever ties there are, and the
\* ranks of a feature average to 50: no universe is graded up or down as a whole.
RanksAreFair(raw) ==
  \A name \in {r[2] : r \in raw} :
    LET rows == {r \in raw : r[2] = name}
        Worse(r, t) == IF name \in Inverse24 THEN Less(t[3], r[3]) ELSE Less(r[3], t[3])
    IN /\ \A r, t \in rows : Worse(r, t) <=> Less(Ranked(raw, r), Ranked(raw, t))
       /\ TotalOf([r \in rows |-> Ranked(raw, r)]) = Whole(50 * Cardinality(rows))

\* An overall score lies between the least and the best of the groups it weighs, whatever
\* is missing: what is not known is neither a zero nor a bonus.
ScoresAreBacked(groups, p) ==
  LET ov == Overall(groups, p)
  IN ov # Missing => /\ \E gs \in Contributing(groups, p) : ~Less(ov, gs[2])
                     /\ \E gs \in Contributing(groups, p) : ~Less(gs[2], ov)

\* The calculations keep what the strategy module says of them.
AdviceIsSound ==
  CASE question.kind = "universe" -> RanksAreFair(question.of)
    [] question.kind = "groups" -> \A p \in Profiles : ScoresAreBacked(question.of, p)
    [] question.kind = "snapshot" -> NothingFilledIn(question.of)

\* Ranks are fair, overall scores are backed by their groups, nothing is filled in.
ScoringIsSound == question.kind \in {"universe", "groups", "snapshot"} => AdviceIsSound

=============================================================================
