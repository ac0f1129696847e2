SPECIFICATION Spec
CONSTANTS
  Keys = {k1, k2}
  Values = {v1, v2}
  Fine = {}
  Dates = {d1}
  Null = Null
  MaxRows = 2
  MaxRuns = 3
  Repeats = FALSE
INVARIANTS OneOpenVersion LatestIsOpen AsOfAlwaysFinds
PROPERTIES HistoryIsFrozen RepeatsAreNoOps
SYMMETRY KeySymmetry
\* The bounded runs are over.
CHECK_DEADLOCK FALSE
