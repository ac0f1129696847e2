SPECIFICATION Spec
CONSTANTS
  Symbols = {s1, s2}
  Chain <- MCChain
  IndexSources <- MCIndexSources
  Jobs = {"eod", "catchup"}
  FirstDay = 3
  LastDay = 4
  LookbackDays = 7
  IncludeIntraday = TRUE
  LateRuns = FALSE
INVARIANTS StampNeverUnderstates SilentScoresHaveAPostCloseBar
PROPERTIES CloseIsFinal
SYMMETRY SymbolSymmetry
\* The week ends: nothing is modelled after the last day.
CHECK_DEADLOCK FALSE
