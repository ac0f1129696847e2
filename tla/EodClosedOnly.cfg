SPECIFICATION Spec
CONSTANTS
  Symbols = {s1}
  Chain <- MCChain
  IndexSources <- MCIndexSources
  Jobs = {"eod", "strategy"}
  FirstDay = 3
  LastDay = 7
  LookbackDays = 3
  IncludeIntraday = FALSE
  LateRuns = TRUE
INVARIANTS OnlyClosedSessions ExpectedIsNewestClosed
PROPERTIES RunsEnd
\* The week ends: nothing is modelled after the last day.
CHECK_DEADLOCK FALSE
