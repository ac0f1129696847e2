SPECIFICATION MCSpec
CONSTANTS
  a = a
  b = b
  x = x
  p1 = p1
  p2 = p2
  None = None
  Procs = {p1, p2}
  Feed <- MCFeed
  Universe = {a}
  Symbols = {a}
  Days = {1, 2, 3}
  Window = {1, 2}
  MaxRows = 2
  MaxRuns = 3
  NewsRows = {1}
  FixtureRows = {1}
  Modes = {"auto"}
  MaxChanges = 1
  MaxAgentRuns = 1
  MaxModels = 1
  Watched = {"a", "b"}
  Boards <- MCBoards
  Watchlists <- MCWatchlists
  Baselines <- MCBaselines
  MaxAttempts = 2
  MaxFaults = 1
  MaxMoves = 1
  MaxReports = 2
INVARIANTS IngestedIsKept FullMarksAreEarned ServicesAreKept MirrorHoldsIndex SignalChangesAreTold
SYMMETRY Sym
\* The bounded runs are over.
CHECK_DEADLOCK FALSE
