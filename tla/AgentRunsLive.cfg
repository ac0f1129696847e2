SPECIFICATION SpecHandlersReturn
CONSTANTS
  Runs = {r1, r2}
  NoRun = NoRun
  Symbols = {a}
  NoSymbol = NoSymbol
  Cap = 1
  Writers = 2
  MaxAttempts = 2
  MaxCalls = 0
  Overlap = TRUE
INVARIANTS TrailIsSound
PROPERTIES RunsTerminate
\* Once every run of the bound is done nothing is left to do.
CHECK_DEADLOCK FALSE
