SPECIFICATION Spec
CONSTANTS
  Runs = {r1, r2}
  NoRun = NoRun
  Symbols = {a}
  NoSymbol = NoSymbol
  Cap = 2
  Writers = 1
  MaxAttempts = 1
  MaxCalls = 1
  Overlap = TRUE
INVARIANTS AnsweredCallsMirrored
\* Once every run of the bound is done nothing is left to do.
CHECK_DEADLOCK FALSE
