SPECIFICATION Spec
CONSTANTS
  Runs = {r1, r2}
  NoRun = NoRun
  Symbols = {a}
  NoSymbol = NoSymbol
  Cap = 1
  Writers = 1
  MaxAttempts = 2
  MaxCalls = 2
  Overlap = FALSE
INVARIANTS AnsweredCallsMirrored
PROPERTIES FinishedRunsAreFrozen
SYMMETRY RunSymmetry
\* Once every run of the bound is done nothing is left to do.
CHECK_DEADLOCK FALSE
