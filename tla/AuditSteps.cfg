SPECIFICATION StepsSpec
CONSTANTS
  Runs = {r1, r2, r3}
  NoRun = NoRun
  Symbols = {a}
  NoSymbol = NoSymbol
  Cap = 2
  Writers = 2
  Times = 2
PROPERTIES ImplementsTrail
SYMMETRY Sym
\* Every run has been recorded as often as the bound allows.
CHECK_DEADLOCK FALSE
