SPECIFICATION Spec
CONSTANTS
  Symbols = {a, b}
  Prices = {1, 4, 16}
  Weights <- MCWeights
  Parts = 2
  Hold = Hold
  Capital = 64
  CostShare = 8
  BandShare = 8
  Bars = 4
INVARIANTS LegsMatchHoldings MoneyAddsUp
PROPERTIES BorrowsCostsAndDriftOnly
SYMMETRY SymbolSymmetry
\* A backtest ends.
CHECK_DEADLOCK FALSE
