----------------------------- MODULE MCBacktest -----------------------------
EXTENDS Backtest, TLC

MCWeights == {-1, 0, 1, 2}

SymbolSymmetry == Permutations(Symbols)

=============================================================================
