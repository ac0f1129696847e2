--------------------------- MODULE MCFinancialFacts ---------------------------
EXTENDS FinancialFacts, TLC

KeySymmetry == Permutations(Keys)

=============================================================================
