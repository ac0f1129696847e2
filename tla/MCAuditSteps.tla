----------------------------- MODULE MCAuditSteps -----------------------------
EXTENDS AuditSteps, TLC

Sym == Permutations(Runs)

=============================================================================
