----------------------------- MODULE MCAgentRuns -----------------------------
EXTENDS AgentRuns, TLC

RunSymmetry == Permutations(Runs)

=============================================================================
