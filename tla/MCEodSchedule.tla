---------------------------- MODULE MCEodSchedule ----------------------------
(* Thursday's close is stored; Friday and the following Monday are played.    *)
EXTENDS EodSchedule, TLC

MCChain == <<"ssi", "yahoo">>
MCIndexSources == {"ssi"}
SymbolSymmetry == Permutations(Symbols)

=============================================================================
