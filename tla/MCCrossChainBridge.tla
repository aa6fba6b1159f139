------------------------ MODULE MCCrossChainBridge ------------------------
(* Small instances of CrossChainBridge for TLC.                            *)
EXTENDS CrossChainBridge, TLC

Symmetry == Permutations(Calls) \cup Permutations(Signers)
=============================================================================
