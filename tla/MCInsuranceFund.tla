-------------------------- MODULE MCInsuranceFund --------------------------
(* Small instances of InsuranceFund for TLC.                               *)
EXTENDS InsuranceFund, TLC

MCTarget == [t \in Tiers |-> 4]
MCFeePct == [t \in Tiers |-> 50]
Symmetry == Permutations(Reqs)
=============================================================================
