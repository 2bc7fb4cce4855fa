-------------------------- MODULE MCYieldRegistry --------------------------
(* Instances of YieldRegistry for TLC.                                     *)
EXTENDS YieldRegistry, TLC

ResumerSymmetry == Permutations(Resumers)
=============================================================================
