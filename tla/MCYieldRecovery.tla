-------------------------- MODULE MCYieldRecovery --------------------------
(* Instances of YieldRecovery for TLC.                                     *)
EXTENDS YieldRecovery, TLC

RunSymmetry == Permutations(Runs)
=============================================================================
