--------------------------- MODULE MCEffectQueue ---------------------------
(* Instances of EffectQueue for TLC.                                       *)
EXTENDS EffectQueue, TLC

DispatcherSymmetry == Permutations(Dispatchers)
=============================================================================
