------------------------- MODULE MCSettlementOutbox -------------------------
(* Instances of SettlementOutbox for TLC.                                  *)
EXTENDS SettlementOutbox, TLC

\* Notifiers and keys are interchangeable; no property names one of them.
OutboxSymmetry == Permutations(Notifiers) \cup Permutations(Keys)
=============================================================================
