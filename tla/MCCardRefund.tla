---------------------------- MODULE MCCardRefund ----------------------------
(* Instance of CardRefund for TLC.                                         *)
EXTENDS CardRefund, TLC

CONSTANTS t1, t2, h1, h2

RefundSymmetry == Permutations(Tenders) \cup Permutations(Handlers)
=============================================================================
