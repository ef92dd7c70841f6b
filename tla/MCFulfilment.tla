---------------------------- MODULE MCFulfilment ----------------------------
(* Instance of Fulfilment for TLC.                                         *)
EXTENDS Fulfilment, TLC

CONSTANTS l1, l2

LineSymmetry == Permutations(Lines)
=============================================================================
