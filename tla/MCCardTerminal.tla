--------------------------- MODULE MCCardTerminal ---------------------------
(* Instances of CardTerminal for TLC. *)
EXTENDS CardTerminal, TLC

CONSTANTS c1, c2, t1, t2, p1

CheckoutSymmetry == Permutations(Checkouts)
=============================================================================
