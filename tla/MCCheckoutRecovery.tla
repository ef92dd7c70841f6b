------------------------- MODULE MCCheckoutRecovery -------------------------
(* Instance of CheckoutRecovery for TLC.                                   *)
EXTENDS CheckoutRecovery

CONSTANTS c1, m1
=============================================================================
