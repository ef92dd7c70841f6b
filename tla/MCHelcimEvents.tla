--------------------------- MODULE MCHelcimEvents ---------------------------
(* Instances of HelcimEvents for TLC. *)
EXTENDS HelcimEvents

CONSTANTS e1, e2, h1, h2, h3
=============================================================================
