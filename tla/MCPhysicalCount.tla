-------------------------- MODULE MCPhysicalCount --------------------------
(* Instance of PhysicalCount for TLC.                                      *)
EXTENDS PhysicalCount, TLC

CONSTANTS s1, s2

ScanSymmetry == Permutations(Scans)
=============================================================================
