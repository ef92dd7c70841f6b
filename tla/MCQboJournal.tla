---------------------------- MODULE MCQboJournal ----------------------------
(* Instance of QboJournal for TLC.                                         *)
EXTENDS QboJournal, TLC

CONSTANTS p1, p2, v1

PosterSymmetry == Permutations(Posters)
=============================================================================
