--------------------------- MODULE MCResumeStore ---------------------------
(* ResumeStore for TLC: one more item than the shelf holds, a position before *)
(* the end and one past it.                                                  *)
EXTENDS ResumeStore, TLC

Symmetry == Permutations(Items)
=============================================================================
