--------------------------- MODULE MCHomeSnapshot ---------------------------
(* HomeSnapshot for TLC: interchangeable tasks and groups.                   *)
EXTENDS HomeSnapshot, TLC

Symmetry == Permutations(Builds) \cup Permutations(Warms) \cup Permutations(Groups)
=============================================================================
