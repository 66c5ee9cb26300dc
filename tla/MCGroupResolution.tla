------------------------- MODULE MCGroupResolution -------------------------
(* GroupResolution for TLC: two members, listed in either order or by the    *)
(* first alone, and a request in a hurry among others.                       *)
EXTENDS GroupResolution, TLC

CONSTANTS m1, m2

MCMaps == {<<m1, m2>>, <<m2, m1>>, <<m1>>}

Symmetry == Permutations(Requests \ Hurried)
=============================================================================
