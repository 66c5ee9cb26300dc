--------------------------- MODULE MCCatalogState ---------------------------
(* CatalogState for TLC: two group keys and two providers, which are         *)
(* interchangeable, and lives of a few ticks with the search life shorter    *)
(* than the home life, as the defaults have it (5 against 30 minutes).       *)
EXTENDS CatalogState, TLC

Symmetry == Permutations(Keys) \cup Permutations(Providers)
=============================================================================
