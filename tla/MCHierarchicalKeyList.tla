------------------------ MODULE MCHierarchicalKeyList ------------------------
(* Four certificates: chains of up to four, and every forest of fewer.  They *)
(* differ in nothing but their names.                                        *)
EXTENDS HierarchicalKeyList, TLC

CONSTANTS f1, f2, f3, f4

MCFour == {f1, f2, f3, f4}
Symmetry == Permutations(MCFour)
=============================================================================
