--------------------------- MODULE MCMediaLibrary ---------------------------
(* Instances of MediaLibrary for TLC.                                      *)
EXTENDS MediaLibrary, TLC

CONSTANTS m1, m2, s1, s2

Symmetry == Permutations(Media) \cup Permutations(Sessions)

=============================================================================
