--------------------------- MODULE MCInstallation ---------------------------
(* Installation for TLC: two pages that look alike, one or two ports. *)
EXTENDS Installation, TLC

OnePort == {1}
TwoPorts == {1, 2}
SomeIntervals == {-1, 0}

PageSymmetry == Permutations(Pages)
=============================================================================
