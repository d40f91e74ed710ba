------------------------- MODULE MCImageAcquisition -------------------------
(* Small instances of ImageAcquisition for TLC. *)
EXTENDS ImageAcquisition, TLC

Symmetry == Permutations(Proc) \cup Permutations(Root)
=============================================================================
