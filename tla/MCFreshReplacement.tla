------------------------- MODULE MCFreshReplacement -------------------------
(* Instances of FreshReplacement for TLC. *)
EXTENDS FreshReplacement
=============================================================================
