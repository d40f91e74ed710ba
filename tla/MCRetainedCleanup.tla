-------------------------- MODULE MCRetainedCleanup --------------------------
(* Instances of RetainedCleanup for TLC. *)
EXTENDS RetainedCleanup
=============================================================================
