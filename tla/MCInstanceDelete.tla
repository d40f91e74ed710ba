-------------------------- MODULE MCInstanceDelete --------------------------
(* Instances of InstanceDelete for TLC. *)
EXTENDS InstanceDelete
=============================================================================
