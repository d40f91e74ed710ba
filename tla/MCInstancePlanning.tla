-------------------------- MODULE MCInstancePlanning --------------------------
(* Small instances of InstancePlanning for TLC. *)
EXTENDS InstancePlanning

\* Just enough for the small profiles and too small for a Fedora Workstation;
\* and one on which ratios, limits and rounding decide.
Hosts == {[cores |-> 2,  memory |-> 4096], [cores |-> 17, memory |-> 11111]}

Sizes == [gateway |-> 100, workstation |-> 100, kali |-> 86, fedora |-> 80]
=============================================================================
