---------------------- MODULE MCWorkstationPreparation ----------------------
(* Instances of WorkstationPreparation for TLC. *)
EXTENDS WorkstationPreparation, TLC

\* Preparations, processes and addresses are interchangeable, and the runs
\* check no liveness property.
Symmetry == Permutations(Prep) \cup Permutations(Proc) \cup Permutations(Mac)
=============================================================================
