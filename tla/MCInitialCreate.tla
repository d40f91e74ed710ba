--------------------------- MODULE MCInitialCreate ---------------------------
(* Instances of InitialCreate for TLC. *)
EXTENDS InitialCreate, TLC

\* Names, processes and the generations of one kind are interchangeable, and
\* the run checks no liveness property.
Symmetry == Permutations(Inst) \cup Permutations(Proc)
                \cup Permutations(Gen \ Flat)
=============================================================================
