--------------------------- MODULE MCTrustedChange ---------------------------
(* Model checking instances of TrustedChange: the processes are            *)
(* interchangeable, every other constant is given in the .cfg files.       *)
EXTENDS TrustedChange, TLC

Symmetry == Permutations(Procs)

=============================================================================
