---------------------------- MODULE MCRemediation ----------------------------
(* Model checking instances of RemediationExecution: worker processes are  *)
(* interchangeable, every other constant is given in the .cfg files.       *)
EXTENDS RemediationExecution, TLC

Symmetry == Permutations(Workers)

=============================================================================
