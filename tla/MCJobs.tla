-------------------------------- MODULE MCJobs --------------------------------
(* Model checking instance of JobLease: workers and jobs are               *)
(* interchangeable.                                                        *)
EXTENDS JobLease, TLC

Symmetry == Permutations(Workers) \cup Permutations(Jobs)

===============================================================================
