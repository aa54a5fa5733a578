------------------------------ MODULE MCCampaign ------------------------------
(* Model checking instance of Campaign.  Where the symmetry is used,       *)
(* processes are interchangeable, and hosts too, which have the same       *)
(* properties.                                                             *)
EXTENDS Campaign, TLC

HostSymmetry == Permutations(Hosts) \cup Permutations(Procs)

===============================================================================
