------------------------------- MODULE MCUpkeep -------------------------------
(* Model checking instance of SnapshotRetention, Inventory and             *)
(* LoginSession.  They share no state, so each is explored with the others *)
(* at rest: subject says which of the three moves.  One snapshot, because  *)
(* snapshots share nothing but the workers.                                *)
EXTENDS SnapshotRetention, Inventory, LoginSession

VARIABLE subject

MCInit ==
  /\ Init /\ InventoryInit /\ LoginInit
  /\ subject \in {"retention", "inventory", "login"}

MCNext ==
  \/ subject = "retention" /\ Next /\ UNCHANGED <<inventoryVars, loginVars, subject>>
  \/ subject = "inventory" /\ InventoryNext /\ UNCHANGED <<vars, loginVars, subject>>
  \/ subject = "login" /\ LoginNext /\ UNCHANGED <<vars, inventoryVars, subject>>

MCSpec ==
  /\ MCInit /\ [][MCNext]_<<vars, inventoryVars, loginVars, subject>>
  /\ subject = "retention" => Fairness
  /\ subject = "login" => LoginFairness

=============================================================================
