SPECIFICATION Spec
CONSTANTS
  Procs = {p1, p2}
  Contents = {patch, patchAndReboot}
  Risky = {patchAndReboot}
  Unready = {}
  NoHash = NoHash
  MaxVersion = 2
SYMMETRY Symmetry
INVARIANTS
  TypeOK
  ExecutedPlanWasConfirmed
  JobWasConfirmed
CHECK_DEADLOCK FALSE
