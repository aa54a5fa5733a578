SPECIFICATION Spec
CONSTANTS
  Workers = {w1, w2, w3}
  NoWorker = NoWorker
  Phases = {"state_drift_check", "snapshot_create", "ansible_execution",
            "post_reboot_health_check"}
  MaxAttempts = 3
  LeaseTicks = 2
  Immediate = TRUE
  InCampaign = TRUE
  Protected = TRUE
  CanRaise = TRUE
  CrashPoints = {}
  MaxLosses = 0
  MaxCopies = 1
  MaxMsgs = 2
SYMMETRY Symmetry
INVARIANTS
  RunningIsTruthful
PROPERTIES
  ChangedHostIsNotRepeated
  ClaimIsRespected
\* A finished job with no delivery left is a legitimate end.
CHECK_DEADLOCK FALSE
