SPECIFICATION FairSpec
CONSTANTS
  Workers = {w1}
  NoWorker = NoWorker
  Phases = {"state_drift_check", "snapshot_create", "ansible_execution",
            "post_reboot_health_check"}
  MaxAttempts = 2
  LeaseTicks = 2
  Immediate = FALSE
  InCampaign = TRUE
  Protected = FALSE
  CanRaise = FALSE
  CrashPoints = {}
  MaxLosses = 0
  MaxCopies = 0
  MaxMsgs = 1
PROPERTIES
  CanceledWorkDoesNotRun
\* A finished job with no delivery left is a legitimate end.
CHECK_DEADLOCK FALSE
