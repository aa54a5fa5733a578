SPECIFICATION FairSpec
CONSTANTS
  Workers = {w1, w2}
  NoWorker = NoWorker
  Phases = {"state_drift_check", "snapshot_create", "ansible_execution",
            "post_reboot_health_check"}
  MaxAttempts = 2
  LeaseTicks = 2
  Immediate = TRUE
  InCampaign = FALSE
  Protected = FALSE
  CanRaise = TRUE
  CrashPoints = {"read", "canceled_row", "claimed", "rejecting", "settling",
    "starting", "started", "collecting", "collected", "snapshotting",
    "snap_requested", "snap_created", "ready", "executing", "mutating",
    "finished", "health", "rolling_back", "watched", "recording", "completing",
    "raising"}
  MaxLosses = 1
  MaxCopies = 0
  MaxMsgs = 2
PROPERTIES
  JobSettles
\* A finished job with no delivery left is a legitimate end.
CHECK_DEADLOCK FALSE
