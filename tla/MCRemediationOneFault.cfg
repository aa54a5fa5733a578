SPECIFICATION Spec
CONSTANTS
  Workers = {w1, w2, w3}
  NoWorker = NoWorker
  Phases = {"state_drift_check", "snapshot_create", "ansible_execution",
            "post_reboot_health_check"}
  MaxAttempts = 3
  LeaseTicks = 2
  Immediate = TRUE
  InCampaign = TRUE
  Protected = TRUE
  CanRaise = FALSE
  CrashPoints = {"read", "canceled_row", "claimed", "rejecting", "settling",
    "starting", "started", "collecting", "collected", "snapshotting",
    "snap_requested", "snap_created", "ready", "executing", "mutating",
    "finished", "health", "rolling_back", "watched", "recording", "completing",
    "raising", "recovered", "exhausted", "failing_stale", "release",
    "failing_release", "dispatch", "api"}
  MaxLosses = 1
  MaxCopies = 1
  MaxMsgs = 2
SYMMETRY Symmetry
INVARIANTS
  TypeOK
PROPERTIES
  NeverMutatesTwice
  TerminalNeverReopens
\* A finished job with no delivery left is a legitimate end.
CHECK_DEADLOCK FALSE
