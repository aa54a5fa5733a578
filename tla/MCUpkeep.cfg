SPECIFICATION MCSpec
CONSTANTS
  Workers = {w1, w2}
  NoWorker = NoWorker
  Phases = {"waiting_for_retention", "snapshot_delete"}
  MaxAttempts = 2
  LeaseTicks = 1
  Snapshots = {s1}
  Retention = 1
  MaxTime = 2
  MaxLosses = 2
  Never = Never
  Hosts = {h1}
  Credentials = {k1, k2}
  NoCredential = NoCredential
  Platforms = {"proxmox"}
  MaxTests = 1
  MaxDeaths = 1
  Clients = {c1}
  Tokens = {t1, t2}
  MaximumAttempts = 2
  Window = 2
  SessionTtl = 2
  MaxFaults = 3
INVARIANTS
  TypeOK
  RecordAgrees
  HostsAreWhole
  GuessesAreBounded
PROPERTIES
  RetentionIsKept
  KeepsPromise
  DeletionSettles
  LockoutEnds
\* A snapshot that is deleted, or kept for good, is a legitimate end, and the
\* bounds on ids and tokens end the behaviours of the other two.
CHECK_DEADLOCK FALSE
