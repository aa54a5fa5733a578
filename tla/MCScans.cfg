SPECIFICATION MCSpec
CONSTANTS
  Workers = {w1, w2}
  NoWorker = NoWorker
  Phases = {"collecting_evidence", "multi_agent_analysis"}
  MaxAttempts = 2
  LeaseTicks = 1
  Hosts = {h1}
  MaxTime = 1
  Budgets <- MCBudgets
  Policies <- MCPolicies
  Snapshots <- MCSnapshots
  ReviewAnswers <- MCReviewAnswers
  PlanAnswers <- MCPlanAnswers
INVARIANTS
  TypeOK
  ScheduledScansDoNotOverlap
  OneProposalPerScan
  ScanRecordAgrees
  QueuedScanIsExpected
  NoPlanOverConflict
  RiskHasAFloor
  RebootIsAnnounced
PROPERTIES
  KeepsPromise
SYMMETRY Symmetry
\* A finished scan with no delivery left is a legitimate end.
CHECK_DEADLOCK FALSE
