SPECIFICATION JobSpec
CONSTANTS
  Workers = {w1, w2, w3}
  NoWorker = NoWorker
  Jobs = {j1}
  NoTask = NoTask
  Phases = {"collecting_evidence"}
  MaxAttempts = 3
  LeaseTicks = 2
  MaxTime = 5
SYMMETRY Symmetry
INVARIANTS
  JobTypeOK
  EntitledWorkerOwnsRow
  OwnersCopyIsCurrent
  QueuedJobHasAttemptLeft
PROPERTIES
  OutcomeIsFinal
  KeepsPromise
\* Every job may be finished and the clock at its bound.
CHECK_DEADLOCK FALSE
