SPECIFICATION Spec
CONSTANTS
  Hosts = {h1, h2}
  Risky = {h2}
  Windowed = {h1}
  Again = {h1}
  MaxScans = 1
  MaxBatch = 2
  Canary = 1
  MaxTries = 2
  Procs = {p1}
  NoHost = NoHost
INVARIANTS
  TypeOK
  HaltHolds
  BatchesDoNotOverlap
  NoProposalIsLost
PROPERTIES
  StartIsConfirmed
\* A campaign may end, with every window closed.
CHECK_DEADLOCK FALSE
