SPECIFICATION Spec
CONSTANTS
  Hosts = {h1, h2}
  Risky = {}
  Windowed = {}
  Again = {}
  MaxScans = 1
  MaxBatch = 2
  Canary = 1
  MaxTries = 1
  Procs = {p1, p2}
  NoHost = NoHost
SYMMETRY HostSymmetry
INVARIANT NoProposalIsLost
CHECK_DEADLOCK FALSE
