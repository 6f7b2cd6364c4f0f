CONSTANTS
  Nodes = {n1, n2}
  Locks = {a, b}
  Flights = 2
  NoLock = NoLock
  Duration = 3
  Drift = 1
  Threshold = 1
  MaxTries = 1
  AcquireTries = 2
  MaxFaults = 2
SPECIFICATION Spec
SYMMETRY Symmetry
INVARIANTS TypeOK QuorumBacked MutualExclusion
