CONSTANTS
  Nodes = {n1}
  Locks = {a, b}
  Flights = 2
  NoLock = NoLock
  Duration = 3
  Drift = 1
  Threshold = 1
  MaxTries = 1
  AcquireTries = 1
  MaxFaults = 1
SPECIFICATION HSpec
PROPERTIES LeaseSpec OperationsEnd RoutineTold KeysReturn
