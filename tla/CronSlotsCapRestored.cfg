CONSTANTS
  Pods = {p1, p2}
  Ops = {o1}
  NSlots = 1
  NoPod = NoPod
  NoSlot = NoSlot
  MaxStalls = 1
  MaxFaults = 0
SPECIFICATION FairSpec
PROPERTY CapRestored
CHECK_DEADLOCK FALSE
