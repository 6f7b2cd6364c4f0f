CONSTANTS
  Pods = {p1, p2}
  Ops = {o1, o2}
  NSlots = 2
  NoPod = NoPod
  NoSlot = NoSlot
  MaxStalls = 1
  MaxFaults = 1
SPECIFICATION FairSpec
INVARIANTS TypeOK OwnsOnlyCurrent CleanStop DeceivedByStalls
PROPERTIES NoEviction IdlePodClaims SlotsReturn StopTerminates
CHECK_DEADLOCK FALSE
