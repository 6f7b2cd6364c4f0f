CONSTANTS
  Pods = {p1, p2}
  Ticks = {k1}
  MaxFires = 1
  MaxAttempts = 2
  NoTick = NoTick
  MaxFaults = 1
  MaxLapses = 0
  Mortal = {}
SPECIFICATION FairSpec
PROPERTIES JobSpec EveryRunSettles
CHECK_DEADLOCK FALSE
