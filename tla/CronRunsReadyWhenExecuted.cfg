CONSTANTS
  Pods = {p1, p2}
  Ticks = {k1}
  MaxFires = 1
  MaxAttempts = 2
  NoTick = NoTick
  MaxFaults = 0
  MaxLapses = 0
  Mortal = {}
SPECIFICATION Spec
PROPERTY ReadyWhenExecuted
CHECK_DEADLOCK FALSE
