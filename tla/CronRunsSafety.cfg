CONSTANTS
  Pods = {p1, p2}
  Ticks = {k1}
  MaxFires = 1
  MaxAttempts = 1
  NoTick = NoTick
  MaxFaults = 1
  MaxLapses = 1
  Mortal = {1}
SPECIFICATION Spec
SYMMETRY Symmetry
INVARIANTS TypeOK LeaseCoversRun NoDroppedRun
PROPERTY OneRunPerFire
CHECK_DEADLOCK FALSE
