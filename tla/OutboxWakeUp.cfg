CONSTANTS
  Logs = {l1, l2}
  Workers = {w1}
  NoWorker = NoWorker
  BatchSize = 2
  MaxBatches = 2
  MaxAttempts = 2
  MaxFaults = 0
  MaxOverruns = 0
SPECIFICATION Spec
INVARIANTS WakeUpCovers
