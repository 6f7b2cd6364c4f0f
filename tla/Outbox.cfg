CONSTANTS
  Logs = {l1}
  Workers = {w1, w2}
  NoWorker = NoWorker
  BatchSize = 1
  MaxBatches = 2
  MaxAttempts = 3
  MaxFaults = 2
  MaxOverruns = 1
SPECIFICATION FairSpec
INVARIANTS TypeOK SoleClaim SendsCapped NotDroppedEarly
PROPERTIES DeliveredIsFinal DeliverySpec EveryLogSettles
