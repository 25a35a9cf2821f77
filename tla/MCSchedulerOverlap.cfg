SPECIFICATION Spec
CONSTANTS
  l1 = l1
  l2 = l2
  s1 = s1
  v = v
  None = None
  LoopTasks <- MCLoopTasks
  VolumeTask = v
  ScanTasks <- MCScanTasks
  NumPartitions = 2
  MaxBatches = 2
INVARIANT NoOverlappingRuns
CHECK_DEADLOCK FALSE
