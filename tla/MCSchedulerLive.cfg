SPECIFICATION FairSpec
CONSTANTS
  l1 = l1
  l2 = l2
  s1 = s1
  v = v
  None = None
  LoopTasks = {l1}
  VolumeTask = v
  ScanTasks <- MCScanTasks
  NumPartitions = 2
  MaxBatches = 2
PROPERTIES LockIsGranted RotationProgresses
CHECK_DEADLOCK FALSE
