SPECIFICATION Spec
CONSTANTS
  l1 = l1
  l2 = l2
  s1 = s1
  v = v
  None = None
  LoopTasks <- MCLoopTasks
  VolumeTask = v
  ScanTasks <- MCScanTasks
  NumPartitions = 3
  MaxBatches = 2
INVARIANTS TypeOK IngestExclusive FlagHasOwner OneLiveLoop EngineHasLoop StandbyMirrorsEngine
           CycleMutex CycleOnCurrentPartition FlagIsExact
PROPERTIES ImplementsSequentialCycles
CHECK_DEADLOCK FALSE
