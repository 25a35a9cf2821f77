--------------------------- MODULE SchedulerProofs ---------------------------
(***************************************************************************)
(* Theorems about Scheduler, for any number of tasks, partitions and        *)
(* batches.  The actions are grouped by what they have in common: a cycle   *)
(* step of one task, a step of the volume job, an operator's step.          *)
(***************************************************************************)
EXTENDS Scheduler, TLAPS

USE PartitionAssumption, BatchAssumption, TaskAssumption

(* The arithmetic of the rotation stays within the partitions. *)
LEMMA NextPartitionType ==
    ASSUME current_partition \in 0..NumPartitions - 1
    PROVE  NextPartition \in 0..NumPartitions - 1
BY DEF NextPartition

(* The task sets, as the provers need them. *)
LEMMA TaskSets ==
    /\ LoopTasks \subseteq CycleTasks /\ ScanTasks \subseteq CycleTasks
    /\ CycleTasks \subseteq Tasks /\ VolumeTask \in Tasks
    /\ VolumeTask \notin CycleTasks /\ None \notin Tasks
    /\ \A t \in CycleTasks : t \in LoopTasks \/ t \in ScanTasks
    /\ \A t \in Tasks : t \in CycleTasks \/ t = VolumeTask
BY DEF Tasks, CycleTasks

(* Every task that a step of the cycle leaves behind is where it may be. *)
LEMMA AfterCycleType ==
    ASSUME NEW t \in CycleTasks
    PROVE  /\ AfterCycle(t) \in Suspended(t)
           /\ AfterCycle(t) \in {"sleep", "free"}
BY TaskSets DEF AfterCycle, Suspended

----------------------------------------------------------------------------
(* A step keeps the engine's and the collector's flags Boolean. *)
LEMMA FlagsStep == FlagsOK /\ [Next]_vars => FlagsOK'
<1> SUFFICES ASSUME FlagsOK, [Next]_vars PROVE FlagsOK'
  OBVIOUS
<1> USE DEF FlagsOK, engine
<1>1. ASSUME NEW t \in CycleTasks, Cycle(t) PROVE FlagsOK'
  BY <1>1 DEF Cycle, SkipCycle, QueueForLock, EnterIngest, EnterEmpty, AcquireLock,
      AcquireStopped, ScanAndAlert, AbortCycle, CompleteCycle, FailCycle, EndCycle, ClearFlag, Settle
<1>2. ASSUME NEW t \in Tasks, Awaited(t) PROVE FlagsOK'
  BY <1>2 DEF Awaited, StoreBatch, NextBatch, DeliverCancel, FinishLateWrite, ClearFlag, Settle
<1>3. ASSUME NEW t \in ScanTasks, DispatchScan(t) PROVE FlagsOK'
  BY <1>3 DEF DispatchScan
<1>4. CASE Volumes
  BY <1>4 DEF Volumes, FireVolumes, AcquireVolumes, EndVolumes, FailVolumes, VolumesOver
<1>5. CASE Operator
  BY <1>5 DEF Operator, StartEngine, BotStart, BotLaunch, StopEngine, Shutdown,
      Start, Stop
<1>6. CASE UNCHANGED vars
  BY <1>6 DEF vars
<1> QED
  BY <1>1, <1>2, <1>3, <1>4, <1>5, <1>6 DEF Next

(* A step keeps every task and counter in its range. *)
LEMMA TasksStep == TasksOK /\ [Next]_vars => TasksOK'
<1> SUFFICES ASSUME TasksOK, [Next]_vars PROVE TasksOK'
  OBVIOUS
<1> USE DEF TasksOK, engine
<1>1. ASSUME NEW t \in CycleTasks, Cycle(t) PROVE TasksOK'
  <2> t \in Tasks
    BY TaskSets
  <2> USE <1>1, TaskSets, NextPartitionType, AfterCycleType
        DEF EndCycle, Due, Entering, Granted, LastBatch, BeginBatches, Release,
            Suspended, Locations, Ingesting
  <2>1. CASE SkipCycle(t)
    BY <2>1 DEF SkipCycle
  <2>2. CASE QueueForLock(t)
    BY <2>2 DEF QueueForLock
  <2>3. CASE EnterIngest(t)
    BY <2>3 DEF EnterIngest
  <2>4. CASE EnterEmpty(t)
    BY <2>4 DEF EnterEmpty
  <2>5. CASE AcquireLock(t)
    BY <2>5 DEF AcquireLock
  <2>6. CASE AcquireStopped(t)
    BY <2>6 DEF AcquireStopped
  <2>7. CASE ScanAndAlert(t)
    BY <2>7 DEF ScanAndAlert
  <2>8. CASE AbortCycle(t)
    BY <2>8 DEF AbortCycle
  <2>9. CASE CompleteCycle(t)
    BY <2>9 DEF CompleteCycle
  <2>10. CASE FailCycle(t)
    BY <2>10 DEF FailCycle
  <2> QED
    BY <2>1, <2>2, <2>3, <2>4, <2>5, <2>6, <2>7, <2>8, <2>9, <2>10 DEF Cycle
<1>2. ASSUME NEW t \in Tasks, StoreBatch(t) \/ NextBatch(t) \/ FinishLateWrite(t)
      PROVE  TasksOK'
  BY <1>2, TaskSets DEF StoreBatch, NextBatch, FinishLateWrite, Suspended, Locations, Ingesting
<1>3. ASSUME NEW t \in Tasks, DeliverCancel(t) PROVE TasksOK'
  <2>1. t \notin ScanTasks
    BY <1>3 DEF DeliverCancel
  <2> QED
    BY <1>3, <2>1, TaskSets DEF DeliverCancel, Abandon, Release, Suspended, Locations, Ingesting
<1>4. ASSUME NEW t \in ScanTasks, DispatchScan(t) PROVE TasksOK'
  BY <1>4, TaskSets DEF DispatchScan, Suspended, Locations, Ingesting
<1>5. CASE Volumes
  <2> USE TaskSets DEF BeginBatches, Granted, LastBatch, Suspended, Locations, Ingesting
  <2>1. CASE FireVolumes
    BY <2>1 DEF FireVolumes
  <2>2. CASE AcquireVolumes
    BY <2>2 DEF AcquireVolumes
  <2>3. CASE EndVolumes \/ FailVolumes
    BY <2>3 DEF EndVolumes, FailVolumes, VolumesOver, Abandon
  <2> QED
    BY <1>5, <2>1, <2>2, <2>3 DEF Volumes
<1>6. CASE Operator
  <2> USE TaskSets DEF Start, Suspended, Locations, Ingesting
  <2>1. CASE StartEngine
    BY <2>1 DEF StartEngine
  <2>2. CASE BotStart
    BY <2>2 DEF BotStart
  <2>3. CASE BotLaunch
    BY <2>3 DEF BotLaunch
  <2>4. CASE StopEngine
    BY <2>4 DEF StopEngine, Stop, CancelLoop
  <2>5. CASE Shutdown
    BY <2>5 DEF Shutdown, CancelLoop
  <2> QED
    BY <1>6, <2>1, <2>2, <2>3, <2>4, <2>5 DEF Operator
<1>7. CASE UNCHANGED vars
  BY <1>7 DEF vars
<1> QED
  BY <1>1, <1>2, <1>3, <1>4, <1>5, <1>6, <1>7 DEF Next, Awaited

(* Type correctness: no interleaving of cycles, jobs and operators takes a   *)
(* task to a place its coroutine does not have, or a counter out of range.   *)
THEOREM TypeCorrect == Spec => []TypeOK
<1>1. Init => FlagsOK
  BY DEF Init, FlagsOK
<1>2. Init => TasksOK
  BY TaskSets DEF Init, TasksOK, Locations, Suspended, Ingesting
<1> QED
  BY <1>1, <1>2, FlagsStep, TasksStep, PTL DEF Spec, TypeOK

----------------------------------------------------------------------------
(* The lock of the collector: whatever a task does, an owner that stops      *)
(* fetching has released it and nobody else fetches.                         *)
LEMMA ExclusiveStep == TasksOK /\ IngestExclusive /\ [Next]_vars => IngestExclusive'
<1> SUFFICES ASSUME TasksOK, IngestExclusive, [Next]_vars PROVE IngestExclusive'
  OBVIOUS
<1> USE TaskSets DEF IngestExclusive, TasksOK, engine, Locations, Ingesting
<1>1. ASSUME NEW t \in CycleTasks, Cycle(t) PROVE IngestExclusive'
  <2> USE <1>1 DEF EndCycle, Due, Entering, Granted, LastBatch, BeginBatches, Release,
                   AfterCycle, InCycle
  <2>1. CASE SkipCycle(t) \/ QueueForLock(t)
    BY <2>1 DEF SkipCycle, QueueForLock
  <2>2. CASE EnterIngest(t) \/ AcquireLock(t)
    BY <2>2 DEF EnterIngest, AcquireLock
  <2>3. CASE EnterEmpty(t) \/ AcquireStopped(t) \/ CompleteCycle(t)
    BY <2>3 DEF EnterEmpty, AcquireStopped, CompleteCycle
  <2>4. CASE ScanAndAlert(t) \/ AbortCycle(t)
    BY <2>4 DEF ScanAndAlert, AbortCycle
  <2>5. CASE FailCycle(t)
    BY <2>5 DEF FailCycle
  <2> QED
    BY <2>1, <2>2, <2>3, <2>4, <2>5 DEF Cycle
<1>2. ASSUME NEW t \in Tasks, StoreBatch(t) \/ NextBatch(t) \/ FinishLateWrite(t)
      PROVE  IngestExclusive'
  BY <1>2 DEF StoreBatch, NextBatch, FinishLateWrite
<1>3. ASSUME NEW t \in Tasks, DeliverCancel(t) PROVE IngestExclusive'
  BY <1>3 DEF DeliverCancel, ClearFlag, Release, Abandon
<1>4. ASSUME NEW t \in ScanTasks, DispatchScan(t) PROVE IngestExclusive'
  BY <1>4 DEF DispatchScan
<1>5. CASE Volumes
  <2>1. CASE FireVolumes \/ AcquireVolumes
    BY <2>1 DEF FireVolumes, AcquireVolumes, BeginBatches, Granted
  <2>2. CASE EndVolumes \/ FailVolumes
    BY <2>2 DEF EndVolumes, FailVolumes, VolumesOver, LastBatch, Abandon
  <2> QED
    BY <1>5, <2>1, <2>2 DEF Volumes
<1>6. CASE Operator
  BY <1>6 DEF Operator, StartEngine, BotStart, BotLaunch, StopEngine, Shutdown,
      Start, Stop
<1>7. CASE UNCHANGED vars
  BY <1>7 DEF vars
<1> QED
  BY <1>1, <1>2, <1>3, <1>4, <1>5, <1>6, <1>7 DEF Next, Awaited

(* At no time do two tasks request and store batches, and the lock is never  *)
(* left behind by a task that failed, was stopped or was cancelled.          *)
THEOREM IngestionIsExclusive == Spec => []IngestExclusive
<1>1. Init => IngestExclusive
  BY TaskSets DEF Init, IngestExclusive, Ingesting
<1> QED
  BY <1>1, TypeCorrect, ExclusiveStep, PTL DEF Spec, TypeOK

----------------------------------------------------------------------------
(* The cycle flag: the task that set it last is inside its cycle until       *)
(* somebody, possibly a cycle it overlaps with, clears the flag.             *)
LEMMA OwnerStep == TasksOK /\ FlagHasOwner /\ [Next]_vars => FlagHasOwner'
<1> SUFFICES ASSUME TasksOK, FlagHasOwner, [Next]_vars PROVE FlagHasOwner'
  OBVIOUS
<1> USE TaskSets DEF FlagHasOwner, TasksOK, engine, InCycle, Locations, Ingesting
<1>1. ASSUME NEW t \in CycleTasks, Cycle(t) PROVE FlagHasOwner'
  <2> USE <1>1 DEF Due, Entering, Granted, LastBatch, BeginBatches
  <2>1. CASE SkipCycle(t)
    BY <2>1 DEF SkipCycle
  <2>2. CASE QueueForLock(t)
    BY <2>2 DEF QueueForLock
  <2>3. CASE EnterIngest(t) \/ AcquireLock(t)
    BY <2>3 DEF EnterIngest, AcquireLock
  <2>4. CASE ScanAndAlert(t)
    BY <2>4 DEF ScanAndAlert
  <2>5. CASE EnterEmpty(t) \/ AcquireStopped(t) \/ AbortCycle(t) \/ CompleteCycle(t)
             \/ FailCycle(t)
    BY <2>5 DEF EnterEmpty, AcquireStopped, AbortCycle, CompleteCycle, FailCycle, EndCycle, ClearFlag, Settle
  <2> QED
    BY <2>1, <2>2, <2>3, <2>4, <2>5 DEF Cycle
<1>2. ASSUME NEW t \in Tasks, StoreBatch(t) \/ NextBatch(t) \/ FinishLateWrite(t)
      PROVE  FlagHasOwner'
  BY <1>2 DEF StoreBatch, NextBatch, FinishLateWrite
<1>3. ASSUME NEW t \in Tasks, DeliverCancel(t) PROVE FlagHasOwner'
  BY <1>3 DEF DeliverCancel, ClearFlag, Abandon
<1>4. ASSUME NEW t \in ScanTasks, DispatchScan(t) PROVE FlagHasOwner'
  BY <1>4 DEF DispatchScan
<1>5. CASE Volumes
  BY <1>5 DEF Volumes, FireVolumes, AcquireVolumes, EndVolumes, FailVolumes, VolumesOver,
      BeginBatches, Granted, Abandon
<1>6. CASE Operator
  <2>1. CASE StopEngine \/ Shutdown
    BY <2>1 DEF StopEngine, Shutdown, Stop
  <2>2. CASE BotStart
    BY <2>2 DEF BotStart
  <2>3. CASE StartEngine \/ BotLaunch
    BY <2>3 DEF StartEngine, BotLaunch, Start
  <2> QED
    BY <1>6, <2>1, <2>2, <2>3 DEF Operator
<1>7. CASE UNCHANGED vars
  BY <1>7 DEF vars
<1> QED
  BY <1>1, <1>2, <1>3, <1>4, <1>5, <1>6, <1>7 DEF Next, Awaited

(* The flag that makes runs skip is never set without a cycle in progress    *)
(* that will clear it: the engine cannot lock itself out.                    *)
THEOREM FlagIsOwned == Spec => []FlagHasOwner
<1>1. Init => FlagHasOwner
  BY DEF Init, FlagHasOwner
<1> QED
  BY <1>1, TypeCorrect, OwnerStep, PTL DEF Spec, TypeOK

----------------------------------------------------------------------------
(* The loop task: start() creates one only when the engine is not running,   *)
(* and stop() has then cancelled the previous one.                           *)
LEMMA LoopStep == TasksOK /\ OneLiveLoop /\ [Next]_vars => OneLiveLoop'
<1> SUFFICES ASSUME TasksOK, OneLiveLoop, [Next]_vars PROVE OneLiveLoop'
  OBVIOUS
<1> USE TaskSets DEF OneLiveLoop, Live, Gone, TasksOK, engine, Locations, Ingesting
<1>1. ASSUME NEW t \in CycleTasks, Cycle(t) PROVE OneLiveLoop'
  <2> USE <1>1 DEF Due, Entering, Granted, LastBatch, BeginBatches, AfterCycle, InCycle
  <2>1. CASE SkipCycle(t) \/ QueueForLock(t) \/ ScanAndAlert(t)
    BY <2>1 DEF SkipCycle, QueueForLock, ScanAndAlert
  <2>2. CASE EnterIngest(t) \/ AcquireLock(t)
    BY <2>2 DEF EnterIngest, AcquireLock
  <2>3. CASE EnterEmpty(t) \/ AcquireStopped(t) \/ AbortCycle(t) \/ CompleteCycle(t)
             \/ FailCycle(t)
    BY <2>3 DEF EnterEmpty, AcquireStopped, AbortCycle, CompleteCycle, FailCycle, EndCycle
  <2> QED
    BY <2>1, <2>2, <2>3 DEF Cycle
<1>2. ASSUME NEW t \in Tasks, Awaited(t) PROVE OneLiveLoop'
  <2>1. CASE StoreBatch(t) \/ NextBatch(t) \/ FinishLateWrite(t)
    BY <2>1 DEF StoreBatch, NextBatch, FinishLateWrite
  <2>2. CASE DeliverCancel(t)
    BY <2>2 DEF DeliverCancel, ClearFlag, Abandon
  <2> QED
    BY <1>2, <2>1, <2>2 DEF Awaited
<1>3. ASSUME NEW t \in ScanTasks, DispatchScan(t) PROVE OneLiveLoop'
  BY <1>3, TaskAssumption DEF DispatchScan
<1>4. CASE Volumes
  BY <1>4 DEF Volumes, FireVolumes, AcquireVolumes, EndVolumes, FailVolumes, VolumesOver,
      BeginBatches, Granted, LastBatch, Abandon
<1>5. CASE Operator
  <2>1. CASE StopEngine \/ Shutdown
    BY <2>1 DEF StopEngine, Shutdown, Stop, CancelLoop
  <2>2. CASE BotStart
    BY <2>2 DEF BotStart
  <2>3. CASE StartEngine \/ BotLaunch
    BY <2>3 DEF StartEngine, BotLaunch, Start
  <2> QED
    BY <1>5, <2>1, <2>2, <2>3 DEF Operator
<1>6. CASE UNCHANGED vars
  BY <1>6 DEF vars
<1> QED
  BY <1>1, <1>2, <1>3, <1>4, <1>5, <1>6 DEF Next

(* However often the engine is stopped and started, at most one loop is      *)
(* alive and uncancelled, and only while the engine runs.                    *)
THEOREM LoopIsUnique == Spec => []OneLiveLoop
<1>1. Init => OneLiveLoop
  BY TaskSets DEF Init, OneLiveLoop, Live, Gone
<1> QED
  BY <1>1, TypeCorrect, LoopStep, PTL DEF Spec, TypeOK

(* A cancellation is pending only for a task that still exists, so the slot  *)
(* that start() takes carries none.                                          *)
CancelledExist == \A t \in Tasks : cancelled[t] => ~Gone(t)

(* Only a task of the running scheduler is cancelled: stop() cancels the     *)
(* tasks it forgets, and no step hands a cancelled slot out again uncleared.  *)
LEMMA CancelledStep == TasksOK /\ CancelledExist /\ [Next]_vars => CancelledExist'
<1> SUFFICES ASSUME TasksOK, CancelledExist, [Next]_vars PROVE CancelledExist'
  OBVIOUS
<1> USE TaskSets DEF CancelledExist, Gone, TasksOK, engine, Locations, Ingesting
<1>1. ASSUME NEW t \in CycleTasks, Cycle(t) PROVE CancelledExist'
  <2>1. ~cancelled[t] /\ cancelled' = cancelled
    BY <1>1 DEF Cycle, SkipCycle, QueueForLock, EnterIngest, EnterEmpty, AcquireLock,
        AcquireStopped, ScanAndAlert, AbortCycle, CompleteCycle, FailCycle, Due, Entering,
        Granted, LastBatch
  <2>2. \E l \in Locations : pc' = [pc EXCEPT ![t] = l]
    BY <1>1, AfterCycleType DEF Cycle, SkipCycle, QueueForLock, EnterIngest, EnterEmpty,
        AcquireLock, AcquireStopped, ScanAndAlert, AbortCycle, CompleteCycle, FailCycle,
        EndCycle, BeginBatches
  <2> QED
    BY <2>1, <2>2
<1>2. ASSUME NEW t \in Tasks, Awaited(t) PROVE CancelledExist'
  <2>1. CASE StoreBatch(t) \/ NextBatch(t) \/ FinishLateWrite(t)
    BY <2>1 DEF StoreBatch, NextBatch, FinishLateWrite
  <2>2. CASE DeliverCancel(t)
    BY <2>2 DEF DeliverCancel, ClearFlag, Abandon
  <2> QED
    BY <1>2, <2>1, <2>2 DEF Awaited
<1>3. ASSUME NEW t \in ScanTasks, DispatchScan(t) PROVE CancelledExist'
  BY <1>3 DEF DispatchScan
<1>4. CASE Volumes
  BY <1>4 DEF Volumes, FireVolumes, AcquireVolumes, EndVolumes, FailVolumes, VolumesOver,
      BeginBatches, Granted, LastBatch, Abandon
<1>5. CASE Operator
  <2>1. CASE StopEngine \/ Shutdown
    BY <2>1 DEF StopEngine, Shutdown, Stop, CancelLoop
  <2>2. CASE BotStart
    BY <2>2 DEF BotStart
  <2>3. CASE StartEngine \/ BotLaunch
    BY <2>3 DEF StartEngine, BotLaunch, Start
  <2> QED
    BY <1>5, <2>1, <2>2, <2>3 DEF Operator
<1>6. CASE UNCHANGED vars
  BY <1>6 DEF vars
<1> QED
  BY <1>1, <1>2, <1>3, <1>4, <1>5, <1>6 DEF Next

(* A running engine keeps its loop.                                          *)
LEMMA EngineStep ==
    TasksOK /\ CancelledExist /\ EngineHasLoop /\ [Next]_vars => EngineHasLoop'
<1> SUFFICES ASSUME TasksOK, CancelledExist, EngineHasLoop, [Next]_vars
             PROVE  EngineHasLoop'
  OBVIOUS
<1> DEFINE Has == loop_task \in LoopTasks /\ ~Gone(loop_task) /\ ~cancelled[loop_task]
<1>0. /\ is_running => Has
      /\ (is_running' => Has') => EngineHasLoop'
  BY TaskSets DEF EngineHasLoop, Live, Gone, TasksOK
<1> USE <1>0, TaskSets DEF Gone, TasksOK, engine, Locations, Ingesting
<1>1. ASSUME NEW t \in CycleTasks, Cycle(t) PROVE is_running' => Has'
  <2> DEFINE Moves(l) == /\ UNCHANGED <<is_running, loop_task, cancelled>>
                         /\ pc' = [pc EXCEPT ![t] = l]
                         /\ is_running /\ t \in LoopTasks => l \notin {"free", "late"}
  <2>1. CASE SkipCycle(t)
    <3>1. Moves(IF t \in LoopTasks /\ ~is_running THEN "free" ELSE AfterCycle(t))
      BY <2>1 DEF SkipCycle, AfterCycle
    <3> QED
      BY <3>1
  <2>2. CASE QueueForLock(t)
    <3>1. Moves("lock")
      BY <2>2 DEF QueueForLock
    <3> QED
      BY <3>1
  <2>3. CASE ScanAndAlert(t)
    <3>1. Moves("alert")
      BY <2>3 DEF ScanAndAlert
    <3> QED
      BY <3>1
  <2>4. CASE EnterIngest(t) \/ AcquireLock(t)
    <3>1. Moves("fetch")
      BY <2>4 DEF EnterIngest, AcquireLock, BeginBatches
    <3> QED
      BY <3>1
  <2>5. CASE EnterEmpty(t) \/ AcquireStopped(t) \/ AbortCycle(t) \/ CompleteCycle(t)
             \/ FailCycle(t)
    <3>1. Moves(AfterCycle(t))
      BY <2>5 DEF EnterEmpty, AcquireStopped, AbortCycle, CompleteCycle, FailCycle, EndCycle,
          AfterCycle
    <3> QED
      BY <3>1
  <2> QED
    BY <1>1, <2>1, <2>2, <2>3, <2>4, <2>5 DEF Cycle
<1>2. ASSUME NEW t \in Tasks, Awaited(t) PROVE is_running' => Has'
  <2>1. CASE StoreBatch(t) \/ NextBatch(t) \/ FinishLateWrite(t)
    BY <2>1 DEF StoreBatch, NextBatch, FinishLateWrite
  <2>2. CASE DeliverCancel(t)
    BY <2>2 DEF DeliverCancel, ClearFlag, Abandon
  <2> QED
    BY <1>2, <2>1, <2>2 DEF Awaited
<1>3. ASSUME NEW t \in ScanTasks, DispatchScan(t) PROVE is_running' => Has'
  BY <1>3 DEF DispatchScan
<1>4. CASE Volumes
  BY <1>4 DEF Volumes, FireVolumes, AcquireVolumes, EndVolumes, FailVolumes, VolumesOver,
      BeginBatches, Granted, LastBatch, Abandon
<1>5. CASE Operator
  <2>1. CASE StopEngine \/ Shutdown
    BY <2>1 DEF StopEngine, Shutdown, Stop
  <2>2. CASE BotStart
    BY <2>2 DEF BotStart
  <2>3. CASE StartEngine \/ BotLaunch
    <3>1. Start /\ cancelled' = cancelled
      BY <2>3 DEF StartEngine, BotLaunch
    <3>2. CASE is_running
      BY <3>1, <3>2 DEF Start
    <3>3. CASE ~is_running
      <4>1. PICK l \in LoopTasks : /\ pc[l] = "free"
                                   /\ loop_task' = l
                                   /\ pc' = [pc EXCEPT ![l] = "created"]
        BY <3>1, <3>3 DEF Start
      <4>2. ~cancelled[l]
        BY <4>1 DEF CancelledExist
      <4> QED
        BY <3>1, <4>1, <4>2
    <3> QED
      BY <3>2, <3>3
  <2> QED
    BY <1>5, <2>1, <2>2, <2>3 DEF Operator
<1>6. CASE UNCHANGED vars
  BY <1>6 DEF vars
<1> QED
  BY <1>1, <1>2, <1>3, <1>4, <1>5, <1>6 DEF Next

(* A running engine always has a live loop that will start the next cycle.   *)
THEOREM EngineKeepsLoop == Spec => []EngineHasLoop
<1>1. Init => EngineHasLoop
  BY DEF Init, EngineHasLoop
<1>2. Init => CancelledExist
  BY DEF Init, CancelledExist
<1> QED
  BY <1>1, <1>2, TypeCorrect, CancelledStep, EngineStep, PTL DEF Spec, TypeOK

----------------------------------------------------------------------------
(* The standby flag is written by the callers of start() and stop(), never    *)
(* by the engine: each of them writes both, whatever happened in between.     *)
LEMMA StandbyStep ==
    FlagsOK /\ StandbyMirrorsEngine /\ [Next]_vars => StandbyMirrorsEngine'
<1> SUFFICES ASSUME FlagsOK, StandbyMirrorsEngine, [Next]_vars PROVE StandbyMirrorsEngine'
  OBVIOUS
<1> USE DEF StandbyMirrorsEngine, engine
<1>1. ASSUME UNCHANGED <<is_running, standby_mode, aps>> PROVE StandbyMirrorsEngine'
  BY <1>1
<1>2. ASSUME NEW t \in CycleTasks, Cycle(t) PROVE UNCHANGED <<is_running, standby_mode, aps>>
  BY <1>2 DEF Cycle, SkipCycle, QueueForLock, EnterIngest, EnterEmpty, AcquireLock,
      AcquireStopped, ScanAndAlert, AbortCycle, CompleteCycle, FailCycle
<1>3. ASSUME NEW t \in Tasks, Awaited(t)
      PROVE  UNCHANGED <<is_running, standby_mode, aps>>
  BY <1>3 DEF Awaited, StoreBatch, NextBatch, DeliverCancel, FinishLateWrite
<1>4. ASSUME NEW t \in ScanTasks, DispatchScan(t) PROVE UNCHANGED <<is_running, standby_mode, aps>>
  BY <1>4 DEF DispatchScan
<1>5. CASE Volumes \/ UNCHANGED vars
  BY <1>1, <1>5 DEF Volumes, FireVolumes, AcquireVolumes, EndVolumes, FailVolumes, VolumesOver, vars
<1>6. CASE Operator
  <2>1. CASE StartEngine \/ BotLaunch
    <3>1. is_running' = TRUE /\ standby_mode' = FALSE
      BY <2>1 DEF StartEngine, BotLaunch, Start, FlagsOK
    <3> QED
      BY <3>1
  <2>2. CASE StopEngine
    <3>1. is_running' = FALSE /\ standby_mode' = TRUE
      BY <2>2 DEF StopEngine, Stop
    <3> QED
      BY <3>1
  <2>3. CASE BotStart
    BY <1>1, <2>3 DEF BotStart
  <2>4. CASE Shutdown
    BY <2>4 DEF Shutdown
  <2> QED
    BY <1>6, <2>1, <2>2, <2>3, <2>4 DEF Operator
<1> QED
  BY <1>1, <1>2, <1>3, <1>4, <1>5, <1>6 DEF Next

(* Until shutdown the standby mode the web UI shows never disagrees with the  *)
(* engine, although two modules write the two flags and !start waits two      *)
(* seconds between its check and its start().                                 *)
THEOREM StandbyIsHonest == Spec => []StandbyMirrorsEngine
<1>1. Init => StandbyMirrorsEngine
  BY DEF Init, StandbyMirrorsEngine
<1> QED
  BY <1>1, TypeCorrect, StandbyStep, PTL DEF Spec, TypeOK

----------------------------------------------------------------------------
(* Sequential cycles.  Without a stop in mid-cycle the flag covers every      *)
(* cycle, and that is inductive together with mutual exclusion and with what  *)
(* tells a stop: a cancelled task or a stop request.                          *)
Orderly ==
    /\ \A t \in CycleTasks : InCycle(t) =>
          cycle_running /\ ~stop_requested /\ ~cancelled[t] /\ partition[t] = current_partition
    /\ \A s, t \in CycleTasks : InCycle(s) /\ InCycle(t) => s = t

SequentialInv == ~interrupted => Orderly

(* With no task in a cycle there is order, whatever came before.             *)
LEMMA RestIsOrderly == (\A t \in CycleTasks : ~InCycle(t)) => Orderly
BY DEF Orderly

(* A task that leaves its cycle, uninterrupted or as the last of those that a *)
(* stop has interrupted, leaves order behind.                                 *)
LEMMA LeavingIsOrderly ==
    ASSUME TasksOK, SequentialInv, NEW t \in Tasks, Settle(t),
           NEW e \in {"free", "late", "sleep"}, pc' = [pc EXCEPT ![t] = e],
           cycle_running' = IF InCycle(t) THEN FALSE ELSE cycle_running,
           stop_requested' = stop_requested \/ ~stop_requested',
           \A s \in CycleTasks \ {t} : cancelled'[s] = cancelled[s] /\ partition'[s] = partition[s],
           ~InCycle(t) => UNCHANGED current_partition \/ ~cycle_running
    PROVE  SequentialInv'
<1> SUFFICES ASSUME ~interrupted' PROVE Orderly'
  BY DEF SequentialInv
<1> USE TaskSets
<1>1. \A s \in CycleTasks : InCycle(s)' => s # t /\ InCycle(s)
  BY DEF InCycle, TasksOK, Ingesting
<1>2. CASE interrupted
  <2>1. \A s \in CycleTasks : ~InCycle(s)'
    BY <1>1, <1>2 DEF Settle
  <2> QED
    BY <2>1 DEF Orderly
<1>3. CASE ~interrupted
  <2>1. Orderly
    BY <1>3 DEF SequentialInv
  <2>2. CASE InCycle(t)
    <3>1. \A s \in CycleTasks : ~InCycle(s)'
      BY <1>1, <2>1, <2>2 DEF Orderly, InCycle
    <3> QED
      BY <3>1 DEF Orderly
  <2>3. CASE ~InCycle(t)
    <3>1. \A s \in CycleTasks : InCycle(s)' =>
            cycle_running' /\ ~stop_requested' /\ ~cancelled'[s]
            /\ partition'[s] = current_partition'
      BY <1>1, <2>1, <2>3 DEF Orderly
    <3>2. \A s, u \in CycleTasks : InCycle(s)' /\ InCycle(u)' => s = u
      BY <1>1, <2>1 DEF Orderly
    <3> QED
      BY <3>1, <3>2 DEF Orderly
  <2> QED
    BY <2>2, <2>3
<1> QED
  BY <1>2, <1>3

(* No step of the program breaks the order but a stop in mid-cycle, and the   *)
(* end of the last interrupted cycle restores it.                             *)
LEMMA SequentialStep == TasksOK /\ SequentialInv /\ [Next]_vars => SequentialInv'
<1> SUFFICES ASSUME TasksOK, SequentialInv, [Next]_vars PROVE SequentialInv'
  OBVIOUS
<1> USE TaskSets DEF engine
<1>1. ASSUME NEW t \in CycleTasks, Cycle(t) PROVE SequentialInv'
  <2>1. CASE SkipCycle(t) \/ AcquireLock(t) \/ ScanAndAlert(t)
    BY <2>1 DEF SkipCycle, AcquireLock, ScanAndAlert, SequentialInv, Orderly, TasksOK, InCycle,
        Locations, Ingesting, Due, Granted, LastBatch, BeginBatches, AfterCycle
  <2>2. CASE QueueForLock(t) \/ EnterIngest(t)
    BY <2>2 DEF QueueForLock, EnterIngest, SequentialInv, Orderly, TasksOK, InCycle,
        Locations, Ingesting, Due, Entering, BeginBatches
  <2>3. CASE EnterEmpty(t) \/ AcquireStopped(t) \/ AbortCycle(t) \/ CompleteCycle(t)
             \/ FailCycle(t)
    <3>1. /\ Settle(t) /\ ClearFlag(t)
          /\ pc' = [pc EXCEPT ![t] = AfterCycle(t)]
          /\ partition' = [partition EXCEPT ![t] = 0]
          /\ cancelled' = cancelled
          /\ stop_requested' = stop_requested \/ ~stop_requested'
          /\ InCycle(t) \/ ~cycle_running
      BY <2>3 DEF EnterEmpty, AcquireStopped, AbortCycle, CompleteCycle, FailCycle, EndCycle,
          Entering, Granted, LastBatch, InCycle, Ingesting
    <3> QED
      BY <3>1, LeavingIsOrderly, AfterCycleType DEF ClearFlag, TasksOK
  <2> QED
    BY <1>1, <2>1, <2>2, <2>3 DEF Cycle
<1>2. ASSUME NEW t \in Tasks, Awaited(t) PROVE SequentialInv'
  <2>1. CASE StoreBatch(t) \/ NextBatch(t) \/ FinishLateWrite(t)
    BY <2>1 DEF StoreBatch, NextBatch, FinishLateWrite, SequentialInv, Orderly, TasksOK, InCycle,
        Locations, Ingesting
  <2>2. CASE DeliverCancel(t)
    <3>1. \E e \in {"free", "late"} : pc' = [pc EXCEPT ![t] = e]
      BY <2>2 DEF DeliverCancel, Abandon
    <3>2. /\ Settle(t) /\ ClearFlag(t)
          /\ cancelled' = [cancelled EXCEPT ![t] = FALSE]
          /\ UNCHANGED <<current_partition, stop_requested>>
          /\ \A s \in CycleTasks \ {t} : partition'[s] = partition[s]
      BY <2>2 DEF DeliverCancel, TasksOK
    <3> QED
      BY <3>1, <3>2, LeavingIsOrderly DEF ClearFlag, TasksOK
  <2> QED
    BY <1>2, <2>1, <2>2 DEF Awaited
<1>3. ASSUME NEW t \in ScanTasks, DispatchScan(t) PROVE SequentialInv'
  BY <1>3 DEF DispatchScan, SequentialInv, Orderly, TasksOK, InCycle, Ingesting
<1>4. CASE Volumes
  <2>1. /\ \A s \in CycleTasks : pc'[s] = pc[s]
        /\ UNCHANGED <<cycle_running, current_partition, stop_requested, cancelled, partition,
                       interrupted>>
    BY <1>4 DEF Volumes, FireVolumes, AcquireVolumes, EndVolumes, FailVolumes, VolumesOver,
        BeginBatches, Abandon, TasksOK
  <2> QED
    BY <2>1 DEF SequentialInv, Orderly, InCycle
<1>5. CASE Operator
  <2>1. CASE StopEngine \/ Shutdown
    <3>1. pc' = pc /\ interrupted' = \E t \in CycleTasks : InCycle(t)
      BY <2>1 DEF StopEngine, Shutdown, Stop
    <3>2. ~interrupted' => \A t \in CycleTasks : ~InCycle(t)'
      BY <3>1 DEF InCycle
    <3> QED
      BY <3>2 DEF SequentialInv, Orderly
  <2>2. CASE StartEngine \/ BotLaunch \/ BotStart
    BY <2>2 DEF StartEngine, BotLaunch, BotStart, Start, SequentialInv, Orderly, TasksOK,
        InCycle, Ingesting, Locations
  <2> QED
    BY <1>5, <2>1, <2>2 DEF Operator
<1>6. CASE UNCHANGED vars
  BY <1>6 DEF vars, SequentialInv, Orderly, InCycle
<1> QED
  BY <1>1, <1>2, <1>3, <1>4, <1>5, <1>6 DEF Next

(* Order holds in every behaviour, wherever no stop disturbs it.             *)
LEMMA SequentialInvariant == Spec => []SequentialInv
<1>1. Init => SequentialInv
  BY TaskSets DEF Init, SequentialInv, Orderly, InCycle, Ingesting
<1> QED
  BY <1>1, TypeCorrect, SequentialStep, PTL DEF Spec, TypeOK

(* Until a stop comes in the middle of a cycle, and again as soon as the      *)
(* cycles it disturbed have ended, the flag is a lock: it is set exactly      *)
(* while a cycle is in progress.                                              *)
THEOREM FlagIsLock == Spec => []FlagIsExact
<1>1. SequentialInv /\ FlagHasOwner => FlagIsExact
  BY DEF SequentialInv, Orderly, FlagHasOwner, FlagIsExact
<1> QED
  BY <1>1, SequentialInvariant, FlagIsOwned, PTL

(* Two cycles overlap only in the wake of a stop in the middle of one.       *)
THEOREM CyclesAreSequential == Spec => []CycleMutex
<1>1. SequentialInv => CycleMutex
  BY DEF SequentialInv, Orderly, CycleMutex
<1> QED
  BY <1>1, SequentialInvariant, PTL

(* A cycle that no stop disturbs works on the partition the rotation stands   *)
(* at from its first step to its last.                                        *)
THEOREM CyclesFollowRotation == Spec => []CycleOnCurrentPartition
<1>1. SequentialInv => CycleOnCurrentPartition
  BY DEF SequentialInv, Orderly, CycleOnCurrentPartition
<1> QED
  BY <1>1, SequentialInvariant, PTL

----------------------------------------------------------------------------
(* Refinement.  Order makes the partition in progress a function of the flag  *)
(* and the rotation, whichever task works on it.                              *)
ActiveFollowsFlag ==
    Active = IF ~interrupted /\ cycle_running THEN current_partition ELSE None

(* The partition that the refinement mapping reads from the working task is  *)
(* the one the flag and the rotation name.                                   *)
LEMMA ActiveValue == SequentialInv /\ FlagHasOwner => ActiveFollowsFlag
<1> SUFFICES ASSUME SequentialInv, FlagHasOwner PROVE ActiveFollowsFlag
  OBVIOUS
<1> USE DEF ActiveFollowsFlag
<1>1. CASE ~interrupted /\ \E t \in CycleTasks : InCycle(t)
  <2> DEFINE worker == CHOOSE t \in CycleTasks : InCycle(t)
  <2>1. worker \in CycleTasks /\ InCycle(worker)
    BY <1>1
  <2>2. cycle_running /\ partition[worker] = current_partition
    BY <1>1, <2>1 DEF SequentialInv, Orderly
  <2> QED
    BY <1>1, <2>2 DEF Active
<1>2. CASE ~(~interrupted /\ \E t \in CycleTasks : InCycle(t))
  BY <1>2 DEF FlagHasOwner, Active
<1> QED
  BY <1>1, <1>2

(* What a step does to the flag, the rotation and the order.                 *)
Seen == <<cycle_running, current_partition, interrupted>>

CycleBegins ==
    /\ ~interrupted /\ ~interrupted' /\ ~cycle_running /\ cycle_running'
    /\ current_partition' = current_partition

RotationMoves ==
    /\ ~interrupted /\ ~interrupted' /\ ~cycle_running'
    /\ current_partition' = NextPartition

OrderIsLost ==
    /\ ~interrupted /\ interrupted' /\ cycle_running
    /\ current_partition' = current_partition

InDisorder ==
    /\ interrupted /\ (interrupted' \/ ~cycle_running')
    /\ current_partition' \in {current_partition, NextPartition}

(* The end of a cycle either is the regular one or takes place in disorder.  *)
LEMMA LeavingMoves ==
    ASSUME FlagsOK, SequentialInv, FlagHasOwner, NEW t \in Tasks, Settle(t), ClearFlag(t),
           \/ current_partition' = NextPartition /\ (InCycle(t) \/ ~cycle_running)
           \/ /\ current_partition' = current_partition
              /\ InCycle(t) => stop_requested \/ cancelled[t]
    PROVE  UNCHANGED Seen \/ RotationMoves \/ InDisorder
<1> USE TaskSets DEF FlagsOK, Seen, RotationMoves, InDisorder, ClearFlag
<1>1. CASE ~interrupted
  <2>1. ~interrupted'
    BY <1>1 DEF Settle
  <2>2. InCycle(t) => t \in CycleTasks /\ ~stop_requested /\ ~cancelled[t]
    BY <1>1 DEF SequentialInv, Orderly, InCycle
  <2> QED
    BY <1>1, <2>1, <2>2 DEF Settle
<1>2. CASE interrupted
  <2>1. interrupted' \/ ~cycle_running'
    BY <1>2 DEF Settle, FlagHasOwner
  <2> QED
    BY <1>2, <2>1
<1> QED
  BY <1>1, <1>2 DEF FlagsOK

(* Every step begins a cycle, moves the rotation, loses the order, takes      *)
(* place in disorder or changes nothing of it.                                *)
LEMMA FlagAndRotation ==
    ASSUME TypeOK, SequentialInv, FlagHasOwner, [Next]_vars
    PROVE  UNCHANGED Seen \/ CycleBegins \/ RotationMoves \/ OrderIsLost \/ InDisorder
<1> DEFINE Goal == UNCHANGED Seen \/ CycleBegins \/ RotationMoves \/ OrderIsLost \/ InDisorder
<1> USE TaskSets DEF engine
<1>1. ASSUME NEW t \in CycleTasks, Cycle(t) PROVE Goal
  <2>1. CASE SkipCycle(t) \/ AcquireLock(t) \/ ScanAndAlert(t)
    BY <2>1 DEF SkipCycle, AcquireLock, ScanAndAlert, Seen
  <2>2. CASE QueueForLock(t) \/ EnterIngest(t)
    BY <2>2 DEF QueueForLock, EnterIngest, Entering, CycleBegins, InDisorder, TypeOK, FlagsOK
  <2>3. CASE EnterEmpty(t) \/ AcquireStopped(t) \/ AbortCycle(t) \/ CompleteCycle(t)
             \/ FailCycle(t)
    <3>1. /\ Settle(t) /\ ClearFlag(t)
          /\ \/ current_partition' = NextPartition /\ (InCycle(t) \/ ~cycle_running)
             \/ /\ current_partition' = current_partition
                /\ InCycle(t) => stop_requested \/ cancelled[t]
      BY <2>3 DEF EnterEmpty, AcquireStopped, AbortCycle, CompleteCycle, FailCycle, EndCycle,
          Entering, InCycle
    <3> QED
      BY <3>1, LeavingMoves DEF TypeOK
  <2> QED
    BY <1>1, <2>1, <2>2, <2>3 DEF Cycle
<1>2. ASSUME NEW t \in Tasks, Awaited(t) PROVE Goal
  <2>1. CASE StoreBatch(t) \/ NextBatch(t) \/ FinishLateWrite(t)
    BY <2>1 DEF StoreBatch, NextBatch, FinishLateWrite, Seen
  <2>2. CASE DeliverCancel(t)
    <3>1. Settle(t) /\ ClearFlag(t) /\ current_partition' = current_partition /\ cancelled[t]
      BY <2>2 DEF DeliverCancel
    <3> QED
      BY <3>1, LeavingMoves DEF TypeOK
  <2> QED
    BY <1>2, <2>1, <2>2 DEF Awaited
<1>3. ASSUME NEW t \in ScanTasks, DispatchScan(t) PROVE Goal
  BY <1>3 DEF DispatchScan, Seen
<1>4. CASE Volumes
  BY <1>4 DEF Volumes, FireVolumes, AcquireVolumes, EndVolumes, FailVolumes, VolumesOver, Seen
<1>5. CASE StopEngine \/ Shutdown
  <2>1. /\ cycle_running' = FALSE /\ current_partition' = current_partition
        /\ interrupted' = \E t \in CycleTasks : InCycle(t)
    BY <1>5 DEF StopEngine, Shutdown, Stop
  <2>2. ~interrupted => interrupted' = cycle_running
    BY <2>1 DEF SequentialInv, Orderly, FlagHasOwner, TypeOK, FlagsOK
  <2> QED
    BY <2>1, <2>2 DEF Seen, OrderIsLost, InDisorder, TypeOK, FlagsOK
<1>6. CASE StartEngine \/ BotStart \/ BotLaunch
  BY <1>6 DEF StartEngine, BotStart, BotLaunch, Seen
<1>7. CASE UNCHANGED vars
  BY <1>7 DEF vars, Seen
<1> QED
  BY <1>1, <1>2, <1>3, <1>4, <1>5, <1>6, <1>7 DEF Next, Operator

(* Each of these is a step or a stutter of SequentialCycles.                 *)
LEMMA RefinementStep ==
    ASSUME TypeOK, SequentialInv, FlagHasOwner, [Next]_vars,
           ActiveFollowsFlag, ActiveFollowsFlag', FlagsOK'
    PROVE  [Sequential!Next]_Sequential!vars
<1> USE DEF ActiveFollowsFlag, Sequential!Next, Sequential!vars, Sequential!Following,
            NextPartition
<1>1. CASE UNCHANGED Seen
  BY <1>1 DEF Seen
<1>2. CASE CycleBegins
  BY <1>2 DEF CycleBegins, Sequential!Begin, TypeOK, FlagsOK
<1>3. CASE RotationMoves
  BY <1>3 DEF RotationMoves, Sequential!Finish, Sequential!Pass, TypeOK, FlagsOK
<1>4. CASE OrderIsLost
  BY <1>4 DEF OrderIsLost, Sequential!Disturb, TypeOK, FlagsOK, TasksOK
<1>5. CASE InDisorder
  BY <1>5 DEF InDisorder, Sequential!Settle, FlagsOK
<1> QED
  BY <1>1, <1>2, <1>3, <1>4, <1>5, FlagAndRotation

(* The loop, the dispatched scans, the flag and the lock implement one actor  *)
(* that rotates through the partitions and is sequential but for the wake of  *)
(* a stop in the middle of a cycle.                                           *)
THEOREM Refinement == Spec => ImplementsSequentialCycles
<1>1. Init => Sequential!Init
  BY TaskSets DEF Init, Sequential!Init, Active, InCycle, Ingesting
<1>2. /\ TypeOK /\ SequentialInv /\ FlagHasOwner /\ [Next]_vars
      /\ ActiveFollowsFlag /\ ActiveFollowsFlag' /\ TypeOK'
      => [Sequential!Next]_Sequential!vars
  BY RefinementStep DEF TypeOK
<1> QED
  BY <1>1, <1>2, TypeCorrect, SequentialInvariant, FlagIsOwned, ActiveValue, PTL
     DEF Spec, ImplementsSequentialCycles, Sequential!Spec
=============================================================================
