------------------------------ MODULE Scheduler ------------------------------
(***************************************************************************)
(* QuantScheduler (app/workers/scheduler.py), the ingestion half of the     *)
(* MarketCollector it drives (app/ingestion/collector.py) and the callers   *)
(* that start and stop it (app/api/system.py, app/alerts/bot.py, main.py).  *)
(*                                                                          *)
(* Everything runs on one asyncio event loop, so a step of this module is   *)
(* what one task or handler does between two suspension points; only the    *)
(* writes of asyncio.to_thread run beside it.  A task is a slot that is     *)
(* reused once the coroutine in it, and the thread it left behind, ended.   *)
(***************************************************************************)
EXTENDS Naturals

CONSTANTS
    LoopTasks,        \* slots for _continuous_cycle_loop tasks
    ScanTasks,        \* slots for master_cycle tasks dispatched by POST /scan
    VolumeTask,       \* the volume_refresh job (APScheduler runs one instance)
    None,             \* no task
    NumPartitions,    \* settings.scan_partitions
    MaxBatches        \* bound: batches of one ingestion

CycleTasks == LoopTasks \cup ScanTasks
Tasks == CycleTasks \cup {VolumeTask}

ASSUME PartitionAssumption == NumPartitions \in Nat \ {0}
ASSUME BatchAssumption == MaxBatches \in Nat \ {0}
ASSUME TaskAssumption ==
    /\ LoopTasks \cap ScanTasks = {}
    /\ VolumeTask \notin CycleTasks
    /\ None \notin Tasks /\ None \notin 0..NumPartitions - 1

VARIABLES
    is_running,         \* QuantScheduler._is_running
    cycle_running,      \* QuantScheduler._cycle_running
    current_partition,  \* QuantScheduler._current_partition, only read modulo
    loop_task,          \* QuantScheduler._loop_task
    aps,                \* state of the AsyncIOScheduler
    standby_mode,       \* app.core.state.standby_mode
    bot_start,          \* a !start command is in its two second countdown
    stop_requested,     \* MarketCollector._stop_requested
    ingest_lock,        \* owner of MarketCollector._ingest_lock
    pc,                 \* where each task is suspended
    cancelled,          \* task.cancel() was called, not yet delivered
    partition,          \* partition_idx of the cycle a task is in
    batches,            \* batches an ingestion has still to request
    interrupted         \* history, guards nothing: a stop has come during a cycle
                        \* and not all cycles of that moment have ended since

engine == <<is_running, loop_task, aps, standby_mode, bot_start>>
vars == <<is_running, cycle_running, current_partition, loop_task, aps,
          standby_mode, bot_start, stop_requested, ingest_lock, pc, cancelled,
          partition, batches, interrupted>>

----------------------------------------------------------------------------
(* Where a task can be suspended: its first step is due, asyncio.Lock, a     *)
(* batch's requests and pacing, the repository's asyncio.to_thread (and the   *)
(* pacing after it), send_batch_alerts, the loop's pause.  In a slot that is  *)
(* late the coroutine has ended, but not the thread of its write.             *)
Ingesting == {"fetch", "write"}

Suspended(t) ==
    IF t \in LoopTasks THEN {"free", "created", "lock", "alert", "sleep", "late"} \cup Ingesting
    ELSE IF t \in ScanTasks THEN {"free", "created", "lock", "alert"} \cup Ingesting
    ELSE {"free", "lock", "late"} \cup Ingesting

Locations == {"free", "created", "lock", "alert", "sleep", "late"} \cup Ingesting

InCycle(t) == t \in CycleTasks /\ pc[t] \in {"lock", "alert"} \cup Ingesting
Gone(t) == pc[t] \in {"free", "late"}
Live(t) == ~Gone(t) /\ ~cancelled[t]
Waiters == {t \in Tasks : pc[t] = "lock" /\ ~cancelled[t]}

(* Mutant: the rotation does not wrap around. *)
NextPartitionUnbounded == current_partition + 1

NextPartition == (current_partition + 1) % NumPartitions

(* What follows a cycle: the loop pauses, a dispatched task is done. *)
AfterCycle(t) == IF t \in LoopTasks THEN "sleep" ELSE "free"

Init ==
    /\ is_running = FALSE
    /\ cycle_running = FALSE
    /\ current_partition = 0
    /\ loop_task = None
    /\ aps = "stopped"
    /\ standby_mode = TRUE
    /\ bot_start = FALSE
    /\ stop_requested = FALSE
    /\ ingest_lock = None
    /\ pc = [t \in Tasks |-> "free"]
    /\ cancelled = [t \in Tasks |-> FALSE]
    /\ partition = [t \in CycleTasks |-> 0]
    /\ batches = [t \in Tasks |-> 0]
    /\ interrupted = FALSE

----------------------------------------------------------------------------
(* Operators that are part of several actions *)

(* Mutant: the flag is cleared by the code after the try, not by a finally. *)
KeepFlag(t) == UNCHANGED cycle_running

(* master_cycle's finally: whoever leaves a cycle clears the flag. *)
ClearFlag(t) == cycle_running' = IF InCycle(t) THEN FALSE ELSE cycle_running

(* The interruption is over when t leaves its cycle and no other is left. *)
Settle(t) ==
    interrupted' = (interrupted /\ \E s \in CycleTasks \ {t} : InCycle(s))

(* Mutant: the end of a cycle and the finally both advance the rotation. *)
EndCycleTwice(t, advance) ==
    /\ ClearFlag(t)
    /\ Settle(t)
    /\ current_partition' = IF advance THEN (current_partition + 2) % NumPartitions
                            ELSE current_partition
    /\ pc' = [pc EXCEPT ![t] = AfterCycle(t)]
    /\ partition' = [partition EXCEPT ![t] = 0]
    /\ batches' = [batches EXCEPT ![t] = 0]

(* The cycle of t ends. *)
EndCycle(t, advance) ==
    /\ ClearFlag(t)
    /\ Settle(t)
    /\ current_partition' = IF advance THEN NextPartition ELSE current_partition
    /\ pc' = [pc EXCEPT ![t] = AfterCycle(t)]
    /\ partition' = [partition EXCEPT ![t] = 0]
    /\ batches' = [batches EXCEPT ![t] = 0]

(* Mutant: an ingestion that fails or is cancelled leaves the lock behind. *)
ReleaseNever(t) == UNCHANGED ingest_lock

(* async with self._ingest_lock is left by any way out. *)
Release(t) == ingest_lock' = IF ingest_lock = t THEN None ELSE ingest_lock

(* t ends although its write may not have.  A thread that was still queued in *)
(* the executor, or has just ended, writes no more; any other goes on.        *)
Abandon(t) ==
    \E end \in IF pc[t] = "write" THEN {"free", "late"} ELSE {"free"} :
        pc' = [pc EXCEPT ![t] = end]

(* collect_partition holds the lock and knows its n batches. *)
BeginBatches(t, n) ==
    /\ ingest_lock' = t
    /\ pc' = [pc EXCEPT ![t] = "fetch"]
    /\ batches' = [batches EXCEPT ![t] = n]

----------------------------------------------------------------------------
(* master_cycle *)

(* The loop is due (first step or end of its pause), or a dispatched task    *)
(* takes its first step.                                                     *)
Due(t) == pc[t] \in {"created", "sleep"} /\ ~cancelled[t]

(* Mutant: master_cycle does not test the flag. *)
EnteringUnchecked(t) == Due(t) /\ (t \in LoopTasks => is_running)

Entering(t) == Due(t) /\ (t \in LoopTasks => is_running) /\ ~cycle_running

(* "Master cycle already running. Skipping this run."; a loop whose engine is *)
(* no longer running returns instead.                                         *)
SkipCycle(t) ==
    /\ Due(t) /\ ~Entering(t)
    /\ pc' = [pc EXCEPT ![t] = IF t \in LoopTasks /\ ~is_running THEN "free"
                               ELSE AfterCycle(t)]
    /\ UNCHANGED <<engine, cycle_running, current_partition, stop_requested,
                   ingest_lock, cancelled, partition, batches, interrupted>>

(* Mutant: the flag is set only once the lock is granted. *)
QueueUnflagged(t) ==
    /\ Entering(t)
    /\ ingest_lock # None \/ Waiters # {}
    /\ stop_requested' = FALSE
    /\ partition' = [partition EXCEPT ![t] = current_partition]
    /\ pc' = [pc EXCEPT ![t] = "lock"]
    /\ UNCHANGED <<engine, cycle_running, current_partition, ingest_lock, cancelled,
                   batches, interrupted>>

(* The cycle takes the flag, clears the collector's stop request and has to  *)
(* queue for the ingestion lock.                                             *)
QueueForLock(t) ==
    /\ Entering(t)
    /\ ingest_lock # None \/ Waiters # {}
    /\ cycle_running' = TRUE
    /\ stop_requested' = FALSE
    /\ partition' = [partition EXCEPT ![t] = current_partition]
    /\ pc' = [pc EXCEPT ![t] = "lock"]
    /\ UNCHANGED <<engine, current_partition, ingest_lock, cancelled, batches, interrupted>>

(* The lock is free: the cycle runs on to the request of its first batch. *)
EnterIngest(t) ==
    /\ Entering(t)
    /\ ingest_lock = None /\ Waiters = {}
    /\ cycle_running' = TRUE
    /\ stop_requested' = FALSE
    /\ partition' = [partition EXCEPT ![t] = current_partition]
    /\ \E n \in 1..MaxBatches : BeginBatches(t, n)
    /\ UNCHANGED <<engine, current_partition, cancelled, interrupted>>

(* The lock is free but the partition is empty or reading the items raised:  *)
(* the cycle is over without a suspension.                                   *)
EnterEmpty(t) ==
    /\ Entering(t)
    /\ ingest_lock = None /\ Waiters = {}
    /\ stop_requested' = FALSE
    /\ EndCycle(t, TRUE)
    /\ UNCHANGED <<engine, ingest_lock, cancelled>>

Granted(t) == pc[t] = "lock" /\ ~cancelled[t] /\ ingest_lock = None

(* A queued cycle gets the lock and finds work. *)
AcquireLock(t) ==
    /\ t \in CycleTasks /\ Granted(t)
    /\ ~stop_requested
    /\ \E n \in 1..MaxBatches : BeginBatches(t, n)
    /\ UNCHANGED <<engine, cycle_running, current_partition, stop_requested,
                   cancelled, partition, interrupted>>

(* A queued cycle gets the lock but a stop was requested meanwhile: the batch *)
(* loop breaks at once and the cycle is aborted on the same partition.        *)
AcquireStopped(t) ==
    /\ t \in CycleTasks /\ Granted(t)
    /\ stop_requested
    /\ EndCycle(t, FALSE)
    /\ UNCHANGED <<engine, stop_requested, ingest_lock, cancelled>>

(* The answer to a batch holds something to store: save_snapshots, or the     *)
(* batch's update_volume calls, hand it to a thread.                          *)
StoreBatch(t) ==
    /\ pc[t] = "fetch" /\ ~cancelled[t]
    /\ pc' = [pc EXCEPT ![t] = "write"]
    /\ UNCHANGED <<engine, cycle_running, current_partition, stop_requested,
                   ingest_lock, cancelled, partition, batches, interrupted>>

(* The batch is stored, or was refused or empty, and the batch loop goes on. *)
NextBatch(t) ==
    /\ pc[t] \in Ingesting /\ ~cancelled[t]
    /\ batches[t] > 1 /\ ~stop_requested
    /\ pc' = [pc EXCEPT ![t] = "fetch"]
    /\ batches' = [batches EXCEPT ![t] = @ - 1]
    /\ UNCHANGED <<engine, cycle_running, current_partition, stop_requested,
                   ingest_lock, cancelled, partition, interrupted>>

LastBatch(t) ==
    /\ pc[t] \in Ingesting /\ ~cancelled[t]
    /\ batches[t] = 1 \/ stop_requested

(* Mutant: the rotation advances before the alerts are sent. *)
ScanAndAlertAdvances(t) ==
    /\ t \in CycleTasks /\ LastBatch(t)
    /\ ~stop_requested
    /\ ingest_lock' = None
    /\ pc' = [pc EXCEPT ![t] = "alert"]
    /\ batches' = [batches EXCEPT ![t] = 0]
    /\ current_partition' = NextPartition
    /\ UNCHANGED <<engine, cycle_running, stop_requested,
                   cancelled, partition, interrupted>>

(* The ingestion is over: scan, cache, persist and filter run to the dispatch *)
(* of the alerts without a suspension.                                        *)
ScanAndAlert(t) ==
    /\ t \in CycleTasks /\ LastBatch(t)
    /\ ~stop_requested
    /\ ingest_lock' = None
    /\ pc' = [pc EXCEPT ![t] = "alert"]
    /\ batches' = [batches EXCEPT ![t] = 0]
    /\ UNCHANGED <<engine, cycle_running, current_partition, stop_requested,
                   cancelled, partition, interrupted>>

(* "Cycle aborted: stop requested during ingestion." *)
AbortCycle(t) ==
    /\ t \in CycleTasks /\ LastBatch(t)
    /\ stop_requested
    /\ ingest_lock' = None
    /\ EndCycle(t, FALSE)
    /\ UNCHANGED <<engine, stop_requested, cancelled>>

(* send_batch_alerts returns. *)
CompleteCycle(t) ==
    /\ pc[t] = "alert" /\ ~cancelled[t]
    /\ EndCycle(t, TRUE)
    /\ UNCHANGED <<engine, stop_requested, ingest_lock, cancelled>>

(* Mutant: a failing partition is tried again. *)
FailCycleStays(t) ==
    /\ InCycle(t) /\ ~cancelled[t]
    /\ pc[t] = "lock" => ingest_lock = None
    /\ Release(t)
    /\ EndCycle(t, FALSE)
    /\ UNCHANGED <<engine, stop_requested, cancelled>>

(* An exception in any phase: "Don't get stuck on a failing partition". *)
FailCycle(t) ==
    /\ InCycle(t) /\ ~cancelled[t]
    /\ pc[t] = "lock" => ingest_lock = None
    /\ Release(t)
    /\ EndCycle(t, TRUE)
    /\ UNCHANGED <<engine, stop_requested, cancelled>>

(* The event loop delivers CancelledError, which passes the except Exception *)
(* of master_cycle, runs its finally and ends the loop.  A task that has not *)
(* taken its first step never enters its coroutine.  The async with gives    *)
(* the lock back although the thread of a write may still be at work.        *)
DeliverCancel(t) ==
    /\ cancelled[t]
    /\ cancelled' = [cancelled EXCEPT ![t] = FALSE]
    /\ Abandon(t)
    /\ ClearFlag(t)
    /\ partition' = IF t \in CycleTasks THEN [partition EXCEPT ![t] = 0] ELSE partition
    /\ batches' = [batches EXCEPT ![t] = 0]
    /\ Release(t)
    /\ Settle(t)
    /\ UNCHANGED <<engine, current_partition, stop_requested>>

(* The thread left behind commits or fails. *)
FinishLateWrite(t) ==
    /\ pc[t] = "late"
    /\ pc' = [pc EXCEPT ![t] = "free"]
    /\ UNCHANGED <<engine, cycle_running, current_partition, stop_requested,
                   ingest_lock, cancelled, partition, batches, interrupted>>

----------------------------------------------------------------------------
(* The volume_refresh job *)

(* APScheduler fires the job, which takes the lock or queues for it. *)
FireVolumes ==
    /\ aps = "running" /\ pc[VolumeTask] = "free"
    /\ IF ingest_lock = None /\ Waiters = {}
       THEN IF stop_requested
            THEN UNCHANGED <<pc, ingest_lock, batches>>
            ELSE \E n \in 1..MaxBatches : BeginBatches(VolumeTask, n)
       ELSE /\ pc' = [pc EXCEPT ![VolumeTask] = "lock"]
            /\ UNCHANGED <<ingest_lock, batches>>
    /\ UNCHANGED <<engine, cycle_running, current_partition, stop_requested,
                   cancelled, partition, interrupted>>

(* The queued job gets the lock; a pending stop request ends it at once. *)
AcquireVolumes ==
    /\ Granted(VolumeTask)
    /\ IF stop_requested
       THEN /\ pc' = [pc EXCEPT ![VolumeTask] = "free"]
            /\ UNCHANGED <<ingest_lock, batches>>
       ELSE \E n \in 1..MaxBatches : BeginBatches(VolumeTask, n)
    /\ UNCHANGED <<engine, cycle_running, current_partition, stop_requested,
                   cancelled, partition, interrupted>>

VolumesOver ==
    /\ ingest_lock' = None
    /\ batches' = [batches EXCEPT ![VolumeTask] = 0]
    /\ UNCHANGED <<engine, cycle_running, current_partition, stop_requested,
                   cancelled, partition, interrupted>>

(* The last batch is stored or the loop breaks on a stop. *)
EndVolumes ==
    /\ LastBatch(VolumeTask)
    /\ pc' = [pc EXCEPT ![VolumeTask] = "free"]
    /\ VolumesOver

(* A request raised, or one of the writes that asyncio.gather awaits: gather  *)
(* does not wait for the others.                                              *)
FailVolumes ==
    /\ pc[VolumeTask] \in Ingesting /\ ~cancelled[VolumeTask]
    /\ Abandon(VolumeTask)
    /\ VolumesOver

----------------------------------------------------------------------------
(* Starting and stopping the engine *)

(* Mutant: start() keeps a loop task that has not ended yet. *)
StartKeepsLoop ==
    IF is_running
    THEN UNCHANGED <<is_running, loop_task, pc, aps>>
    ELSE /\ is_running' = TRUE
         /\ IF loop_task # None /\ ~Gone(loop_task)
            THEN UNCHANGED <<loop_task, pc>>
            ELSE \E t \in LoopTasks :
                    /\ pc[t] = "free"
                    /\ loop_task' = t
                    /\ pc' = [pc EXCEPT ![t] = "created"]
         /\ aps' = IF aps = "stopped" THEN "running" ELSE aps

(* start(): a running engine is left alone; APScheduler is started only if   *)
(* it has never been, its running property also holds of a paused scheduler. *)
Start ==
    IF is_running
    THEN UNCHANGED <<is_running, loop_task, pc, aps>>
    ELSE /\ is_running' = TRUE
         /\ \E t \in LoopTasks :
               /\ pc[t] = "free"
               /\ loop_task' = t
               /\ pc' = [pc EXCEPT ![t] = "created"]
         /\ aps' = IF aps = "stopped" THEN "running" ELSE aps

(* Mutant: stop() leaves the loop task alone. *)
CancelNothing == cancelled

CancelLoop ==
    [t \in Tasks |-> cancelled[t] \/ (t = loop_task /\ ~Gone(t))]

(* stop(): the flags are cleared whatever the cycle in progress is doing, and *)
(* only the loop's own task is cancelled.                                     *)
Stop ==
    /\ is_running' = FALSE
    /\ cycle_running' = FALSE
    /\ stop_requested' = TRUE
    /\ interrupted' = \E t \in CycleTasks : InCycle(t)
    /\ aps' = IF aps = "running" THEN "paused" ELSE aps
    /\ cancelled' = CancelLoop

Serving == aps # "closed"

(* POST /settings with standby_mode=false, or the auto start of main.py. *)
StartEngine ==
    /\ Serving
    /\ Start
    /\ standby_mode' = FALSE
    /\ UNCHANGED <<cycle_running, current_partition, bot_start, stop_requested,
                   ingest_lock, cancelled, partition, batches, interrupted>>

(* !start answers at once and calls start() after a two second countdown. *)
BotStart ==
    /\ Serving
    /\ ~is_running /\ ~bot_start
    /\ bot_start' = TRUE
    /\ UNCHANGED <<is_running, cycle_running, current_partition, loop_task, aps,
                   standby_mode, stop_requested, ingest_lock, pc, cancelled,
                   partition, batches, interrupted>>

(* Mutant: !start leaves the standby flag to the web UI. *)
BotLaunchSilent ==
    /\ Serving
    /\ bot_start
    /\ bot_start' = FALSE
    /\ Start
    /\ UNCHANGED <<standby_mode, cycle_running, current_partition, stop_requested,
                   ingest_lock, cancelled, partition, batches, interrupted>>

BotLaunch ==
    /\ Serving
    /\ bot_start
    /\ bot_start' = FALSE
    /\ Start
    /\ standby_mode' = FALSE
    /\ UNCHANGED <<cycle_running, current_partition, stop_requested,
                   ingest_lock, cancelled, partition, batches, interrupted>>

(* POST /stop, POST /settings with standby_mode=true and !stop. *)
StopEngine ==
    /\ Serving
    /\ is_running
    /\ Stop
    /\ standby_mode' = TRUE
    /\ UNCHANGED <<current_partition, loop_task, bot_start, ingest_lock, pc,
                   partition, batches>>

(* The lifespan of the application ends: APScheduler cancels its jobs and no  *)
(* request is served any more.                                                *)
Shutdown ==
    /\ Serving
    /\ is_running' = FALSE
    /\ cycle_running' = FALSE
    /\ stop_requested' = TRUE
    /\ interrupted' = \E t \in CycleTasks : InCycle(t)
    /\ aps' = "closed"
    /\ cancelled' = [CancelLoop EXCEPT ![VolumeTask] =
                        @ \/ (aps # "stopped" /\ ~Gone(VolumeTask))]
    /\ UNCHANGED <<current_partition, loop_task, standby_mode, bot_start,
                   ingest_lock, pc, partition, batches>>

(* POST /scan with background_ingest, or without quick. *)
DispatchScan(t) ==
    /\ Serving
    /\ ~cycle_running
    /\ pc[t] = "free"
    /\ pc' = [pc EXCEPT ![t] = "created"]
    /\ UNCHANGED <<engine, cycle_running, current_partition, stop_requested,
                   ingest_lock, cancelled, partition, batches, interrupted>>

----------------------------------------------------------------------------
Cycle(t) ==
    \/ SkipCycle(t) \/ QueueForLock(t) \/ EnterIngest(t)
    \/ EnterEmpty(t) \/ AcquireLock(t) \/ AcquireStopped(t) \/ ScanAndAlert(t)
    \/ AbortCycle(t) \/ CompleteCycle(t) \/ FailCycle(t)

(* What an ingesting or a cancelled task was suspended for comes. *)
Awaited(t) == StoreBatch(t) \/ NextBatch(t) \/ DeliverCancel(t) \/ FinishLateWrite(t)

Volumes == FireVolumes \/ AcquireVolumes \/ EndVolumes \/ FailVolumes

Operator ==
    \/ StartEngine \/ BotStart \/ BotLaunch \/ StopEngine \/ Shutdown

Next ==
    \/ \E t \in CycleTasks : Cycle(t)
    \/ \E t \in Tasks : Awaited(t)
    \/ \E t \in ScanTasks : DispatchScan(t)
    \/ Volumes
    \/ Operator

Spec == Init /\ [][Next]_vars

(* The event loop runs every task that can run; the HTTP client bounds every  *)
(* request, so an awaited batch or dispatch ends.  asyncio.Lock wakes its     *)
(* waiters first in, first out, hence strong fairness for taking it.          *)
Fairness ==
    /\ \A t \in CycleTasks : /\ WF_vars(Cycle(t) \/ NextBatch(t))
                            /\ SF_vars(AcquireLock(t) \/ AcquireStopped(t))
    /\ WF_vars(NextBatch(VolumeTask) \/ EndVolumes) /\ SF_vars(AcquireVolumes)
    /\ \A t \in Tasks : WF_vars(DeliverCancel(t))

FairSpec == Spec /\ Fairness

----------------------------------------------------------------------------
(* Properties *)

FlagsOK ==
    /\ is_running \in BOOLEAN /\ cycle_running \in BOOLEAN /\ stop_requested \in BOOLEAN
    /\ standby_mode \in BOOLEAN /\ bot_start \in BOOLEAN
    /\ interrupted \in BOOLEAN

TasksOK ==
    /\ current_partition \in 0..NumPartitions - 1
    /\ loop_task \in LoopTasks \cup {None}
    /\ aps \in {"stopped", "running", "paused", "closed"}
    /\ ingest_lock \in Tasks \cup {None}
    /\ pc \in [Tasks -> Locations]
    /\ \A t \in Tasks : pc[t] \in Suspended(t)
    /\ cancelled \in [Tasks -> BOOLEAN]
    /\ \A t \in ScanTasks : ~cancelled[t]
    /\ partition \in [CycleTasks -> 0..NumPartitions - 1]
    /\ batches \in [Tasks -> 0..MaxBatches]

(* Every variable has its type; a task is only where its coroutine suspends, *)
(* and nobody cancels a cycle that POST /scan dispatched.                    *)
TypeOK == FlagsOK /\ TasksOK

(* Whatever is started, stopped, cancelled or failed in whatever order, the   *)
(* ingestion lock belongs to exactly the one task that requests batches and   *)
(* waits for their writes (collector.py, async with self._ingest_lock): no    *)
(* owner that fails or is cancelled leaves it locked, and no two tasks ingest *)
(* at once.  It says nothing of the threads: a write whose task was cancelled *)
(* or whose siblings failed goes on, late, beside those of the next owner.    *)
IngestExclusive ==
    \A t \in Tasks : (ingest_lock = t) <=> (pc[t] \in Ingesting)

(* The cycle flag never outlives every cycle: while it is set some task is    *)
(* inside master_cycle and its finally will clear it, so no sequence of       *)
(* stops, restarts and failures leaves the engine skipping every run.         *)
FlagHasOwner == cycle_running => \E t \in CycleTasks : InCycle(t)

(* However often the engine is stopped and started, at most one loop task is  *)
(* neither ended nor cancelled, it is the one stop() can reach, and it lives  *)
(* only in a running engine: no orphaned loop keeps cycling after a stop.     *)
OneLiveLoop ==
    \A t \in LoopTasks : Live(t) => t = loop_task /\ is_running

(* A running engine has a live loop: no path ends or cancels the loop and     *)
(* leaves _is_running set, which would make start() return without effect.    *)
EngineHasLoop ==
    is_running => loop_task # None /\ Live(loop_task)

(* What the web UI shows as standby mode is the negation of the engine's      *)
(* flag, although the two are written by different modules and !start waits   *)
(* two seconds between its check and its start().  Until shutdown() only:     *)
(* that stops the engine and leaves the mode alone.                           *)
StandbyMirrorsEngine == aps # "closed" => standby_mode = ~is_running

(* Cycles are sequential, except after a stop in the middle of one: two tasks *)
(* are inside master_cycle at once only while the cycles of such a stop, and  *)
(* those begun beside them, have not all ended.  Then order is back.          *)
CycleMutex ==
    ~interrupted => \A s, t \in CycleTasks : InCycle(s) /\ InCycle(t) => s = t

(* The same promise for the cycles nobody has cancelled, as the commit that   *)
(* introduced the flag puts it: it is there "to prevent overlapping runs".    *)
NoOverlappingRuns ==
    \A s, t \in CycleTasks :
        InCycle(s) /\ Live(s) /\ InCycle(t) /\ Live(t) => s = t

(* A cycle that no stop interrupts works on the partition the rotation stands *)
(* at, so that finishing it moves the rotation to the next one and no         *)
(* partition is skipped.                                                      *)
CycleOnCurrentPartition ==
    ~interrupted => \A t \in CycleTasks : InCycle(t) => partition[t] = current_partition

(* Unless a stop has come in the middle of a cycle the flag is a lock: it is  *)
(* set exactly while a cycle is in progress.                                  *)
FlagIsExact ==
    ~interrupted => (cycle_running <=> \E t \in CycleTasks : InCycle(t))

(* The partition in progress, if there is order; the tasks are seen as one    *)
(* actor.                                                                     *)
Active ==
    IF ~interrupted /\ \E t \in CycleTasks : InCycle(t)
    THEN partition[CHOOSE t \in CycleTasks : InCycle(t)]
    ELSE None

Sequential ==
    INSTANCE SequentialCycles WITH
        rotation <- current_partition, active <- Active, disturbed <- interrupted,
        Idle <- None

(* Tasks, flag, lock and cancellation together behave as one sequential       *)
(* actor that rotates through the partitions, as start()'s docstring says,    *)
(* until a stop disturbs it; the rotation never jumps even then, and the      *)
(* actor is sequential again once the disturbed cycles have ended.            *)
ImplementsSequentialCycles == Sequential!Spec

(* An engine that is left running never gets stuck on a partition, although   *)
(* cycles fail, are skipped and compete with dispatched scans and the volume  *)
(* refresh for the ingestion lock.                                            *)
RotationProgresses ==
    \A p \in 0..NumPartitions - 1 : []<>(current_partition = p) \/ []<>~is_running

(* Whoever queues for the ingestion lock leaves the queue. *)
LockIsGranted ==
    \A t \in Tasks : pc[t] = "lock" ~> pc[t] # "lock"
=============================================================================
