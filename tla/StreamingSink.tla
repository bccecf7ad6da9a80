--------------------------- MODULE StreamingSink ---------------------------
(***************************************************************************)
(* The hand-off of parsed rows from the parser worker to the GUI thread:   *)
(* BoundedBatchQueue, QtStreamingLogSink and the streaming life cycle of   *)
(* LogModel, driven by the user commands of MainWindow.                    *)
(*                                                                         *)
(* Two threads.  The worker runs OnBatch and OnFinished; everything else   *)
(* runs on the GUI thread, whose handlers interleave with the worker but   *)
(* never with each other.  A handler is split into several actions where   *)
(* the worker can observe the difference: a drain (store(false), then      *)
(* DrainAll) and a teardown (stop, join, flush, drop).                     *)
(*                                                                         *)
(* A row is a record naming its session and its number in it.  Errors, new *)
(* keys and line offsets travel with the rows and are left out.  Batches   *)
(* leave the queue only all together, so the queue is the concatenation of *)
(* its rows and the number of its batches.                                 *)
(***************************************************************************)
EXTENDS Integers, Sequences, FiniteSets

CONSTANTS
    Capacity,     \* BoundedBatchQueue::mCapacity
    MaxSessions,  \* bound: parses armed in one behaviour
    MaxGeneration, \* bound: teardowns start below this generation
    MaxRows,      \* bound: rows one parse produces
    MaxFiles,     \* bound: length of the queue of files to open
    BatchSizes,   \* row counts a batch may have
    Caps,         \* retention caps the preferences dialog may apply
    DefaultRetention, \* StreamingControl::DEFAULT_RETENTION_LINES
    SizeMod,      \* 2^w of size_t
    Commands      \* the user commands of the scenario

AllCommands == {"new", "openStatic", "openLive", "append", "stop", "pause", "cap"}

ASSUME ConstantsAssumption ==
    /\ Capacity \in Nat \ {0}
    /\ MaxSessions \in Nat
    /\ MaxGeneration \in Nat
    /\ MaxRows \in Nat
    /\ MaxFiles \in Nat
    /\ BatchSizes \subseteq Nat \ {0}
    /\ Caps \subseteq Nat \ {0}
    /\ DefaultRetention \in Nat \ {0}
    /\ SizeMod \in Nat \ {0}
    /\ Commands \subseteq AllCommands

VARIABLES
    \* BoundedBatchQueue
    pendingRows,     \* rows of mItems, in order
    pendingCount,    \* mItems.size()
    stopped,         \* mStopped
    dropped,         \* mDroppedDuringShutdown
    \* QtStreamingLogSink
    generation,      \* mGeneration
    active,          \* mActive
    drainScheduled,  \* mDrainScheduled
    paused,          \* mPaused
    pausedRows,      \* rows of mPausedBatches, in order
    pausedAny,       \* mPausedBatches is not empty
    pausedDrops,     \* mPausedDropCount
    events,          \* lambdas posted to the sink, not yet dispatched
    \* the parser worker
    wpc,             \* where the worker is
    hand,            \* the batch OnBatch was called with
    final,           \* hand is the terminal batch of the parse
    cancelled,       \* the argument OnFinished will be called with
    nextRow,         \* next row of the parse
    wCap,            \* the retention cap OnBatch loaded
    stopToken,       \* mStopSource has been asked to stop
    \* LogModel and the session of MainWindow
    table,           \* rows of mLogTable
    cap,             \* mRetentionCap, of the model and of the sink
    retention,       \* StreamingControl::RetentionLines()
    streamingActive, \* mStreamingActive
    lastReported,    \* mLastReportedShutdownDropCount
    mode,            \* SessionMode
    pendingFiles,    \* length of MutablePendingOpenFiles()
    \* the GUI thread
    guiPc,           \* where the GUI thread is
    guiOp,           \* the command being carried out
    wasStreaming,    \* TeardownStreamingSessionInternal's local
    already,         \* its finishedAlreadyEmitted
    drainGen,        \* DrainGeneration's argument
    \* history, read by properties only
    sess,            \* parses armed so far, the id of the current one
    base,            \* first session whose rows the table may hold
    lost,            \* rows of the current session that left it, by cause
    shutdownDrops,   \* batches the current session lost in WaitEnqueue
    emitted,         \* streamingFinished signals of the current session
    reportedLoss     \* the loss StreamingErrors told the user, in batches

queueVars  == <<pendingRows, pendingCount, stopped, dropped>>
pauseVars  == <<paused, pausedRows, pausedAny, pausedDrops>>
sinkVars   == <<generation, active, drainScheduled, events>>
workerVars == <<wpc, hand, final, cancelled, nextRow, wCap, stopToken>>
modelVars  == <<table, cap, retention, streamingActive, lastReported, mode, pendingFiles>>
guiVars    == <<guiPc, guiOp, wasStreaming, already, drainGen>>
ghostVars  == <<sess, base, lost, shutdownDrops, emitted, reportedLoss>>

vars == <<queueVars, pauseVars, sinkVars, workerVars, modelVars, guiVars, ghostVars>>

Row   == [s : Nat, n : Nat]
Event == [kind : {"drain", "finished"}, gen : Nat, cancelled : BOOLEAN, s : Nat]

RowsOf(rows) == {rows[i] : i \in DOMAIN rows}

(* The last n elements of a sequence, all of it when it is shorter.        *)
LastN(rows, n) ==
    IF Len(rows) > n THEN SubSeq(rows, Len(rows) - n + 1, Len(rows)) ELSE rows

(* The places where the code gives rows up: FIFO eviction, overflow and    *)
(* trim of the paused buffer, WaitEnqueue after a stop, a stale drain.     *)
Causes == {"evicted", "overflow", "trimmed", "shutdown", "stale"}

NoLoss == [c \in Causes |-> {}]

Lose(cause, rows) == [lost EXCEPT ![cause] = @ \union rows]

Workers == {"none", "parse", "onBatch", "pausedLock", "enqueue", "parked",
            "sched", "post", "finish", "finishing", "done"}

(* The future watched by mStreamingWatcher is not running.                 *)
WorkerJoined == wpc \in {"none", "done"}

-----------------------------------------------------------------------------
(* Variant of AppendRows: the collapse of a giant batch is forgotten.      *)
AppendRowsNoCollapse(tab, rows) ==
    LET total == Len(tab) + Len(rows)
        excess == IF cap # 0 /\ total > cap THEN total - cap ELSE 0
        dropCount == IF excess < Len(tab) THEN excess ELSE Len(tab)
    IN  SubSeq(tab, dropCount + 1, Len(tab)) \o rows

(* LogModel::AppendBatch: collapse a batch longer than the cap, evict the  *)
(* oldest rows to make room, then append.                                  *)
AppendRows(tab, rows) ==
    LET kept == IF cap # 0 THEN LastN(rows, cap) ELSE rows
        total == Len(tab) + Len(kept)
        excess == IF cap # 0 /\ total > cap THEN total - cap ELSE 0
        dropCount == IF excess < Len(tab) THEN excess ELSE Len(tab)
    IN  SubSeq(tab, dropCount + 1, Len(tab)) \o kept

(* mModel->AppendBatch(rows), with the evicted rows recorded.              *)
AppendBatch(rows) ==
    /\ table' = AppendRows(table, rows)
    /\ lost' = Lose("evicted", (RowsOf(table) \union RowsOf(rows)) \ RowsOf(AppendRows(table, rows)))

(* Variant of Woken: nobody notifies mNotFull.                             *)
WokenNever(pc) == pc

(* mNotFull.notify_one / notify_all: a parked producer re-evaluates.       *)
Woken(pc) == IF pc = "parked" THEN "enqueue" ELSE pc

-----------------------------------------------------------------------------
(* The parser worker.                                                      *)

NewRows(k) == [i \in 1..k |-> [s |-> sess, n |-> nextRow + i - 1]]

(* BatchCoalescer::TryFlush hands the coalesced batch to the sink.  The    *)
(* stop token ends the reading of input only: what is already in the       *)
(* pipeline is still flushed.                                              *)
ParseBatch(k) ==
    /\ wpc = "parse"
    /\ nextRow + k - 1 <= MaxRows
    /\ hand' = NewRows(k)
    /\ nextRow' = nextRow + k
    /\ wpc' = "onBatch"
    /\ UNCHANGED <<final, cancelled, wCap, stopToken>>
    /\ UNCHANGED <<queueVars, pauseVars, sinkVars, modelVars, guiVars, ghostVars>>

(* BatchCoalescer::Finish: at the end of the input, or once stopped, a     *)
(* terminal batch goes out, even an empty one; OnFinished's argument is    *)
(* fixed before it does.                                                   *)
ParseFinish(k) ==
    /\ wpc = "parse"
    /\ nextRow + k - 1 <= MaxRows
    /\ hand' = NewRows(k)
    /\ nextRow' = nextRow + k
    /\ final' = TRUE
    /\ cancelled' = stopToken
    /\ wpc' = "onBatch"
    /\ UNCHANGED <<wCap, stopToken>>
    /\ UNCHANGED <<queueVars, pauseVars, sinkVars, modelVars, guiVars, ghostVars>>

(* RunParserWorkerWithBoundary: an exception ends the parse with one batch *)
(* that carries the error and no row, and OnFinished(false).               *)
ParseThrow ==
    /\ wpc = "parse"
    /\ hand' = <<>>
    /\ final' = TRUE
    /\ cancelled' = FALSE
    /\ wpc' = "onBatch"
    /\ UNCHANGED <<nextRow, wCap, stopToken>>
    /\ UNCHANGED <<queueVars, pauseVars, sinkVars, modelVars, guiVars, ghostVars>>

(* OnBatch loads mPaused, and the cap when it is set.                      *)
OnBatch ==
    /\ wpc = "onBatch"
    /\ wpc' = IF paused THEN "pausedLock" ELSE "enqueue"
    /\ wCap' = IF paused THEN cap ELSE wCap
    /\ UNCHANGED <<hand, final, cancelled, nextRow, stopToken>>
    /\ UNCHANGED <<queueVars, pauseVars, sinkVars, modelVars, guiVars, ghostVars>>

AfterBatch == IF final THEN "finish" ELSE "parse"

(* Variants of CountDrops: store for fetch_add; the operands swapped.      *)
CountDropsStore(n) == n
CountDropsSwapped(n) == pausedDrops - n

(* mPausedDropCount.fetch_add.                                             *)
CountDrops(n) == pausedDrops + n

(* OnBatch under mPausedMutex: re-check mPaused, buffer the batch and drop *)
(* the oldest buffered rows beyond the cap.                                *)
BufferWhilePaused ==
    LET all == pausedRows \o hand
        kept == IF wCap # 0 THEN LastN(all, wCap) ELSE all
    IN  /\ wpc = "pausedLock"
        /\ IF paused
           THEN /\ pausedRows' = kept
                /\ pausedAny' = TRUE
                /\ pausedDrops' = CountDrops(Len(all) - Len(kept))
                /\ lost' = Lose("overflow", RowsOf(all) \ RowsOf(kept))
                /\ hand' = <<>>
                /\ wpc' = AfterBatch
           ELSE /\ wpc' = "enqueue"
                /\ UNCHANGED <<pausedRows, pausedAny, pausedDrops, lost, hand>>
        /\ UNCHANGED <<paused, final, cancelled, nextRow, wCap, stopToken>>
        /\ UNCHANGED <<sess, base, shutdownDrops, emitted, reportedLoss>>
        /\ UNCHANGED <<queueVars, sinkVars, modelVars, guiVars>>

(* Variant of Enqueued: push_front for push_back.                          *)
EnqueuedFront(rows) == rows \o pendingRows

(* mItems.push_back.                                                       *)
Enqueued(rows) == pendingRows \o rows

(* BoundedBatchQueue::WaitEnqueue: take a slot if there is one, even after *)
(* a stop; drop the batch when stopped and full; park otherwise.           *)
WaitEnqueue ==
    /\ wpc = "enqueue"
    /\ \/ /\ pendingCount < Capacity
          /\ pendingRows' = Enqueued(hand)
          /\ pendingCount' = pendingCount + 1
          /\ hand' = <<>>
          /\ wpc' = "sched"
          /\ UNCHANGED <<dropped, lost, shutdownDrops>>
       \/ /\ pendingCount >= Capacity
          /\ stopped
          /\ dropped' = (dropped + 1) % SizeMod
          /\ shutdownDrops' = shutdownDrops + 1
          /\ lost' = Lose("shutdown", RowsOf(hand))
          /\ hand' = <<>>
          /\ wpc' = AfterBatch
          /\ UNCHANGED <<pendingRows, pendingCount>>
       \/ /\ pendingCount >= Capacity
          /\ ~stopped
          /\ wpc' = "parked"
          /\ UNCHANGED <<pendingRows, pendingCount, dropped, hand, lost, shutdownDrops>>
    /\ UNCHANGED <<stopped, final, cancelled, nextRow, wCap, stopToken>>
    /\ UNCHANGED <<sess, base, emitted, reportedLoss>>
    /\ UNCHANGED <<pauseVars, sinkVars, modelVars, guiVars>>

(* Variants of AfterSchedule: the size of the queue decides instead of the *)
(* flag; the terminal batch leaves its drain to OnFinished.                *)
AfterScheduleBySize == IF pendingCount > 1 THEN AfterBatch ELSE "post"
AfterScheduleSkipsLast == IF drainScheduled \/ final THEN AfterBatch ELSE "post"

(* Only the batch that sets the flag posts a drain.                        *)
AfterSchedule == IF drainScheduled THEN AfterBatch ELSE "post"

(* OnBatch: mDrainScheduled.exchange(true).                                *)
ScheduleDrain ==
    /\ wpc = "sched"
    /\ wpc' = AfterSchedule
    /\ drainScheduled' = TRUE
    /\ UNCHANGED <<hand, final, cancelled, nextRow, wCap, stopToken>>
    /\ UNCHANGED <<generation, active, events>>
    /\ UNCHANGED <<queueVars, pauseVars, modelVars, guiVars, ghostVars>>

(* OnBatch: post DrainGeneration(gen) to the GUI thread.                   *)
PostDrain ==
    /\ wpc = "post"
    /\ events' = Append(events, [kind |-> "drain", gen |-> generation,
                                 cancelled |-> FALSE, s |-> sess])
    /\ wpc' = AfterBatch
    /\ UNCHANGED <<hand, final, cancelled, nextRow, wCap, stopToken>>
    /\ UNCHANGED <<generation, active, drainScheduled>>
    /\ UNCHANGED <<queueVars, pauseVars, modelVars, guiVars, ghostVars>>

(* OnFinished posts the end of the parse; the future still runs.           *)
OnFinished ==
    /\ wpc = "finish"
    /\ events' = Append(events, [kind |-> "finished", gen |-> generation,
                                 cancelled |-> cancelled, s |-> sess])
    /\ wpc' = "finishing"
    /\ UNCHANGED <<hand, final, cancelled, nextRow, wCap, stopToken>>
    /\ UNCHANGED <<generation, active, drainScheduled>>
    /\ UNCHANGED <<queueVars, pauseVars, modelVars, guiVars, ghostVars>>

(* The worker function returns and QtConcurrent marks the future finished. *)
WorkerExit ==
    /\ wpc = "finishing"
    /\ wpc' = "done"
    /\ UNCHANGED <<hand, final, cancelled, nextRow, wCap, stopToken>>
    /\ UNCHANGED <<queueVars, pauseVars, sinkVars, modelVars, guiVars, ghostVars>>

Worker ==
    \/ \E k \in BatchSizes : ParseBatch(k)
    \/ \E k \in BatchSizes \union {0} : ParseFinish(k)
    \/ ParseThrow
    \/ OnBatch
    \/ BufferWhilePaused
    \/ WaitEnqueue
    \/ ScheduleDrain
    \/ PostDrain
    \/ OnFinished
    \/ WorkerExit

-----------------------------------------------------------------------------
(* The GUI thread: dispatching the lambdas posted to the sink.             *)

GuiStates == {"idle", "draining", "join", "flush", "flushDraining", "backstop", "finish", "begin"}

(* Variant of StartDrain: mDrainScheduled is not cleared.                  *)
StartDrainNoReset(gen, pc) ==
    /\ UNCHANGED drainScheduled
    /\ drainGen' = gen
    /\ guiPc' = pc

(* DrainGeneration starts: mDrainScheduled.store(false).                   *)
StartDrain(gen, pc) ==
    /\ drainScheduled' = FALSE
    /\ drainGen' = gen
    /\ guiPc' = pc

(* The event loop, or sendPostedEvents in a teardown, runs a drain lambda. *)
DispatchDrain ==
    /\ guiPc \in {"idle", "flush"}
    /\ events # <<>>
    /\ Head(events).kind = "drain"
    /\ events' = Tail(events)
    /\ StartDrain(Head(events).gen, IF guiPc = "idle" THEN "draining" ELSE "flushDraining")
    /\ UNCHANGED <<generation, active, guiOp, wasStreaming, already>>
    /\ UNCHANGED <<queueVars, pauseVars, workerVars, modelVars, ghostVars>>

AfterDrain == CASE guiPc = "draining"      -> "idle"
                [] guiPc = "flushDraining" -> "flush"
                [] guiPc = "backstop"      -> "finish"

(* DrainGeneration goes on: DrainAll empties the queue and wakes a parked  *)
(* worker; the rows are appended unless the generation moved on.           *)
DrainGeneration ==
    /\ guiPc \in {"draining", "flushDraining", "backstop"}
    /\ pendingRows' = <<>>
    /\ pendingCount' = 0
    /\ wpc' = Woken(wpc)
    /\ \/ /\ pendingCount = 0
          /\ UNCHANGED <<table, lost>>
       \/ /\ pendingCount # 0
          /\ drainGen # generation
          /\ lost' = Lose("stale", RowsOf(pendingRows))
          /\ UNCHANGED table
       \/ /\ pendingCount # 0
          /\ drainGen = generation
          /\ AppendBatch(pendingRows)
    /\ guiPc' = AfterDrain
    /\ already' = IF guiPc = "backstop" THEN ~active ELSE already
    /\ UNCHANGED <<stopped, dropped, hand, final, cancelled, nextRow, wCap, stopToken>>
    /\ UNCHANGED <<cap, retention, streamingActive, lastReported, mode, pendingFiles>>
    /\ UNCHANGED <<guiOp, wasStreaming, drainGen>>
    /\ UNCHANGED <<sess, base, shutdownDrops, emitted, reportedLoss>>
    /\ UNCHANGED <<pauseVars, sinkVars>>

(* Variant of BumpGeneration: the generation stays.                        *)
BumpGenerationNot == UNCHANGED generation

(* mGeneration.fetch_add(1).                                               *)
BumpGeneration == generation' = generation + 1

(* QtStreamingLogSink::Arm, and the spawn of the worker for a new parse.   *)
Arm ==
    /\ sess < MaxSessions
    /\ BumpGeneration
    /\ active' = TRUE
    /\ drainScheduled' = FALSE
    /\ paused' = FALSE
    /\ pausedRows' = <<>>
    /\ pausedAny' = FALSE
    /\ pausedDrops' = 0
    /\ pendingRows' = <<>>
    /\ pendingCount' = 0
    /\ stopped' = FALSE
    /\ dropped' = 0
    /\ stopToken' = FALSE
    /\ wpc' = "parse"
    /\ hand' = <<>>
    /\ final' = FALSE
    /\ cancelled' = FALSE
    /\ nextRow' = 1
    /\ wCap' = 0
    /\ sess' = sess + 1
    /\ lost' = NoLoss
    /\ shutdownDrops' = 0
    /\ emitted' = 0
    /\ reportedLoss' = 0
    /\ streamingActive' = TRUE

(* Every session starts unbounded, a live one then takes the preference.   *)
StartingCap(kind) == IF kind = "LiveTail" THEN retention ELSE 0

(* LogModel::BeginStreaming: a parse that replaces the rows.               *)
BeginStreaming(kind) ==
    /\ Arm
    /\ table' = <<>>
    /\ cap' = StartingCap(kind)
    /\ lastReported' = 0
    /\ mode' = kind
    /\ base' = sess + 1

(* LogModel::AppendStreaming of a file: rows, cap and counters stay.       *)
AppendStreaming ==
    /\ Arm
    /\ UNCHANGED <<table, cap, base>>

(* LogModel::StreamingErrors: the drops not told yet, in size_t.           *)
StreamingErrors ==
    /\ lastReported' = dropped
    /\ reportedLoss' = IF dropped # lastReported
                       THEN (dropped - lastReported) % SizeMod
                       ELSE reportedLoss

(* LogModel::EndStreaming; the sink has just cleared mActive.              *)
EndStreaming ==
    /\ active' = FALSE
    /\ streamingActive' = FALSE
    /\ emitted' = emitted + 1

(* The finished lambda of an outdated generation returns at once.          *)
DispatchStaleFinished ==
    /\ guiPc \in {"idle", "flush"}
    /\ events # <<>>
    /\ Head(events).kind = "finished"
    /\ Head(events).gen # generation
    /\ events' = Tail(events)
    /\ UNCHANGED <<generation, active, drainScheduled>>
    /\ UNCHANGED <<queueVars, pauseVars, workerVars, modelVars, guiVars, ghostVars>>

(* EndStreaming(cancelled) and MainWindow::OnStreamingFinished, when no    *)
(* file is queued, the parse was cancelled, or every queued file fails to  *)
(* open: the session ends.                                                 *)
DispatchFinished ==
    /\ guiPc \in {"idle", "flush"}
    /\ events # <<>>
    /\ Head(events).kind = "finished"
    /\ Head(events).gen = generation
    /\ events' = Tail(events)
    /\ EndStreaming
    /\ IF Head(events).cancelled THEN UNCHANGED <<lastReported, reportedLoss>>
                                 ELSE StreamingErrors
    /\ pendingFiles' = 0
    /\ mode' = "Idle"
    /\ UNCHANGED <<generation, drainScheduled, table, cap, retention>>
    /\ UNCHANGED <<sess, base, lost, shutdownDrops>>
    /\ UNCHANGED <<queueVars, pauseVars, workerVars, guiVars>>

(* The same handlers after a success with files queued: the errors are     *)
(* read, and StreamNextPendingFile arms the parse of the first one that    *)
(* opens, synchronously.                                                   *)
ChainNextFile ==
    /\ guiPc \in {"idle", "flush"}
    /\ events # <<>>
    /\ Head(events).kind = "finished"
    /\ Head(events).gen = generation
    /\ ~Head(events).cancelled
    /\ events' = Tail(events)
    /\ \E left \in 0 .. pendingFiles - 1 : pendingFiles' = left
    /\ AppendStreaming
    /\ lastReported' = dropped
    /\ UNCHANGED <<retention, mode>>
    /\ UNCHANGED guiVars

-----------------------------------------------------------------------------
(* The GUI thread: tearing a session down.                                 *)

(* Variant of RequestStop: the queue is not told.                          *)
RequestStopSilent ==
    /\ stopToken' = TRUE
    /\ UNCHANGED <<stopped, wpc>>

(* QtStreamingLogSink::RequestStop and BoundedBatchQueue::NotifyStop.      *)
RequestStop ==
    /\ stopToken' = TRUE
    /\ stopped' = TRUE
    /\ wpc' = Woken(wpc)

(* TeardownStreamingSessionInternal begins: stop the producer and the      *)
(* sink, which wakes a parked worker, then wait for the worker.            *)
StartTeardown(op) ==
    /\ guiPc = "idle"
    /\ generation < MaxGeneration
    /\ guiOp' = op
    /\ wasStreaming' = streamingActive
    /\ already' = FALSE
    /\ streamingActive' = FALSE
    /\ RequestStop
    /\ guiPc' = "join"
    /\ UNCHANGED <<pendingRows, pendingCount, dropped, drainGen>>
    /\ UNCHANGED <<hand, final, cancelled, nextRow, wCap>>
    /\ UNCHANGED <<table, cap, retention, lastReported, mode, pendingFiles>>
    /\ UNCHANGED <<pauseVars, sinkVars, ghostVars>>

(* Variant of Flushes: the posted events are left alone.                   *)
FlushesNever == FALSE

(* Only StopAndKeepRows flushes, and only while the sink is active.        *)
Flushes == guiOp = "stop" /\ active

(* waitForFinished returns.                                                *)
Join ==
    /\ guiPc = "join"
    /\ WorkerJoined
    /\ guiPc' = IF Flushes THEN "flush" ELSE "finish"
    /\ UNCHANGED <<guiOp, wasStreaming, already, drainGen>>
    /\ UNCHANGED <<queueVars, pauseVars, sinkVars, workerVars, modelVars, ghostVars>>

(* sendPostedEvents has emptied the queue: DrainNow, the backstop.         *)
DrainNow ==
    /\ guiPc = "flush"
    /\ events = <<>>
    /\ StartDrain(generation, "backstop")
    /\ UNCHANGED <<generation, active, events, guiOp, wasStreaming, already>>
    /\ UNCHANGED <<queueVars, pauseVars, workerVars, modelVars, ghostVars>>

(* QtStreamingLogSink::DropPendingBatches.                                 *)
DropPendingBatches ==
    /\ BumpGeneration
    /\ active' = FALSE
    /\ drainScheduled' = FALSE
    /\ paused' = FALSE
    /\ pausedRows' = <<>>
    /\ pausedAny' = FALSE
    /\ pendingRows' = <<>>
    /\ pendingCount' = 0
    /\ stopped' = FALSE
    /\ dropped' = 0
    /\ wpc' = Woken(wpc)

(* Variants of EmitCancelled: no compensation; no deduplication.           *)
EmitCancelledNever == FALSE
EmitCancelledAlways == wasStreaming

(* The compensating streamingFinished(Cancelled), and what MainWindow does *)
(* with it.                                                                *)
EmitCancelled == wasStreaming /\ ~already

(* Variant of AppendPaused: the buffer is taken and thrown away.           *)
AppendPausedNot == UNCHANGED <<table, lost>>

(* TakePausedBuffer, or Resume's swap, and mModel->AppendBatch.            *)
AppendPaused == IF pausedAny THEN AppendBatch(pausedRows) ELSE UNCHANGED <<table, lost>>

(* The end of StopAndKeepRows: the paused rows join the table, the rest is *)
(* dropped.                                                                *)
FinishStop ==
    /\ guiPc = "finish"
    /\ guiOp = "stop"
    /\ AppendPaused
    /\ DropPendingBatches
    /\ emitted' = IF EmitCancelled THEN emitted + 1 ELSE emitted
    /\ mode' = IF EmitCancelled THEN "Idle" ELSE mode
    /\ pendingFiles' = IF EmitCancelled THEN 0 ELSE pendingFiles
    /\ guiPc' = "idle"
    /\ guiOp' = "none"
    /\ UNCHANGED <<events, pausedDrops, wasStreaming, already, drainGen>>
    /\ UNCHANGED <<hand, final, cancelled, nextRow, wCap, stopToken>>
    /\ UNCHANGED <<cap, retention, streamingActive, lastReported>>
    /\ UNCHANGED <<sess, base, shutdownDrops, reportedLoss>>

(* The end of Reset: the table is cleared, and the caller clears the mode  *)
(* and the queue of files.  An open goes on to BeginStreaming.             *)
FinishReset ==
    /\ guiPc = "finish"
    /\ guiOp # "stop"
    /\ DropPendingBatches
    /\ table' = <<>>
    /\ lastReported' = 0
    /\ lost' = NoLoss
    /\ nextRow' = 1
    /\ base' = sess + 1
    /\ emitted' = IF EmitCancelled THEN emitted + 1 ELSE emitted
    /\ mode' = "Idle"
    /\ pendingFiles' = 0
    /\ guiPc' = IF guiOp = "new" THEN "idle" ELSE "begin"
    /\ guiOp' = IF guiOp = "new" THEN "none" ELSE guiOp
    /\ UNCHANGED <<events, pausedDrops, wasStreaming, already, drainGen>>
    /\ UNCHANGED <<hand, final, cancelled, wCap, stopToken>>
    /\ UNCHANGED <<cap, retention, streamingActive>>
    /\ UNCHANGED <<sess, shutdownDrops, reportedLoss>>

(* The open continues in the same handler: the source opens, or it fails   *)
(* and the session stays empty.                                            *)
BeginOpen ==
    /\ guiPc = "begin"
    /\ guiPc' = "idle"
    /\ guiOp' = "none"
    /\ \/ /\ BeginStreaming(IF guiOp = "openLive" THEN "LiveTail" ELSE "Static")
          /\ UNCHANGED <<events, retention, pendingFiles>>
       \/ UNCHANGED <<queueVars, pauseVars, sinkVars, workerVars, modelVars, ghostVars>>
    /\ UNCHANGED <<wasStreaming, already, drainGen>>

-----------------------------------------------------------------------------
(* The GUI thread: the commands of the user.                               *)

(* NewSession; StartStreamingOpenQueue when it replaces the session (a     *)
(* static open tears a live session down whatever the mode of the open);   *)
(* OpenLogStreamFromPath, OpenNetworkStream, OpenStdinStream.              *)
ReplaceSession(op) ==
    /\ op \in Commands
    /\ op \in {"new", "openStatic", "openLive"}
    /\ StartTeardown(op)

(* MainWindow::StopStream; the action is shown for live sessions only.     *)
StopStream ==
    /\ "stop" \in Commands
    /\ mode = "LiveTail"
    /\ streamingActive
    /\ StartTeardown("stop")

(* StartStreamingOpenQueue that appends, with a parse in flight: the file  *)
(* waits in the queue.                                                     *)
QueueFile ==
    /\ guiPc = "idle"
    /\ "append" \in Commands
    /\ mode # "LiveTail"
    /\ streamingActive
    /\ pendingFiles < MaxFiles
    /\ pendingFiles' = pendingFiles + 1
    /\ UNCHANGED <<table, cap, retention, streamingActive, lastReported, mode>>
    /\ UNCHANGED <<queueVars, pauseVars, sinkVars, workerVars, guiVars, ghostVars>>

(* The same with no parse in flight: rows already loaded make the session  *)
(* Static before the file is opened, and its rows are then appended.       *)
AppendFile ==
    /\ guiPc = "idle"
    /\ "append" \in Commands
    /\ mode # "LiveTail"
    /\ ~streamingActive
    /\ LET armed == IF mode = "Idle" /\ table # <<>> THEN "Static" ELSE mode
       IN  \/ /\ armed = "Idle"
              /\ BeginStreaming("Static")
              /\ UNCHANGED <<events, retention, pendingFiles>>
           \/ /\ armed = "Static"
              /\ AppendStreaming
              /\ mode' = armed
              /\ UNCHANGED <<events, retention, pendingFiles, lastReported>>
           \/ /\ mode' = armed
              /\ UNCHANGED <<table, cap, retention, streamingActive, lastReported, pendingFiles>>
              /\ UNCHANGED <<queueVars, pauseVars, sinkVars, workerVars, ghostVars>>
    /\ UNCHANGED guiVars

(* TogglePauseStream(true), QtStreamingLogSink::Pause.                     *)
Pause ==
    /\ guiPc = "idle"
    /\ "pause" \in Commands
    /\ mode = "LiveTail"
    /\ streamingActive
    /\ ~paused
    /\ paused' = TRUE
    /\ UNCHANGED <<pausedRows, pausedAny, pausedDrops>>
    /\ UNCHANGED <<queueVars, sinkVars, workerVars, modelVars, guiVars, ghostVars>>

(* TogglePauseStream(false), QtStreamingLogSink::Resume: take the buffer   *)
(* and clear mPaused under one lock, then append synchronously.            *)
Resume ==
    /\ guiPc = "idle"
    /\ "pause" \in Commands
    /\ mode = "LiveTail"
    /\ streamingActive
    /\ paused
    /\ paused' = FALSE
    /\ pausedRows' = <<>>
    /\ pausedAny' = FALSE
    /\ AppendPaused
    /\ UNCHANGED <<pausedDrops, cap, retention, streamingActive, lastReported, mode, pendingFiles>>
    /\ UNCHANGED <<sess, base, shutdownDrops, emitted, reportedLoss>>
    /\ UNCHANGED <<queueVars, sinkVars, workerVars, guiVars>>

(* ApplyStreamingRetention and LogModel::SetRetentionCap: a running parse  *)
(* trims the table, a paused one trims the paused buffer.  Trimming the    *)
(* buffer to nothing may leave a trailing batch without rows.              *)
SetRetentionCap(c) ==
    LET maxBuffered == IF Len(table) >= c THEN 0 ELSE c - Len(table)
        trimmed == LastN(pausedRows, maxBuffered)
    IN  /\ guiPc = "idle"
        /\ "cap" \in Commands
        /\ retention' = c
        /\ cap' = c
        /\ \/ /\ ~streamingActive
              /\ UNCHANGED <<table, pausedRows, pausedAny, lost>>
           \/ /\ streamingActive
              /\ ~paused
              /\ table' = LastN(table, c)
              /\ lost' = Lose("evicted", RowsOf(table) \ RowsOf(LastN(table, c)))
              /\ UNCHANGED <<pausedRows, pausedAny>>
           \/ /\ streamingActive
              /\ paused
              /\ pausedRows' = trimmed
              /\ pausedAny' \in (IF pausedRows # <<>> /\ trimmed = <<>> THEN BOOLEAN ELSE {pausedAny})
              /\ lost' = Lose("trimmed", RowsOf(pausedRows) \ RowsOf(trimmed))
              /\ UNCHANGED table
        /\ UNCHANGED <<paused, pausedDrops, streamingActive, lastReported, mode, pendingFiles>>
        /\ UNCHANGED <<sess, base, shutdownDrops, emitted, reportedLoss>>
        /\ UNCHANGED <<queueVars, sinkVars, workerVars, guiVars>>

-----------------------------------------------------------------------------
Dispatch == DispatchDrain \/ DispatchStaleFinished \/ DispatchFinished \/ ChainNextFile

Teardown == Join \/ DrainNow \/ FinishStop \/ FinishReset \/ BeginOpen

User ==
    \/ \E op \in AllCommands : ReplaceSession(op)
    \/ StopStream
    \/ QueueFile
    \/ AppendFile
    \/ Pause
    \/ Resume
    \/ \E c \in Caps : SetRetentionCap(c)

Init ==
    /\ pendingRows = <<>> /\ pendingCount = 0 /\ stopped = FALSE /\ dropped = 0
    /\ generation = 0 /\ active = FALSE /\ drainScheduled = FALSE /\ events = <<>>
    /\ paused = FALSE /\ pausedRows = <<>> /\ pausedAny = FALSE /\ pausedDrops = 0
    /\ wpc = "none" /\ hand = <<>> /\ final = FALSE /\ cancelled = FALSE
    /\ nextRow = 1 /\ wCap = 0 /\ stopToken = FALSE
    /\ table = <<>> /\ cap = DefaultRetention /\ retention = DefaultRetention
    /\ streamingActive = FALSE /\ lastReported = 0 /\ mode = "Idle" /\ pendingFiles = 0
    /\ guiPc = "idle" /\ guiOp = "none" /\ wasStreaming = FALSE /\ already = FALSE /\ drainGen = 0
    /\ sess = 0 /\ base = 1 /\ lost = NoLoss /\ shutdownDrops = 0 /\ emitted = 0 /\ reportedLoss = 0

Next == Worker \/ Dispatch \/ DrainGeneration \/ Teardown \/ User

(* The worker is a running thread, so it makes progress, and once it is    *)
(* told to stop its parse ends.  The GUI thread runs its handlers to the   *)
(* end and its event loop dispatches what is posted.  The user need not    *)
(* do anything, and an endless source need not end.                        *)
Fairness ==
    /\ WF_vars(OnBatch \/ BufferWhilePaused \/ WaitEnqueue \/ ScheduleDrain
               \/ PostDrain \/ OnFinished \/ WorkerExit)
    /\ WF_vars(stopToken /\ \E k \in BatchSizes \union {0} : ParseFinish(k))
    /\ WF_vars(Dispatch)
    /\ WF_vars(DrainGeneration)
    /\ WF_vars(Teardown)

Spec == Init /\ [][Next]_vars

FairSpec == Spec /\ Fairness

-----------------------------------------------------------------------------
(* Properties.                                                             *)

FlagsTypeOK ==
    /\ stopped \in BOOLEAN
    /\ active \in BOOLEAN
    /\ drainScheduled \in BOOLEAN
    /\ paused \in BOOLEAN
    /\ pausedAny \in BOOLEAN
    /\ final \in BOOLEAN
    /\ cancelled \in BOOLEAN
    /\ stopToken \in BOOLEAN
    /\ streamingActive \in BOOLEAN
    /\ wasStreaming \in BOOLEAN
    /\ already \in BOOLEAN

RowsTypeOK ==
    /\ pendingRows \in Seq(Row)
    /\ pausedRows \in Seq(Row)
    /\ hand \in Seq(Row)
    /\ table \in Seq(Row)
    /\ lost \in [Causes -> SUBSET Row]

CountersTypeOK ==
    /\ pendingCount \in Nat /\ dropped \in Nat /\ pausedDrops \in Nat
    /\ generation \in Nat /\ drainGen \in Nat
    /\ nextRow \in Nat \ {0} /\ wCap \in Nat /\ cap \in Nat /\ retention \in Nat \ {0}
    /\ lastReported \in Nat /\ pendingFiles \in Nat
    /\ sess \in Nat /\ base \in Nat \ {0} /\ emitted \in Nat
    /\ shutdownDrops \in Nat /\ reportedLoss \in Nat

EventsTypeOK == events \in Seq(Event)

ControlTypeOK ==
    /\ wpc \in Workers
    /\ mode \in {"Idle", "Static", "LiveTail"}
    /\ guiPc \in GuiStates
    /\ guiOp \in {"none", "stop", "new", "openStatic", "openLive"}

(* Every variable has its type: counters never go below zero, a lambda is  *)
(* one of the two kinds the sink posts, and every position of the two      *)
(* threads is one the code has.                                            *)
TypeOK ==
    /\ FlagsTypeOK
    /\ RowsTypeOK
    /\ CountersTypeOK
    /\ ControlTypeOK
    /\ EventsTypeOK

Draining == guiPc \in {"draining", "flushDraining", "backstop"}

LiveDrain(i) == events[i].kind = "drain" /\ events[i].gen = generation

LiveFinish(i) == events[i].kind = "finished" /\ events[i].gen = generation

(* No lost wakeup towards the GUI: while a batch is queued, the worker is  *)
(* about to post a drain, a drain of this generation is posted, or the GUI *)
(* thread is about to empty the queue; and mDrainScheduled is set only     *)
(* while such a drain is on its way, so OnBatch may rely on it.            *)
DrainPromise ==
    /\ pendingCount > 0 =>
         \/ wpc \in {"sched", "post"}
         \/ \E i \in DOMAIN events : LiveDrain(i)
         \/ Draining
    /\ drainScheduled => wpc = "post" \/ \E i \in DOMAIN events : LiveDrain(i)

(* No lost wakeup towards the worker: WaitEnqueue sleeps only while the    *)
(* queue is full and not stopped, and the queue never exceeds its bound.   *)
ParkedMeansFull ==
    /\ wpc = "parked" => pendingCount = Capacity /\ ~stopped
    /\ pendingCount <= Capacity

(* No wakeup is lost between the worker and the GUI thread, in either      *)
(* direction (BoundedBatchQueue, OnBatch and DrainGeneration).             *)
NoLostWakeup == ParkedMeansFull /\ DrainPromise

(* EndStreaming comes after the last row: when the finished lambda of this *)
(* generation is posted, every queued batch is covered by a drain posted   *)
(* before it, or being carried out.                                        *)
FinishedAfterDelivery ==
    \A i \in DOMAIN events :
        LiveFinish(i) =>
            \/ pendingCount = 0
            \/ Draining
            \/ \E j \in 1 .. i - 1 : LiveDrain(j)

(* streamingFinished is emitted once per session, and by the time the GUI  *)
(* thread is idle again with no session running: the compensation of the   *)
(* teardown and the lambda of OnFinished never both fire, nor neither.     *)
ExactlyOneFinish ==
    /\ emitted <= 1
    /\ streamingActive => emitted = 0
    /\ guiPc = "idle" /\ sess > 0 /\ ~streamingActive => emitted = 1

(* Rows and signals never cross sessions: what is queued, buffered or held *)
(* by the worker belongs to the current parse, the table holds rows of the *)
(* sessions since it was last cleared, and the finished lambda that passes *)
(* the generation check is the one of the current parse.                   *)
SessionIsolation ==
    /\ RowsOf(pendingRows) \union RowsOf(pausedRows) \union RowsOf(hand) \subseteq [s : {sess}, n : Nat]
    /\ RowsOf(table) \subseteq [s : base .. sess, n : Nat]
    /\ \A i \in DOMAIN events : events[i].gen = generation => events[i].s = sess /\ active

Lost == UNION {lost[c] : c \in Causes}

(* No silent loss: every row the current parse produced is in the table,   *)
(* on its way to it, or was given up at one of the five places where the   *)
(* code drops rows; Stop in particular discards none it could still show.  *)
NoSilentLoss ==
    \A i \in 1 .. nextRow - 1 :
        [s |-> sess, n |-> i] \in
            RowsOf(table) \union RowsOf(pendingRows) \union RowsOf(pausedRows) \union RowsOf(hand) \union Lost

(* Arm clears the queue; a new parse of the file chain is only armed when  *)
(* there is nothing in it, so the clear discards no row.                   *)
ArmFindsQueueEmpty == [][sess' # sess => pendingCount = 0]_vars

(* The table shows the rows in the order of the files and, in each, in the *)
(* order they were parsed.                                                 *)
InOrder ==
    \A i \in 1 .. Len(table) - 1 :
        \/ table[i].s < table[i + 1].s
        \/ table[i].s = table[i + 1].s /\ table[i].n < table[i + 1].n

(* The three steps of AppendBatch (collapse, evict, append) amount to      *)
(* keeping the newest cap rows of the concatenation, for the two batches   *)
(* that can reach it.                                                      *)
EvictionIsSuffix ==
    \A rows \in {pendingRows, pausedRows} :
        AppendRows(table, rows) = IF cap = 0 THEN table \o rows ELSE LastN(table \o rows, cap)

(* PausedDropCount, shown in the status bar, is the number of rows that    *)
(* overflowed the paused buffer in this session.                           *)
PausedDropsExact == streamingActive => pausedDrops = Cardinality(lost["overflow"])

(* A teardown never deadlocks against the worker it waits for.             *)
TeardownCompletes == (guiPc # "idle") ~> (guiPc = "idle")

(* A queued batch is taken off the queue, and a parked worker goes on.     *)
RowsAreTaken == (pendingCount > 0) ~> (pendingCount = 0)

(* Both threads go on under fair scheduling: BeginStreaming's teardown is  *)
(* not stuck behind a parked worker, nor a batch behind a coalesced drain. *)
SinkProgress == TeardownCompletes /\ RowsAreTaken
====
