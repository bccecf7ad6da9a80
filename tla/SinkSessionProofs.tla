------------------------- MODULE SinkSessionProofs --------------------------
(***************************************************************************)
(* Proofs that the sessions of StreamingSink stay apart: rows and signals  *)
(* never cross from one parse to the next, a session ends exactly once,    *)
(* and every row a parse produces is accounted for.                        *)
(*                                                                         *)
(* What the user sees depends on where the two threads are.  The inductive *)
(* invariant says so: mActive covers the worker's parse and its signal     *)
(* (ActiveWorker, FinishCount), a teardown goes on only after the worker   *)
(* joined (Joined), and the finished lambda is the last one (FinishCloses). *)
(***************************************************************************)
EXTENDS StreamingSinkProofs

(* OnBatch consumes the batch it was called with.                          *)
HandEmpty == wpc \notin {"onBatch", "pausedLock", "enqueue", "parked"} => hand = <<>>

(* Until the worker has posted its end, the sink is active.                *)
ActiveWorker == wpc \notin {"none", "finishing", "done"} => active

(* A teardown beyond its join has no worker.                               *)
Joined ==
    guiPc \in {"flush", "flushDraining", "backstop", "finish", "begin"} => WorkerJoined

(* Only StopAndKeepRows flushes, and a live session queues no files.       *)
StopOnly ==
    /\ guiPc \in {"flush", "flushDraining", "backstop"} => guiOp = "stop"
    /\ guiOp = "stop" \/ guiPc = "begin" \/ mode = "LiveTail" => pendingFiles = 0
    /\ guiPc \in {"idle", "draining"} => guiOp = "none"
    /\ guiPc \notin {"idle", "draining"} => guiOp # "none"

(* Nothing is posted behind the live finished lambda.                      *)
FinishCloses == \A i \in DOMAIN events : LiveFinish(i) => i = Len(events)

(* A live lambda is of the current parse.                                  *)
EventsCurrent ==
    \A i \in DOMAIN events : events[i].gen = generation => events[i].s = sess /\ active

(* The signal of a session is still to come exactly while the sink is      *)
(* active, and a teardown knows whether it has to send it.                 *)
FinishCount ==
    /\ emitted = IF active \/ sess = 0 THEN 0 ELSE 1
    /\ sess = 0 => ~active
    /\ guiPc \in {"idle", "draining"} => (streamingActive <=> active)
    /\ guiPc \notin {"idle", "draining"} => ~streamingActive
    /\ guiPc = "join" => ~already /\ (wasStreaming <=> active) /\ (guiOp = "stop" => active)
    /\ guiPc \in {"flush", "flushDraining", "backstop"} => wasStreaming
    /\ guiPc = "finish" => (wasStreaming /\ ~already <=> active)
    /\ guiPc = "begin" => ~active

(* A sink that is not active has nothing queued.                           *)
IdleQueueEmpty == /\ ~active => pendingCount = 0
                  /\ pendingCount = 0 => pendingRows = <<>>

OfSession(rows) == \A i \in DOMAIN rows : rows[i].s = sess

(* The rows on their way belong to the current parse.                      *)
RowsCurrent == OfSession(pendingRows) /\ OfSession(pausedRows) /\ OfSession(hand)

(* The rows shown came since the table was cleared, and a table that was   *)
(* cleared for the next parse has nothing on its way to it.                *)
TableCurrent ==
    /\ \A i \in DOMAIN table : table[i].s \in base .. sess
    /\ \/ base <= sess
       \/ base = sess + 1 /\ ~active /\ pendingRows = <<>> /\ pausedRows = <<>> /\ hand = <<>> /\ table = <<>>
    /\ sess = 0 => base = 1

Sessions ==
    /\ Wakeups
    /\ HandEmpty /\ ActiveWorker /\ Joined /\ StopOnly
    /\ FinishCloses /\ EventsCurrent /\ FinishCount /\ IdleQueueEmpty
    /\ RowsCurrent /\ TableCurrent
-----------------------------------------------------------------------------
(* The control of the two threads.                                         *)

(* Every way out of OnBatch gives the batch away.                          *)
LEMMA HandStep ==
    ASSUME TypeOK, HandEmpty, [Next]_vars
    PROVE  HandEmpty'
<1> USE ConstantsAssumption DEF queueVars, pauseVars, sinkVars, workerVars, modelVars, guiVars, ghostVars
<1>1. ASSUME NEW k \in BatchSizes, ParseBatch(k) PROVE HandEmpty'
  BY <1>1 DEF TypeOK, ControlTypeOK, Workers, HandEmpty, ParseBatch
<1>2. ASSUME NEW k \in BatchSizes \union {0}, ParseFinish(k) PROVE HandEmpty'
  BY <1>2 DEF TypeOK, ControlTypeOK, Workers, HandEmpty, ParseFinish
<1>3. CASE ParseThrow
  BY <1>3 DEF TypeOK, ControlTypeOK, Workers, HandEmpty, ParseThrow
<1>4. CASE OnBatch
  BY <1>4 DEF TypeOK, ControlTypeOK, Workers, HandEmpty, OnBatch
<1>5. CASE BufferWhilePaused
  BY <1>5 DEF TypeOK, ControlTypeOK, Workers, HandEmpty, BufferWhilePaused, CountDrops, AfterBatch
<1>6. CASE WaitEnqueue
  BY <1>6 DEF TypeOK, ControlTypeOK, Workers, HandEmpty, WaitEnqueue, Enqueued, AfterBatch
<1>7. CASE ScheduleDrain
  BY <1>7 DEF TypeOK, ControlTypeOK, Workers, HandEmpty, ScheduleDrain, AfterSchedule, AfterBatch
<1>8. CASE PostDrain
  BY <1>8 DEF TypeOK, ControlTypeOK, Workers, HandEmpty, PostDrain, AfterBatch
<1>9. CASE OnFinished
  BY <1>9 DEF TypeOK, ControlTypeOK, Workers, HandEmpty, OnFinished
<1>10. CASE WorkerExit
  BY <1>10 DEF TypeOK, ControlTypeOK, Workers, HandEmpty, WorkerExit
<1>11. CASE DispatchDrain
  BY <1>11 DEF TypeOK, ControlTypeOK, Workers, HandEmpty, DispatchDrain, StartDrain
<1>12. CASE DrainGeneration
  BY <1>12 DEF TypeOK, ControlTypeOK, Workers, HandEmpty, DrainGeneration, Woken, AfterDrain
<1>13. CASE DispatchStaleFinished
  BY <1>13 DEF TypeOK, ControlTypeOK, Workers, HandEmpty, DispatchStaleFinished
<1>14. CASE DispatchFinished
  BY <1>14 DEF TypeOK, ControlTypeOK, Workers, HandEmpty, DispatchFinished, EndStreaming, StreamingErrors
<1>15. CASE ChainNextFile
  BY <1>15 DEF TypeOK, ControlTypeOK, Workers, HandEmpty, ChainNextFile, AppendStreaming, Arm, BumpGeneration
<1>16. CASE Join
  BY <1>16 DEF TypeOK, ControlTypeOK, Workers, HandEmpty, Join
<1>17. CASE DrainNow
  BY <1>17 DEF TypeOK, ControlTypeOK, Workers, HandEmpty, DrainNow, StartDrain
<1>18. CASE FinishStop
  BY <1>18 DEF TypeOK, ControlTypeOK, Workers, HandEmpty, FinishStop, DropPendingBatches, BumpGeneration, Woken, AppendPaused
<1>19. CASE FinishReset
  BY <1>19 DEF TypeOK, ControlTypeOK, Workers, HandEmpty, FinishReset, DropPendingBatches, BumpGeneration, Woken
<1>20. CASE BeginOpen
  BY <1>20 DEF TypeOK, ControlTypeOK, Workers, HandEmpty, BeginOpen, BeginStreaming, StartingCap, Arm, BumpGeneration
<1>21. ASSUME NEW op \in AllCommands, ReplaceSession(op) PROVE HandEmpty'
  BY <1>21 DEF TypeOK, ControlTypeOK, Workers, HandEmpty, ReplaceSession, StartTeardown, RequestStop, Woken
<1>22. CASE StopStream
  BY <1>22 DEF TypeOK, ControlTypeOK, Workers, HandEmpty, StopStream, StartTeardown, RequestStop, Woken
<1>23. CASE QueueFile
  BY <1>23 DEF TypeOK, ControlTypeOK, Workers, HandEmpty, QueueFile
<1>24. CASE AppendFile
  BY <1>24 DEF TypeOK, ControlTypeOK, Workers, HandEmpty, AppendFile, AppendStreaming, BeginStreaming, StartingCap, Arm, BumpGeneration
<1>25. CASE Pause
  BY <1>25 DEF TypeOK, ControlTypeOK, Workers, HandEmpty, Pause
<1>26. CASE Resume
  BY <1>26 DEF TypeOK, ControlTypeOK, Workers, HandEmpty, Resume, AppendPaused
<1>27. ASSUME NEW c \in Caps, SetRetentionCap(c) PROVE HandEmpty'
  BY <1>27 DEF TypeOK, ControlTypeOK, Workers, HandEmpty, SetRetentionCap
<1>28. CASE UNCHANGED vars
  BY <1>28 DEF TypeOK, ControlTypeOK, Workers, HandEmpty, vars
<1> QED
  BY <1>1, <1>2, <1>3, <1>4, <1>5, <1>6, <1>7, <1>8, <1>9, <1>10, <1>11, <1>12, <1>13, <1>14, <1>15, <1>16, <1>17, <1>18, <1>19, <1>20, <1>21, <1>22, <1>23, <1>24, <1>25, <1>26, <1>27, <1>28 DEF Next, Worker, Dispatch, Teardown, User

(* What runs on the GUI thread is told by guiPc and guiOp.                 *)
LEMMA StopOnlyStep ==
    ASSUME TypeOK, StopOnly, [Next]_vars
    PROVE  StopOnly'
<1> USE ConstantsAssumption DEF queueVars, pauseVars, sinkVars, workerVars, modelVars, guiVars, ghostVars
<1>1. ASSUME NEW k \in BatchSizes, ParseBatch(k) PROVE StopOnly'
  BY <1>1 DEF TypeOK, ControlTypeOK, CountersTypeOK, FlagsTypeOK, StopOnly, GuiStates, Flushes, ParseBatch
<1>2. ASSUME NEW k \in BatchSizes \union {0}, ParseFinish(k) PROVE StopOnly'
  BY <1>2 DEF TypeOK, ControlTypeOK, CountersTypeOK, FlagsTypeOK, StopOnly, GuiStates, Flushes, ParseFinish
<1>3. CASE ParseThrow
  BY <1>3 DEF TypeOK, ControlTypeOK, CountersTypeOK, FlagsTypeOK, StopOnly, GuiStates, Flushes, ParseThrow
<1>4. CASE OnBatch
  BY <1>4 DEF TypeOK, ControlTypeOK, CountersTypeOK, FlagsTypeOK, StopOnly, GuiStates, Flushes, OnBatch
<1>5. CASE BufferWhilePaused
  BY <1>5 DEF TypeOK, ControlTypeOK, CountersTypeOK, FlagsTypeOK, StopOnly, GuiStates, Flushes, BufferWhilePaused, CountDrops, AfterBatch
<1>6. CASE WaitEnqueue
  BY <1>6 DEF TypeOK, ControlTypeOK, CountersTypeOK, FlagsTypeOK, StopOnly, GuiStates, Flushes, WaitEnqueue, Enqueued, AfterBatch
<1>7. CASE ScheduleDrain
  BY <1>7 DEF TypeOK, ControlTypeOK, CountersTypeOK, FlagsTypeOK, StopOnly, GuiStates, Flushes, ScheduleDrain, AfterSchedule, AfterBatch
<1>8. CASE PostDrain
  BY <1>8 DEF TypeOK, ControlTypeOK, CountersTypeOK, FlagsTypeOK, StopOnly, GuiStates, Flushes, PostDrain, AfterBatch
<1>9. CASE OnFinished
  BY <1>9 DEF TypeOK, ControlTypeOK, CountersTypeOK, FlagsTypeOK, StopOnly, GuiStates, Flushes, OnFinished
<1>10. CASE WorkerExit
  BY <1>10 DEF TypeOK, ControlTypeOK, CountersTypeOK, FlagsTypeOK, StopOnly, GuiStates, Flushes, WorkerExit
<1>11. CASE DispatchDrain
  BY <1>11 DEF TypeOK, ControlTypeOK, CountersTypeOK, FlagsTypeOK, StopOnly, GuiStates, Flushes, DispatchDrain, StartDrain
<1>12. CASE DrainGeneration
  BY <1>12 DEF TypeOK, ControlTypeOK, CountersTypeOK, FlagsTypeOK, StopOnly, GuiStates, Flushes, DrainGeneration, Woken, AfterDrain
<1>13. CASE DispatchStaleFinished
  BY <1>13 DEF TypeOK, ControlTypeOK, CountersTypeOK, FlagsTypeOK, StopOnly, GuiStates, Flushes, DispatchStaleFinished
<1>14. CASE DispatchFinished
  BY <1>14 DEF TypeOK, ControlTypeOK, CountersTypeOK, FlagsTypeOK, StopOnly, GuiStates, Flushes, DispatchFinished, EndStreaming, StreamingErrors
<1>15. CASE ChainNextFile
  BY <1>15 DEF TypeOK, ControlTypeOK, CountersTypeOK, FlagsTypeOK, StopOnly, GuiStates, Flushes, ChainNextFile, AppendStreaming, Arm, BumpGeneration
<1>16. CASE Join
  BY <1>16 DEF TypeOK, ControlTypeOK, CountersTypeOK, FlagsTypeOK, StopOnly, GuiStates, Flushes, Join
<1>17. CASE DrainNow
  BY <1>17 DEF TypeOK, ControlTypeOK, CountersTypeOK, FlagsTypeOK, StopOnly, GuiStates, Flushes, DrainNow, StartDrain
<1>18. CASE FinishStop
  BY <1>18 DEF TypeOK, ControlTypeOK, CountersTypeOK, FlagsTypeOK, StopOnly, GuiStates, Flushes, FinishStop, DropPendingBatches, BumpGeneration, Woken, AppendPaused
<1>19. CASE FinishReset
  BY <1>19 DEF TypeOK, ControlTypeOK, CountersTypeOK, FlagsTypeOK, StopOnly, GuiStates, Flushes, FinishReset, DropPendingBatches, BumpGeneration, Woken
<1>20. CASE BeginOpen
  BY <1>20 DEF TypeOK, ControlTypeOK, CountersTypeOK, FlagsTypeOK, StopOnly, GuiStates, Flushes, BeginOpen, BeginStreaming, StartingCap, Arm, BumpGeneration
<1>21. ASSUME NEW op \in AllCommands, ReplaceSession(op) PROVE StopOnly'
  BY <1>21 DEF TypeOK, ControlTypeOK, CountersTypeOK, FlagsTypeOK, StopOnly, GuiStates, Flushes, ReplaceSession, StartTeardown, RequestStop, Woken
<1>22. CASE StopStream
  BY <1>22 DEF TypeOK, ControlTypeOK, CountersTypeOK, FlagsTypeOK, StopOnly, GuiStates, Flushes, StopStream, StartTeardown, RequestStop, Woken
<1>23. CASE QueueFile
  BY <1>23 DEF TypeOK, ControlTypeOK, CountersTypeOK, FlagsTypeOK, StopOnly, GuiStates, Flushes, QueueFile
<1>24. CASE AppendFile
  BY <1>24 DEF TypeOK, ControlTypeOK, CountersTypeOK, FlagsTypeOK, StopOnly, GuiStates, Flushes, AppendFile, AppendStreaming, BeginStreaming, StartingCap, Arm, BumpGeneration
<1>25. CASE Pause
  BY <1>25 DEF TypeOK, ControlTypeOK, CountersTypeOK, FlagsTypeOK, StopOnly, GuiStates, Flushes, Pause
<1>26. CASE Resume
  BY <1>26 DEF TypeOK, ControlTypeOK, CountersTypeOK, FlagsTypeOK, StopOnly, GuiStates, Flushes, Resume, AppendPaused
<1>27. ASSUME NEW c \in Caps, SetRetentionCap(c) PROVE StopOnly'
  BY <1>27 DEF TypeOK, ControlTypeOK, CountersTypeOK, FlagsTypeOK, StopOnly, GuiStates, Flushes, SetRetentionCap
<1>28. CASE UNCHANGED vars
  BY <1>28 DEF TypeOK, ControlTypeOK, CountersTypeOK, FlagsTypeOK, StopOnly, GuiStates, Flushes, vars
<1> QED
  BY <1>1, <1>2, <1>3, <1>4, <1>5, <1>6, <1>7, <1>8, <1>9, <1>10, <1>11, <1>12, <1>13, <1>14, <1>15, <1>16, <1>17, <1>18, <1>19, <1>20, <1>21, <1>22, <1>23, <1>24, <1>25, <1>26, <1>27, <1>28 DEF Next, Worker, Dispatch, Teardown, User

(* Nothing starts a worker during a teardown.                              *)
LEMMA JoinedStep ==
    ASSUME TypeOK, StopOnly, Joined, [Next]_vars
    PROVE  Joined'
<1> USE ConstantsAssumption DEF queueVars, pauseVars, sinkVars, workerVars, modelVars, guiVars, ghostVars
<1>1. ASSUME NEW k \in BatchSizes, ParseBatch(k) PROVE Joined'
  BY <1>1 DEF TypeOK, ControlTypeOK, CountersTypeOK, FlagsTypeOK, Joined, StopOnly, WorkerJoined, GuiStates, Flushes, ParseBatch
<1>2. ASSUME NEW k \in BatchSizes \union {0}, ParseFinish(k) PROVE Joined'
  BY <1>2 DEF TypeOK, ControlTypeOK, CountersTypeOK, FlagsTypeOK, Joined, StopOnly, WorkerJoined, GuiStates, Flushes, ParseFinish
<1>3. CASE ParseThrow
  BY <1>3 DEF TypeOK, ControlTypeOK, CountersTypeOK, FlagsTypeOK, Joined, StopOnly, WorkerJoined, GuiStates, Flushes, ParseThrow
<1>4. CASE OnBatch
  BY <1>4 DEF TypeOK, ControlTypeOK, CountersTypeOK, FlagsTypeOK, Joined, StopOnly, WorkerJoined, GuiStates, Flushes, OnBatch
<1>5. CASE BufferWhilePaused
  BY <1>5 DEF TypeOK, ControlTypeOK, CountersTypeOK, FlagsTypeOK, Joined, StopOnly, WorkerJoined, GuiStates, Flushes, BufferWhilePaused, CountDrops, AfterBatch
<1>6. CASE WaitEnqueue
  BY <1>6 DEF TypeOK, ControlTypeOK, CountersTypeOK, FlagsTypeOK, Joined, StopOnly, WorkerJoined, GuiStates, Flushes, WaitEnqueue, Enqueued, AfterBatch
<1>7. CASE ScheduleDrain
  BY <1>7 DEF TypeOK, ControlTypeOK, CountersTypeOK, FlagsTypeOK, Joined, StopOnly, WorkerJoined, GuiStates, Flushes, ScheduleDrain, AfterSchedule, AfterBatch
<1>8. CASE PostDrain
  BY <1>8 DEF TypeOK, ControlTypeOK, CountersTypeOK, FlagsTypeOK, Joined, StopOnly, WorkerJoined, GuiStates, Flushes, PostDrain, AfterBatch
<1>9. CASE OnFinished
  BY <1>9 DEF TypeOK, ControlTypeOK, CountersTypeOK, FlagsTypeOK, Joined, StopOnly, WorkerJoined, GuiStates, Flushes, OnFinished
<1>10. CASE WorkerExit
  BY <1>10 DEF TypeOK, ControlTypeOK, CountersTypeOK, FlagsTypeOK, Joined, StopOnly, WorkerJoined, GuiStates, Flushes, WorkerExit
<1>11. CASE DispatchDrain
  BY <1>11 DEF TypeOK, ControlTypeOK, CountersTypeOK, FlagsTypeOK, Joined, StopOnly, WorkerJoined, GuiStates, Flushes, DispatchDrain, StartDrain
<1>12. CASE DrainGeneration
  BY <1>12 DEF TypeOK, ControlTypeOK, CountersTypeOK, FlagsTypeOK, Joined, StopOnly, WorkerJoined, GuiStates, Flushes, DrainGeneration, Woken, AfterDrain
<1>13. CASE DispatchStaleFinished
  BY <1>13 DEF TypeOK, ControlTypeOK, CountersTypeOK, FlagsTypeOK, Joined, StopOnly, WorkerJoined, GuiStates, Flushes, DispatchStaleFinished
<1>14. CASE DispatchFinished
  BY <1>14 DEF TypeOK, ControlTypeOK, CountersTypeOK, FlagsTypeOK, Joined, StopOnly, WorkerJoined, GuiStates, Flushes, DispatchFinished, EndStreaming, StreamingErrors
<1>15. CASE ChainNextFile
  BY <1>15 DEF TypeOK, ControlTypeOK, CountersTypeOK, FlagsTypeOK, Joined, StopOnly, WorkerJoined, GuiStates, Flushes, ChainNextFile, AppendStreaming, Arm, BumpGeneration
<1>16. CASE Join
  BY <1>16 DEF TypeOK, ControlTypeOK, CountersTypeOK, FlagsTypeOK, Joined, StopOnly, WorkerJoined, GuiStates, Flushes, Join
<1>17. CASE DrainNow
  BY <1>17 DEF TypeOK, ControlTypeOK, CountersTypeOK, FlagsTypeOK, Joined, StopOnly, WorkerJoined, GuiStates, Flushes, DrainNow, StartDrain
<1>18. CASE FinishStop
  BY <1>18 DEF TypeOK, ControlTypeOK, CountersTypeOK, FlagsTypeOK, Joined, StopOnly, WorkerJoined, GuiStates, Flushes, FinishStop, DropPendingBatches, BumpGeneration, Woken, AppendPaused
<1>19. CASE FinishReset
  BY <1>19 DEF TypeOK, ControlTypeOK, CountersTypeOK, FlagsTypeOK, Joined, StopOnly, WorkerJoined, GuiStates, Flushes, FinishReset, DropPendingBatches, BumpGeneration, Woken
<1>20. CASE BeginOpen
  BY <1>20 DEF TypeOK, ControlTypeOK, CountersTypeOK, FlagsTypeOK, Joined, StopOnly, WorkerJoined, GuiStates, Flushes, BeginOpen, BeginStreaming, StartingCap, Arm, BumpGeneration
<1>21. ASSUME NEW op \in AllCommands, ReplaceSession(op) PROVE Joined'
  BY <1>21 DEF TypeOK, ControlTypeOK, CountersTypeOK, FlagsTypeOK, Joined, StopOnly, WorkerJoined, GuiStates, Flushes, ReplaceSession, StartTeardown, RequestStop, Woken
<1>22. CASE StopStream
  BY <1>22 DEF TypeOK, ControlTypeOK, CountersTypeOK, FlagsTypeOK, Joined, StopOnly, WorkerJoined, GuiStates, Flushes, StopStream, StartTeardown, RequestStop, Woken
<1>23. CASE QueueFile
  BY <1>23 DEF TypeOK, ControlTypeOK, CountersTypeOK, FlagsTypeOK, Joined, StopOnly, WorkerJoined, GuiStates, Flushes, QueueFile
<1>24. CASE AppendFile
  BY <1>24 DEF TypeOK, ControlTypeOK, CountersTypeOK, FlagsTypeOK, Joined, StopOnly, WorkerJoined, GuiStates, Flushes, AppendFile, AppendStreaming, BeginStreaming, StartingCap, Arm, BumpGeneration
<1>25. CASE Pause
  BY <1>25 DEF TypeOK, ControlTypeOK, CountersTypeOK, FlagsTypeOK, Joined, StopOnly, WorkerJoined, GuiStates, Flushes, Pause
<1>26. CASE Resume
  BY <1>26 DEF TypeOK, ControlTypeOK, CountersTypeOK, FlagsTypeOK, Joined, StopOnly, WorkerJoined, GuiStates, Flushes, Resume, AppendPaused
<1>27. ASSUME NEW c \in Caps, SetRetentionCap(c) PROVE Joined'
  BY <1>27 DEF TypeOK, ControlTypeOK, CountersTypeOK, FlagsTypeOK, Joined, StopOnly, WorkerJoined, GuiStates, Flushes, SetRetentionCap
<1>28. CASE UNCHANGED vars
  BY <1>28 DEF TypeOK, ControlTypeOK, CountersTypeOK, FlagsTypeOK, Joined, StopOnly, WorkerJoined, GuiStates, Flushes, vars
<1> QED
  BY <1>1, <1>2, <1>3, <1>4, <1>5, <1>6, <1>7, <1>8, <1>9, <1>10, <1>11, <1>12, <1>13, <1>14, <1>15, <1>16, <1>17, <1>18, <1>19, <1>20, <1>21, <1>22, <1>23, <1>24, <1>25, <1>26, <1>27, <1>28 DEF Next, Worker, Dispatch, Teardown, User

(* Only a parse that posted its end, or was joined, is deactivated.        *)
LEMMA ActiveStep ==
    ASSUME TypeOK, FinishIsLast, Joined, ActiveWorker, [Next]_vars
    PROVE  ActiveWorker'
<1> USE ConstantsAssumption DEF queueVars, pauseVars, sinkVars, workerVars, modelVars, guiVars, ghostVars
<1>1. ASSUME NEW k \in BatchSizes, ParseBatch(k) PROVE ActiveWorker'
  BY <1>1 DEF TypeOK, ControlTypeOK, CountersTypeOK, FlagsTypeOK, ActiveWorker, Joined, WorkerJoined, Workers, ParseBatch
<1>2. ASSUME NEW k \in BatchSizes \union {0}, ParseFinish(k) PROVE ActiveWorker'
  BY <1>2 DEF TypeOK, ControlTypeOK, CountersTypeOK, FlagsTypeOK, ActiveWorker, Joined, WorkerJoined, Workers, ParseFinish
<1>3. CASE ParseThrow
  BY <1>3 DEF TypeOK, ControlTypeOK, CountersTypeOK, FlagsTypeOK, ActiveWorker, Joined, WorkerJoined, Workers, ParseThrow
<1>4. CASE OnBatch
  BY <1>4 DEF TypeOK, ControlTypeOK, CountersTypeOK, FlagsTypeOK, ActiveWorker, Joined, WorkerJoined, Workers, OnBatch
<1>5. CASE BufferWhilePaused
  BY <1>5 DEF TypeOK, ControlTypeOK, CountersTypeOK, FlagsTypeOK, ActiveWorker, Joined, WorkerJoined, Workers, BufferWhilePaused, CountDrops, AfterBatch
<1>6. CASE WaitEnqueue
  BY <1>6 DEF TypeOK, ControlTypeOK, CountersTypeOK, FlagsTypeOK, ActiveWorker, Joined, WorkerJoined, Workers, WaitEnqueue, Enqueued, AfterBatch
<1>7. CASE ScheduleDrain
  BY <1>7 DEF TypeOK, ControlTypeOK, CountersTypeOK, FlagsTypeOK, ActiveWorker, Joined, WorkerJoined, Workers, ScheduleDrain, AfterSchedule, AfterBatch
<1>8. CASE PostDrain
  BY <1>8 DEF TypeOK, ControlTypeOK, CountersTypeOK, FlagsTypeOK, ActiveWorker, Joined, WorkerJoined, Workers, PostDrain, AfterBatch
<1>9. CASE OnFinished
  BY <1>9 DEF TypeOK, ControlTypeOK, CountersTypeOK, FlagsTypeOK, ActiveWorker, Joined, WorkerJoined, Workers, OnFinished
<1>10. CASE WorkerExit
  BY <1>10 DEF TypeOK, ControlTypeOK, CountersTypeOK, FlagsTypeOK, ActiveWorker, Joined, WorkerJoined, Workers, WorkerExit
<1>11. CASE DispatchDrain
  BY <1>11 DEF TypeOK, ControlTypeOK, CountersTypeOK, FlagsTypeOK, ActiveWorker, Joined, WorkerJoined, Workers, DispatchDrain, StartDrain
<1>12. CASE DrainGeneration
  BY <1>12 DEF TypeOK, ControlTypeOK, CountersTypeOK, FlagsTypeOK, ActiveWorker, Joined, WorkerJoined, Workers, DrainGeneration, Woken, AfterDrain
<1>13. CASE DispatchStaleFinished
  BY <1>13 DEF TypeOK, ControlTypeOK, CountersTypeOK, FlagsTypeOK, ActiveWorker, Joined, WorkerJoined, Workers, DispatchStaleFinished
<1>14. CASE DispatchFinished
  <2>1. 1 \in DOMAIN events /\ LiveFinish(1)
    BY <1>14, Popped DEF TypeOK, EventsTypeOK, DispatchFinished, LiveFinish
  <2>2. wpc \in {"finishing", "done"} /\ wpc' = wpc
    BY <1>14, <2>1 DEF FinishIsLast, DispatchFinished
  <2> QED BY <2>2 DEF ActiveWorker
<1>15. CASE ChainNextFile
  BY <1>15 DEF TypeOK, ControlTypeOK, CountersTypeOK, FlagsTypeOK, ActiveWorker, Joined, WorkerJoined, Workers, ChainNextFile, AppendStreaming, Arm, BumpGeneration
<1>16. CASE Join
  BY <1>16 DEF TypeOK, ControlTypeOK, CountersTypeOK, FlagsTypeOK, ActiveWorker, Joined, WorkerJoined, Workers, Join
<1>17. CASE DrainNow
  BY <1>17 DEF TypeOK, ControlTypeOK, CountersTypeOK, FlagsTypeOK, ActiveWorker, Joined, WorkerJoined, Workers, DrainNow, StartDrain
<1>18. CASE FinishStop
  BY <1>18 DEF TypeOK, ControlTypeOK, CountersTypeOK, FlagsTypeOK, ActiveWorker, Joined, WorkerJoined, Workers, FinishStop, DropPendingBatches, BumpGeneration, Woken, AppendPaused
<1>19. CASE FinishReset
  BY <1>19 DEF TypeOK, ControlTypeOK, CountersTypeOK, FlagsTypeOK, ActiveWorker, Joined, WorkerJoined, Workers, FinishReset, DropPendingBatches, BumpGeneration, Woken
<1>20. CASE BeginOpen
  BY <1>20 DEF TypeOK, ControlTypeOK, CountersTypeOK, FlagsTypeOK, ActiveWorker, Joined, WorkerJoined, Workers, BeginOpen, BeginStreaming, StartingCap, Arm, BumpGeneration
<1>21. ASSUME NEW op \in AllCommands, ReplaceSession(op) PROVE ActiveWorker'
  BY <1>21 DEF TypeOK, ControlTypeOK, CountersTypeOK, FlagsTypeOK, ActiveWorker, Joined, WorkerJoined, Workers, ReplaceSession, StartTeardown, RequestStop, Woken
<1>22. CASE StopStream
  BY <1>22 DEF TypeOK, ControlTypeOK, CountersTypeOK, FlagsTypeOK, ActiveWorker, Joined, WorkerJoined, Workers, StopStream, StartTeardown, RequestStop, Woken
<1>23. CASE QueueFile
  BY <1>23 DEF TypeOK, ControlTypeOK, CountersTypeOK, FlagsTypeOK, ActiveWorker, Joined, WorkerJoined, Workers, QueueFile
<1>24. CASE AppendFile
  BY <1>24 DEF TypeOK, ControlTypeOK, CountersTypeOK, FlagsTypeOK, ActiveWorker, Joined, WorkerJoined, Workers, AppendFile, AppendStreaming, BeginStreaming, StartingCap, Arm, BumpGeneration
<1>25. CASE Pause
  BY <1>25 DEF TypeOK, ControlTypeOK, CountersTypeOK, FlagsTypeOK, ActiveWorker, Joined, WorkerJoined, Workers, Pause
<1>26. CASE Resume
  BY <1>26 DEF TypeOK, ControlTypeOK, CountersTypeOK, FlagsTypeOK, ActiveWorker, Joined, WorkerJoined, Workers, Resume, AppendPaused
<1>27. ASSUME NEW c \in Caps, SetRetentionCap(c) PROVE ActiveWorker'
  BY <1>27 DEF TypeOK, ControlTypeOK, CountersTypeOK, FlagsTypeOK, ActiveWorker, Joined, WorkerJoined, Workers, SetRetentionCap
<1>28. CASE UNCHANGED vars
  BY <1>28 DEF TypeOK, ControlTypeOK, CountersTypeOK, FlagsTypeOK, ActiveWorker, Joined, WorkerJoined, Workers, vars
<1> QED
  BY <1>1, <1>2, <1>3, <1>4, <1>5, <1>6, <1>7, <1>8, <1>9, <1>10, <1>11, <1>12, <1>13, <1>14, <1>15, <1>16, <1>17, <1>18, <1>19, <1>20, <1>21, <1>22, <1>23, <1>24, <1>25, <1>26, <1>27, <1>28 DEF Next, Worker, Dispatch, Teardown, User

(* The finished lambda is posted last.                                     *)
LEMMA ClosesStep ==
    ASSUME TypeOK, EventsPast, FinishIsLast, FinishCloses, [Next]_vars
    PROVE  FinishCloses'
<1> USE ConstantsAssumption DEF queueVars, pauseVars, sinkVars, workerVars, modelVars, guiVars, ghostVars
<1>1. ASSUME NEW k \in BatchSizes, ParseBatch(k) PROVE FinishCloses'
  BY <1>1 DEF TypeOK, EventsTypeOK, Event, CountersTypeOK, FinishIsLast, FinishCloses, LiveFinish, ParseBatch
<1>2. ASSUME NEW k \in BatchSizes \union {0}, ParseFinish(k) PROVE FinishCloses'
  BY <1>2 DEF TypeOK, EventsTypeOK, Event, CountersTypeOK, FinishIsLast, FinishCloses, LiveFinish, ParseFinish
<1>3. CASE ParseThrow
  BY <1>3 DEF TypeOK, EventsTypeOK, Event, CountersTypeOK, FinishIsLast, FinishCloses, LiveFinish, ParseThrow
<1>4. CASE OnBatch
  BY <1>4 DEF TypeOK, EventsTypeOK, Event, CountersTypeOK, FinishIsLast, FinishCloses, LiveFinish, OnBatch
<1>5. CASE BufferWhilePaused
  BY <1>5 DEF TypeOK, EventsTypeOK, Event, CountersTypeOK, FinishIsLast, FinishCloses, LiveFinish, BufferWhilePaused, CountDrops, AfterBatch
<1>6. CASE WaitEnqueue
  BY <1>6 DEF TypeOK, EventsTypeOK, Event, CountersTypeOK, FinishIsLast, FinishCloses, LiveFinish, WaitEnqueue, Enqueued, AfterBatch
<1>7. CASE ScheduleDrain
  BY <1>7 DEF TypeOK, EventsTypeOK, Event, CountersTypeOK, FinishIsLast, FinishCloses, LiveFinish, ScheduleDrain, AfterSchedule, AfterBatch
<1>8. CASE PostDrain
  BY <1>8, Posted DEF TypeOK, EventsTypeOK, Event, CountersTypeOK, FinishIsLast, FinishCloses, LiveFinish, PostDrain, AfterBatch
<1>9. CASE OnFinished
  BY <1>9, Posted DEF TypeOK, EventsTypeOK, Event, CountersTypeOK, FinishIsLast, FinishCloses, LiveFinish, OnFinished
<1>10. CASE WorkerExit
  BY <1>10 DEF TypeOK, EventsTypeOK, Event, CountersTypeOK, FinishIsLast, FinishCloses, LiveFinish, WorkerExit
<1>11. CASE DispatchDrain
  BY <1>11, Popped DEF TypeOK, EventsTypeOK, Event, CountersTypeOK, FinishIsLast, FinishCloses, LiveFinish, DispatchDrain, StartDrain
<1>12. CASE DrainGeneration
  BY <1>12 DEF TypeOK, EventsTypeOK, Event, CountersTypeOK, FinishIsLast, FinishCloses, LiveFinish, DrainGeneration, Woken, AfterDrain
<1>13. CASE DispatchStaleFinished
  BY <1>13, Popped DEF TypeOK, EventsTypeOK, Event, CountersTypeOK, FinishIsLast, FinishCloses, LiveFinish, DispatchStaleFinished
<1>14. CASE DispatchFinished
  BY <1>14, Popped DEF TypeOK, EventsTypeOK, Event, CountersTypeOK, FinishIsLast, FinishCloses, LiveFinish, DispatchFinished, EndStreaming, StreamingErrors
<1>15. CASE ChainNextFile
  <2>1. BumpGeneration /\ (events' = events \/ (events # <<>> /\ events' = Tail(events)))
    BY <1>15 DEF ChainNextFile, AppendStreaming, Arm
  <2> QED
    BY <2>1, Bumped DEF FinishCloses, LiveFinish
<1>16. CASE Join
  BY <1>16 DEF TypeOK, EventsTypeOK, Event, CountersTypeOK, FinishIsLast, FinishCloses, LiveFinish, Join
<1>17. CASE DrainNow
  BY <1>17 DEF TypeOK, EventsTypeOK, Event, CountersTypeOK, FinishIsLast, FinishCloses, LiveFinish, DrainNow, StartDrain
<1>18. CASE FinishStop
  <2>1. BumpGeneration /\ (events' = events \/ (events # <<>> /\ events' = Tail(events)))
    BY <1>18 DEF FinishStop, DropPendingBatches, Woken, AppendPaused
  <2> QED
    BY <2>1, Bumped DEF FinishCloses, LiveFinish
<1>19. CASE FinishReset
  <2>1. BumpGeneration /\ (events' = events \/ (events # <<>> /\ events' = Tail(events)))
    BY <1>19 DEF FinishReset, DropPendingBatches, Woken
  <2> QED
    BY <2>1, Bumped DEF FinishCloses, LiveFinish
<1>20. CASE BeginOpen
  <2>1. CASE BumpGeneration /\ events' = events
    BY <2>1, Bumped DEF FinishCloses, LiveFinish
  <2>2. CASE UNCHANGED <<sinkVars, workerVars, sess>>
    BY <2>2 DEF FinishCloses, LiveFinish
  <2> QED
    BY <1>20, <2>1, <2>2 DEF BeginOpen, BeginStreaming, StartingCap, Arm
<1>21. ASSUME NEW op \in AllCommands, ReplaceSession(op) PROVE FinishCloses'
  BY <1>21 DEF TypeOK, EventsTypeOK, Event, CountersTypeOK, FinishIsLast, FinishCloses, LiveFinish, ReplaceSession, StartTeardown, RequestStop, Woken
<1>22. CASE StopStream
  BY <1>22 DEF TypeOK, EventsTypeOK, Event, CountersTypeOK, FinishIsLast, FinishCloses, LiveFinish, StopStream, StartTeardown, RequestStop, Woken
<1>23. CASE QueueFile
  BY <1>23 DEF TypeOK, EventsTypeOK, Event, CountersTypeOK, FinishIsLast, FinishCloses, LiveFinish, QueueFile
<1>24. CASE AppendFile
  <2>1. CASE BumpGeneration /\ events' = events
    BY <2>1, Bumped DEF FinishCloses, LiveFinish
  <2>2. CASE UNCHANGED <<sinkVars, workerVars, sess>>
    BY <2>2 DEF FinishCloses, LiveFinish
  <2> QED
    BY <1>24, <2>1, <2>2 DEF AppendFile, AppendStreaming, BeginStreaming, StartingCap, Arm
<1>25. CASE Pause
  BY <1>25 DEF TypeOK, EventsTypeOK, Event, CountersTypeOK, FinishIsLast, FinishCloses, LiveFinish, Pause
<1>26. CASE Resume
  BY <1>26 DEF TypeOK, EventsTypeOK, Event, CountersTypeOK, FinishIsLast, FinishCloses, LiveFinish, Resume, AppendPaused
<1>27. ASSUME NEW c \in Caps, SetRetentionCap(c) PROVE FinishCloses'
  BY <1>27 DEF TypeOK, EventsTypeOK, Event, CountersTypeOK, FinishIsLast, FinishCloses, LiveFinish, SetRetentionCap
<1>28. CASE UNCHANGED vars
  BY <1>28 DEF TypeOK, EventsTypeOK, Event, CountersTypeOK, FinishIsLast, FinishCloses, LiveFinish, vars
<1> QED
  BY <1>1, <1>2, <1>3, <1>4, <1>5, <1>6, <1>7, <1>8, <1>9, <1>10, <1>11, <1>12, <1>13, <1>14, <1>15, <1>16, <1>17, <1>18, <1>19, <1>20, <1>21, <1>22, <1>23, <1>24, <1>25, <1>26, <1>27, <1>28 DEF Next, Worker, Dispatch, Teardown, User

(* Only the current parse posts, and a new one is a new generation.        *)
LEMMA CurrentStep ==
    ASSUME TypeOK, EventsPast, FinishCloses, ActiveWorker, EventsCurrent, [Next]_vars
    PROVE  EventsCurrent'
<1> USE ConstantsAssumption DEF queueVars, pauseVars, sinkVars, workerVars, modelVars, guiVars, ghostVars
<1>1. ASSUME NEW k \in BatchSizes, ParseBatch(k) PROVE EventsCurrent'
  BY <1>1 DEF TypeOK, EventsTypeOK, Event, CountersTypeOK, ActiveWorker, EventsCurrent, ParseBatch
<1>2. ASSUME NEW k \in BatchSizes \union {0}, ParseFinish(k) PROVE EventsCurrent'
  BY <1>2 DEF TypeOK, EventsTypeOK, Event, CountersTypeOK, ActiveWorker, EventsCurrent, ParseFinish
<1>3. CASE ParseThrow
  BY <1>3 DEF TypeOK, EventsTypeOK, Event, CountersTypeOK, ActiveWorker, EventsCurrent, ParseThrow
<1>4. CASE OnBatch
  BY <1>4 DEF TypeOK, EventsTypeOK, Event, CountersTypeOK, ActiveWorker, EventsCurrent, OnBatch
<1>5. CASE BufferWhilePaused
  BY <1>5 DEF TypeOK, EventsTypeOK, Event, CountersTypeOK, ActiveWorker, EventsCurrent, BufferWhilePaused, CountDrops, AfterBatch
<1>6. CASE WaitEnqueue
  BY <1>6 DEF TypeOK, EventsTypeOK, Event, CountersTypeOK, ActiveWorker, EventsCurrent, WaitEnqueue, Enqueued, AfterBatch
<1>7. CASE ScheduleDrain
  BY <1>7 DEF TypeOK, EventsTypeOK, Event, CountersTypeOK, ActiveWorker, EventsCurrent, ScheduleDrain, AfterSchedule, AfterBatch
<1>8. CASE PostDrain
  BY <1>8, Posted DEF TypeOK, EventsTypeOK, Event, CountersTypeOK, ActiveWorker, EventsCurrent, PostDrain, AfterBatch
<1>9. CASE OnFinished
  BY <1>9, Posted DEF TypeOK, EventsTypeOK, Event, CountersTypeOK, ActiveWorker, EventsCurrent, OnFinished
<1>10. CASE WorkerExit
  BY <1>10 DEF TypeOK, EventsTypeOK, Event, CountersTypeOK, ActiveWorker, EventsCurrent, WorkerExit
<1>11. CASE DispatchDrain
  BY <1>11, Popped DEF TypeOK, EventsTypeOK, Event, CountersTypeOK, ActiveWorker, EventsCurrent, DispatchDrain, StartDrain
<1>12. CASE DrainGeneration
  BY <1>12 DEF TypeOK, EventsTypeOK, Event, CountersTypeOK, ActiveWorker, EventsCurrent, DrainGeneration, Woken, AfterDrain
<1>13. CASE DispatchStaleFinished
  BY <1>13, Popped DEF TypeOK, EventsTypeOK, Event, CountersTypeOK, ActiveWorker, EventsCurrent, DispatchStaleFinished
<1>14. CASE DispatchFinished
  <2>1. 1 \in DOMAIN events /\ LiveFinish(1) /\ Len(events') = Len(events) - 1 /\ DOMAIN events' = 1 .. Len(events')
    BY <1>14, Popped DEF TypeOK, EventsTypeOK, DispatchFinished, LiveFinish
  <2>2. DOMAIN events' = {}
    BY <2>1 DEF FinishCloses
  <2> QED BY <2>2 DEF EventsCurrent
<1>15. CASE ChainNextFile
  <2>1. BumpGeneration /\ (events' = events \/ (events # <<>> /\ events' = Tail(events)))
    BY <1>15 DEF ChainNextFile, AppendStreaming, Arm
  <2> QED
    BY <2>1, Bumped DEF EventsCurrent
<1>16. CASE Join
  BY <1>16 DEF TypeOK, EventsTypeOK, Event, CountersTypeOK, ActiveWorker, EventsCurrent, Join
<1>17. CASE DrainNow
  BY <1>17 DEF TypeOK, EventsTypeOK, Event, CountersTypeOK, ActiveWorker, EventsCurrent, DrainNow, StartDrain
<1>18. CASE FinishStop
  <2>1. BumpGeneration /\ (events' = events \/ (events # <<>> /\ events' = Tail(events)))
    BY <1>18 DEF FinishStop, DropPendingBatches, Woken, AppendPaused
  <2> QED
    BY <2>1, Bumped DEF EventsCurrent
<1>19. CASE FinishReset
  <2>1. BumpGeneration /\ (events' = events \/ (events # <<>> /\ events' = Tail(events)))
    BY <1>19 DEF FinishReset, DropPendingBatches, Woken
  <2> QED
    BY <2>1, Bumped DEF EventsCurrent
<1>20. CASE BeginOpen
  <2>1. CASE BumpGeneration /\ events' = events
    BY <2>1, Bumped DEF EventsCurrent
  <2>2. CASE UNCHANGED <<sinkVars, workerVars, sess>>
    BY <2>2 DEF EventsCurrent
  <2> QED
    BY <1>20, <2>1, <2>2 DEF BeginOpen, BeginStreaming, StartingCap, Arm
<1>21. ASSUME NEW op \in AllCommands, ReplaceSession(op) PROVE EventsCurrent'
  BY <1>21 DEF TypeOK, EventsTypeOK, Event, CountersTypeOK, ActiveWorker, EventsCurrent, ReplaceSession, StartTeardown, RequestStop, Woken
<1>22. CASE StopStream
  BY <1>22 DEF TypeOK, EventsTypeOK, Event, CountersTypeOK, ActiveWorker, EventsCurrent, StopStream, StartTeardown, RequestStop, Woken
<1>23. CASE QueueFile
  BY <1>23 DEF TypeOK, EventsTypeOK, Event, CountersTypeOK, ActiveWorker, EventsCurrent, QueueFile
<1>24. CASE AppendFile
  <2>1. CASE BumpGeneration /\ events' = events
    BY <2>1, Bumped DEF EventsCurrent
  <2>2. CASE UNCHANGED <<sinkVars, workerVars, sess>>
    BY <2>2 DEF EventsCurrent
  <2> QED
    BY <1>24, <2>1, <2>2 DEF AppendFile, AppendStreaming, BeginStreaming, StartingCap, Arm
<1>25. CASE Pause
  BY <1>25 DEF TypeOK, EventsTypeOK, Event, CountersTypeOK, ActiveWorker, EventsCurrent, Pause
<1>26. CASE Resume
  BY <1>26 DEF TypeOK, EventsTypeOK, Event, CountersTypeOK, ActiveWorker, EventsCurrent, Resume, AppendPaused
<1>27. ASSUME NEW c \in Caps, SetRetentionCap(c) PROVE EventsCurrent'
  BY <1>27 DEF TypeOK, EventsTypeOK, Event, CountersTypeOK, ActiveWorker, EventsCurrent, SetRetentionCap
<1>28. CASE UNCHANGED vars
  BY <1>28 DEF TypeOK, EventsTypeOK, Event, CountersTypeOK, ActiveWorker, EventsCurrent, vars
<1> QED
  BY <1>1, <1>2, <1>3, <1>4, <1>5, <1>6, <1>7, <1>8, <1>9, <1>10, <1>11, <1>12, <1>13, <1>14, <1>15, <1>16, <1>17, <1>18, <1>19, <1>20, <1>21, <1>22, <1>23, <1>24, <1>25, <1>26, <1>27, <1>28 DEF Next, Worker, Dispatch, Teardown, User

(* Whoever ends the session sends its signal, and nobody sends it twice.   *)
LEMMA FinishCountStep ==
    ASSUME TypeOK, StopOnly, EventsCurrent, FinishCount, [Next]_vars
    PROVE  FinishCount'
<1> USE ConstantsAssumption DEF queueVars, pauseVars, sinkVars, workerVars, modelVars, guiVars, ghostVars
<1>1. ASSUME NEW k \in BatchSizes, ParseBatch(k) PROVE FinishCount'
  BY <1>1 DEF TypeOK, ControlTypeOK, CountersTypeOK, FlagsTypeOK, FinishCount, StopOnly, GuiStates, AllCommands, Flushes, EmitCancelled, ParseBatch
<1>2. ASSUME NEW k \in BatchSizes \union {0}, ParseFinish(k) PROVE FinishCount'
  BY <1>2 DEF TypeOK, ControlTypeOK, CountersTypeOK, FlagsTypeOK, FinishCount, StopOnly, GuiStates, AllCommands, Flushes, EmitCancelled, ParseFinish
<1>3. CASE ParseThrow
  BY <1>3 DEF TypeOK, ControlTypeOK, CountersTypeOK, FlagsTypeOK, FinishCount, StopOnly, GuiStates, AllCommands, Flushes, EmitCancelled, ParseThrow
<1>4. CASE OnBatch
  BY <1>4 DEF TypeOK, ControlTypeOK, CountersTypeOK, FlagsTypeOK, FinishCount, StopOnly, GuiStates, AllCommands, Flushes, EmitCancelled, OnBatch
<1>5. CASE BufferWhilePaused
  BY <1>5 DEF TypeOK, ControlTypeOK, CountersTypeOK, FlagsTypeOK, FinishCount, StopOnly, GuiStates, AllCommands, Flushes, EmitCancelled, BufferWhilePaused, CountDrops, AfterBatch
<1>6. CASE WaitEnqueue
  BY <1>6 DEF TypeOK, ControlTypeOK, CountersTypeOK, FlagsTypeOK, FinishCount, StopOnly, GuiStates, AllCommands, Flushes, EmitCancelled, WaitEnqueue, Enqueued, AfterBatch
<1>7. CASE ScheduleDrain
  BY <1>7 DEF TypeOK, ControlTypeOK, CountersTypeOK, FlagsTypeOK, FinishCount, StopOnly, GuiStates, AllCommands, Flushes, EmitCancelled, ScheduleDrain, AfterSchedule, AfterBatch
<1>8. CASE PostDrain
  BY <1>8 DEF TypeOK, ControlTypeOK, CountersTypeOK, FlagsTypeOK, FinishCount, StopOnly, GuiStates, AllCommands, Flushes, EmitCancelled, PostDrain, AfterBatch
<1>9. CASE OnFinished
  BY <1>9 DEF TypeOK, ControlTypeOK, CountersTypeOK, FlagsTypeOK, FinishCount, StopOnly, GuiStates, AllCommands, Flushes, EmitCancelled, OnFinished
<1>10. CASE WorkerExit
  BY <1>10 DEF TypeOK, ControlTypeOK, CountersTypeOK, FlagsTypeOK, FinishCount, StopOnly, GuiStates, AllCommands, Flushes, EmitCancelled, WorkerExit
<1>11. CASE DispatchDrain
  BY <1>11 DEF TypeOK, ControlTypeOK, CountersTypeOK, FlagsTypeOK, FinishCount, StopOnly, GuiStates, AllCommands, Flushes, EmitCancelled, DispatchDrain, StartDrain
<1>12. CASE DrainGeneration
  BY <1>12 DEF TypeOK, ControlTypeOK, CountersTypeOK, FlagsTypeOK, FinishCount, StopOnly, GuiStates, AllCommands, Flushes, EmitCancelled, DrainGeneration, Woken, AfterDrain
<1>13. CASE DispatchStaleFinished
  BY <1>13 DEF TypeOK, ControlTypeOK, CountersTypeOK, FlagsTypeOK, FinishCount, StopOnly, GuiStates, AllCommands, Flushes, EmitCancelled, DispatchStaleFinished
<1>14. CASE DispatchFinished
  <2>1. 1 \in DOMAIN events /\ events[1].gen = generation
    BY <1>14, Popped DEF TypeOK, EventsTypeOK, DispatchFinished
  <2>2. active /\ emitted = 0
    BY <2>1 DEF EventsCurrent, FinishCount
  <2>3. active' = FALSE /\ streamingActive' = FALSE /\ emitted' = 1
    BY <1>14, <2>2 DEF DispatchFinished, EndStreaming
  <2> QED BY <1>14, <2>2, <2>3 DEF FinishCount, DispatchFinished, TypeOK, ControlTypeOK, GuiStates
<1>15. CASE ChainNextFile
  BY <1>15 DEF TypeOK, ControlTypeOK, CountersTypeOK, FlagsTypeOK, FinishCount, StopOnly, GuiStates, AllCommands, Flushes, EmitCancelled, ChainNextFile, AppendStreaming, Arm, BumpGeneration
<1>16. CASE Join
  BY <1>16 DEF TypeOK, ControlTypeOK, CountersTypeOK, FlagsTypeOK, FinishCount, StopOnly, GuiStates, AllCommands, Flushes, EmitCancelled, Join
<1>17. CASE DrainNow
  BY <1>17 DEF TypeOK, ControlTypeOK, CountersTypeOK, FlagsTypeOK, FinishCount, StopOnly, GuiStates, AllCommands, Flushes, EmitCancelled, DrainNow, StartDrain
<1>18. CASE FinishStop
  BY <1>18 DEF TypeOK, ControlTypeOK, CountersTypeOK, FlagsTypeOK, FinishCount, StopOnly, GuiStates, AllCommands, Flushes, EmitCancelled, FinishStop, DropPendingBatches, BumpGeneration, Woken, AppendPaused
<1>19. CASE FinishReset
  BY <1>19 DEF TypeOK, ControlTypeOK, CountersTypeOK, FlagsTypeOK, FinishCount, StopOnly, GuiStates, AllCommands, Flushes, EmitCancelled, FinishReset, DropPendingBatches, BumpGeneration, Woken
<1>20. CASE BeginOpen
  BY <1>20 DEF TypeOK, ControlTypeOK, CountersTypeOK, FlagsTypeOK, FinishCount, StopOnly, GuiStates, AllCommands, Flushes, EmitCancelled, BeginOpen, BeginStreaming, StartingCap, Arm, BumpGeneration
<1>21. ASSUME NEW op \in AllCommands, ReplaceSession(op) PROVE FinishCount'
  BY <1>21 DEF TypeOK, ControlTypeOK, CountersTypeOK, FlagsTypeOK, FinishCount, StopOnly, GuiStates, AllCommands, Flushes, EmitCancelled, ReplaceSession, StartTeardown, RequestStop, Woken
<1>22. CASE StopStream
  BY <1>22 DEF TypeOK, ControlTypeOK, CountersTypeOK, FlagsTypeOK, FinishCount, StopOnly, GuiStates, AllCommands, Flushes, EmitCancelled, StopStream, StartTeardown, RequestStop, Woken
<1>23. CASE QueueFile
  BY <1>23 DEF TypeOK, ControlTypeOK, CountersTypeOK, FlagsTypeOK, FinishCount, StopOnly, GuiStates, AllCommands, Flushes, EmitCancelled, QueueFile
<1>24. CASE AppendFile
  BY <1>24 DEF TypeOK, ControlTypeOK, CountersTypeOK, FlagsTypeOK, FinishCount, StopOnly, GuiStates, AllCommands, Flushes, EmitCancelled, AppendFile, AppendStreaming, BeginStreaming, StartingCap, Arm, BumpGeneration
<1>25. CASE Pause
  BY <1>25 DEF TypeOK, ControlTypeOK, CountersTypeOK, FlagsTypeOK, FinishCount, StopOnly, GuiStates, AllCommands, Flushes, EmitCancelled, Pause
<1>26. CASE Resume
  BY <1>26 DEF TypeOK, ControlTypeOK, CountersTypeOK, FlagsTypeOK, FinishCount, StopOnly, GuiStates, AllCommands, Flushes, EmitCancelled, Resume, AppendPaused
<1>27. ASSUME NEW c \in Caps, SetRetentionCap(c) PROVE FinishCount'
  BY <1>27 DEF TypeOK, ControlTypeOK, CountersTypeOK, FlagsTypeOK, FinishCount, StopOnly, GuiStates, AllCommands, Flushes, EmitCancelled, SetRetentionCap
<1>28. CASE UNCHANGED vars
  BY <1>28 DEF TypeOK, ControlTypeOK, CountersTypeOK, FlagsTypeOK, FinishCount, StopOnly, GuiStates, AllCommands, Flushes, EmitCancelled, vars
<1> QED
  BY <1>1, <1>2, <1>3, <1>4, <1>5, <1>6, <1>7, <1>8, <1>9, <1>10, <1>11, <1>12, <1>13, <1>14, <1>15, <1>16, <1>17, <1>18, <1>19, <1>20, <1>21, <1>22, <1>23, <1>24, <1>25, <1>26, <1>27, <1>28 DEF Next, Worker, Dispatch, Teardown, User

(* Deactivating a sink leaves it empty.                                    *)
LEMMA QueueEmptyStep ==
    ASSUME TypeOK, FinishedAfterDelivery, ActiveWorker, IdleQueueEmpty, [Next]_vars
    PROVE  IdleQueueEmpty'
<1> USE ConstantsAssumption DEF queueVars, pauseVars, sinkVars, workerVars, modelVars, guiVars, ghostVars
<1>1. ASSUME NEW k \in BatchSizes, ParseBatch(k) PROVE IdleQueueEmpty'
  BY <1>1 DEF TypeOK, CountersTypeOK, ControlTypeOK, RowsTypeOK, ActiveWorker, IdleQueueEmpty, ParseBatch
<1>2. ASSUME NEW k \in BatchSizes \union {0}, ParseFinish(k) PROVE IdleQueueEmpty'
  BY <1>2 DEF TypeOK, CountersTypeOK, ControlTypeOK, RowsTypeOK, ActiveWorker, IdleQueueEmpty, ParseFinish
<1>3. CASE ParseThrow
  BY <1>3 DEF TypeOK, CountersTypeOK, ControlTypeOK, RowsTypeOK, ActiveWorker, IdleQueueEmpty, ParseThrow
<1>4. CASE OnBatch
  BY <1>4 DEF TypeOK, CountersTypeOK, ControlTypeOK, RowsTypeOK, ActiveWorker, IdleQueueEmpty, OnBatch
<1>5. CASE BufferWhilePaused
  BY <1>5 DEF TypeOK, CountersTypeOK, ControlTypeOK, RowsTypeOK, ActiveWorker, IdleQueueEmpty, BufferWhilePaused, CountDrops, AfterBatch
<1>6. CASE WaitEnqueue
  BY <1>6 DEF TypeOK, CountersTypeOK, ControlTypeOK, RowsTypeOK, ActiveWorker, IdleQueueEmpty, WaitEnqueue, Enqueued, AfterBatch
<1>7. CASE ScheduleDrain
  BY <1>7 DEF TypeOK, CountersTypeOK, ControlTypeOK, RowsTypeOK, ActiveWorker, IdleQueueEmpty, ScheduleDrain, AfterSchedule, AfterBatch
<1>8. CASE PostDrain
  BY <1>8 DEF TypeOK, CountersTypeOK, ControlTypeOK, RowsTypeOK, ActiveWorker, IdleQueueEmpty, PostDrain, AfterBatch
<1>9. CASE OnFinished
  BY <1>9 DEF TypeOK, CountersTypeOK, ControlTypeOK, RowsTypeOK, ActiveWorker, IdleQueueEmpty, OnFinished
<1>10. CASE WorkerExit
  BY <1>10 DEF TypeOK, CountersTypeOK, ControlTypeOK, RowsTypeOK, ActiveWorker, IdleQueueEmpty, WorkerExit
<1>11. CASE DispatchDrain
  BY <1>11 DEF TypeOK, CountersTypeOK, ControlTypeOK, RowsTypeOK, ActiveWorker, IdleQueueEmpty, DispatchDrain, StartDrain
<1>12. CASE DrainGeneration
  BY <1>12 DEF TypeOK, CountersTypeOK, ControlTypeOK, RowsTypeOK, ActiveWorker, IdleQueueEmpty, DrainGeneration, Woken, AfterDrain
<1>13. CASE DispatchStaleFinished
  BY <1>13 DEF TypeOK, CountersTypeOK, ControlTypeOK, RowsTypeOK, ActiveWorker, IdleQueueEmpty, DispatchStaleFinished
<1>14. CASE DispatchFinished
  <2>1. 1 \in DOMAIN events /\ LiveFinish(1) /\ ~Draining
    BY <1>14, Popped DEF TypeOK, EventsTypeOK, DispatchFinished, LiveFinish, Draining
  <2>2. pendingCount = 0
    BY <2>1 DEF FinishedAfterDelivery
  <2> QED BY <1>14, <2>2 DEF DispatchFinished, IdleQueueEmpty
<1>15. CASE ChainNextFile
  BY <1>15 DEF TypeOK, CountersTypeOK, ControlTypeOK, RowsTypeOK, ActiveWorker, IdleQueueEmpty, ChainNextFile, AppendStreaming, Arm, BumpGeneration
<1>16. CASE Join
  BY <1>16 DEF TypeOK, CountersTypeOK, ControlTypeOK, RowsTypeOK, ActiveWorker, IdleQueueEmpty, Join
<1>17. CASE DrainNow
  BY <1>17 DEF TypeOK, CountersTypeOK, ControlTypeOK, RowsTypeOK, ActiveWorker, IdleQueueEmpty, DrainNow, StartDrain
<1>18. CASE FinishStop
  BY <1>18 DEF TypeOK, CountersTypeOK, ControlTypeOK, RowsTypeOK, ActiveWorker, IdleQueueEmpty, FinishStop, DropPendingBatches, BumpGeneration, Woken, AppendPaused
<1>19. CASE FinishReset
  BY <1>19 DEF TypeOK, CountersTypeOK, ControlTypeOK, RowsTypeOK, ActiveWorker, IdleQueueEmpty, FinishReset, DropPendingBatches, BumpGeneration, Woken
<1>20. CASE BeginOpen
  BY <1>20 DEF TypeOK, CountersTypeOK, ControlTypeOK, RowsTypeOK, ActiveWorker, IdleQueueEmpty, BeginOpen, BeginStreaming, StartingCap, Arm, BumpGeneration
<1>21. ASSUME NEW op \in AllCommands, ReplaceSession(op) PROVE IdleQueueEmpty'
  BY <1>21 DEF TypeOK, CountersTypeOK, ControlTypeOK, RowsTypeOK, ActiveWorker, IdleQueueEmpty, ReplaceSession, StartTeardown, RequestStop, Woken
<1>22. CASE StopStream
  BY <1>22 DEF TypeOK, CountersTypeOK, ControlTypeOK, RowsTypeOK, ActiveWorker, IdleQueueEmpty, StopStream, StartTeardown, RequestStop, Woken
<1>23. CASE QueueFile
  BY <1>23 DEF TypeOK, CountersTypeOK, ControlTypeOK, RowsTypeOK, ActiveWorker, IdleQueueEmpty, QueueFile
<1>24. CASE AppendFile
  BY <1>24 DEF TypeOK, CountersTypeOK, ControlTypeOK, RowsTypeOK, ActiveWorker, IdleQueueEmpty, AppendFile, AppendStreaming, BeginStreaming, StartingCap, Arm, BumpGeneration
<1>25. CASE Pause
  BY <1>25 DEF TypeOK, CountersTypeOK, ControlTypeOK, RowsTypeOK, ActiveWorker, IdleQueueEmpty, Pause
<1>26. CASE Resume
  BY <1>26 DEF TypeOK, CountersTypeOK, ControlTypeOK, RowsTypeOK, ActiveWorker, IdleQueueEmpty, Resume, AppendPaused
<1>27. ASSUME NEW c \in Caps, SetRetentionCap(c) PROVE IdleQueueEmpty'
  BY <1>27 DEF TypeOK, CountersTypeOK, ControlTypeOK, RowsTypeOK, ActiveWorker, IdleQueueEmpty, SetRetentionCap
<1>28. CASE UNCHANGED vars
  BY <1>28 DEF TypeOK, CountersTypeOK, ControlTypeOK, RowsTypeOK, ActiveWorker, IdleQueueEmpty, vars
<1> QED
  BY <1>1, <1>2, <1>3, <1>4, <1>5, <1>6, <1>7, <1>8, <1>9, <1>10, <1>11, <1>12, <1>13, <1>14, <1>15, <1>16, <1>17, <1>18, <1>19, <1>20, <1>21, <1>22, <1>23, <1>24, <1>25, <1>26, <1>27, <1>28 DEF Next, Worker, Dispatch, Teardown, User

-----------------------------------------------------------------------------
(* The rows.                                                               *)

(* Trimming keeps rows that were there.                                    *)
LEMMA LastNFrom ==
    ASSUME NEW rows \in Seq(Row), NEW n \in Nat
    PROVE  \A i \in DOMAIN LastN(rows, n) : \E j \in DOMAIN rows : LastN(rows, n)[i] = rows[j]
<1>1. CASE Len(rows) > n
  <2>1. LastN(rows, n) = SubSeq(rows, Len(rows) - n + 1, Len(rows))
    BY <1>1 DEF LastN
  <2> TAKE i \in DOMAIN LastN(rows, n)
  <2>2. i \in 1 .. n /\ LastN(rows, n)[i] = rows[Len(rows) - n + i]
    BY <1>1, <2>1
  <2> QED BY <1>1, <2>2
<1>2. CASE ~(Len(rows) > n)
  BY <1>2 DEF LastN
<1> QED BY <1>1, <1>2

(* AppendBatch shows rows of the table and of the batch.                   *)
LEMMA AppendRowsFrom ==
    ASSUME NEW tab \in Seq(Row), NEW rows \in Seq(Row), cap \in Nat
    PROVE  \A i \in DOMAIN AppendRows(tab, rows) :
               \/ \E j \in DOMAIN tab : AppendRows(tab, rows)[i] = tab[j]
               \/ \E j \in DOMAIN rows : AppendRows(tab, rows)[i] = rows[j]
<1> DEFINE kept == IF cap # 0 THEN LastN(rows, cap) ELSE rows
           total == Len(tab) + Len(kept)
           excess == IF cap # 0 /\ total > cap THEN total - cap ELSE 0
           dropCount == IF excess < Len(tab) THEN excess ELSE Len(tab)
           old == SubSeq(tab, dropCount + 1, Len(tab))
<1>1. kept \in Seq(Row) /\ \A i \in DOMAIN kept : \E j \in DOMAIN rows : kept[i] = rows[j]
  BY LastNType, LastNFrom
<1>2. dropCount \in 0 .. Len(tab)
  BY <1>1
<1> HIDE DEF kept, dropCount
<1>3. old \in Seq(Row) /\ \A i \in DOMAIN old : \E j \in DOMAIN tab : old[i] = tab[j]
  <2>1. Len(old) = Len(tab) - dropCount /\ \A i \in 1 .. Len(old) : old[i] = tab[dropCount + i]
    BY <1>2
  <2>2. old \in Seq(Row) /\ DOMAIN old = 1 .. Len(old)
    BY <1>2
  <2>3. ASSUME NEW i \in DOMAIN old PROVE \E j \in DOMAIN tab : old[i] = tab[j]
    <3>1. dropCount + i \in DOMAIN tab /\ old[i] = tab[dropCount + i]
      BY <1>2, <2>1, <2>2
    <3> QED BY <3>1
  <2> QED BY <2>2, <2>3
<1>4. AppendRows(tab, rows) = old \o kept
  BY DEF AppendRows, kept, dropCount
<1> HIDE DEF old
<1> SUFFICES ASSUME NEW i \in DOMAIN AppendRows(tab, rows)
             PROVE  \/ \E j \in DOMAIN old : AppendRows(tab, rows)[i] = old[j]
                    \/ \E j \in DOMAIN kept : AppendRows(tab, rows)[i] = kept[j]
  BY <1>1, <1>3
<1>5. i \in 1 .. Len(old) + Len(kept)
  BY <1>1, <1>3, <1>4
<1>6. CASE i <= Len(old)
  <2>1. i \in DOMAIN old /\ (old \o kept)[i] = old[i]
    BY <1>1, <1>3, <1>5, <1>6
  <2> QED BY <1>4, <2>1
<1>7. CASE i > Len(old)
  <2>1. i - Len(old) \in DOMAIN kept /\ (old \o kept)[i] = kept[i - Len(old)]
    BY <1>1, <1>3, <1>5, <1>7
  <2> QED BY <1>4, <2>1
<1> QED BY <1>1, <1>3, <1>5, <1>6, <1>7

(* A concatenation is of the session when both parts are.                  *)
LEMMA OfSessionConcat ==
    ASSUME NEW a \in Seq(Row), NEW b \in Seq(Row), OfSession(a), OfSession(b)
    PROVE  OfSession(a \o b)
<1> SUFFICES ASSUME NEW i \in DOMAIN (a \o b) PROVE (a \o b)[i].s = sess
  BY DEF OfSession
<1>1. CASE i <= Len(a)
  BY <1>1 DEF OfSession
<1>2. CASE i > Len(a)
  BY <1>2 DEF OfSession
<1> QED BY <1>1, <1>2

(* Rows move on within the parse; Arm leaves none behind.                  *)
LEMMA RowsCurrentStep ==
    ASSUME TypeOK, RowsCurrent, [Next]_vars
    PROVE  RowsCurrent'
<1> USE ConstantsAssumption DEF queueVars, pauseVars, sinkVars, workerVars, modelVars, guiVars, ghostVars
<1>1. ASSUME NEW k \in BatchSizes, ParseBatch(k) PROVE RowsCurrent'
  <2>1. OfSession(NewRows(k))
    BY DEF OfSession, NewRows
  <2> QED BY <1>1, <2>1 DEF RowsCurrent, OfSession, ParseBatch
<1>2. ASSUME NEW k \in BatchSizes \union {0}, ParseFinish(k) PROVE RowsCurrent'
  <2>1. OfSession(NewRows(k))
    BY DEF OfSession, NewRows
  <2> QED BY <1>2, <2>1 DEF RowsCurrent, OfSession, ParseFinish
<1>3. CASE ParseThrow
  BY <1>3 DEF RowsCurrent, OfSession, ParseThrow
<1>4. CASE OnBatch
  BY <1>4 DEF RowsCurrent, OfSession, OnBatch
<1>5. CASE BufferWhilePaused
  <2> DEFINE all == pausedRows \o hand
             kept == IF wCap # 0 THEN LastN(all, wCap) ELSE all
  <2>1. all \in Seq(Row) /\ OfSession(all)
    BY OfSessionConcat DEF TypeOK, RowsTypeOK, RowsCurrent
  <2>2. OfSession(kept)
    <3>1. \A i \in DOMAIN LastN(all, wCap) : \E j \in DOMAIN all : LastN(all, wCap)[i] = all[j]
      BY <2>1, LastNFrom DEF TypeOK, CountersTypeOK
    <3> HIDE DEF all
    <3> QED BY <2>1, <3>1 DEF OfSession
  <2> HIDE DEF all, kept
  <2>3. /\ pausedRows' = kept \/ pausedRows' = pausedRows
        /\ hand' = <<>> \/ hand' = hand
        /\ pendingRows' = pendingRows /\ sess' = sess
    BY <1>5 DEF BufferWhilePaused, all, kept
  <2> QED BY <2>2, <2>3 DEF RowsCurrent, OfSession
<1>6. CASE WaitEnqueue
  <2>1. OfSession(pendingRows \o hand)
    BY OfSessionConcat DEF TypeOK, RowsTypeOK, RowsCurrent
  <2>2. /\ pendingRows' = pendingRows \o hand \/ pendingRows' = pendingRows
        /\ hand' = <<>> \/ hand' = hand
        /\ pausedRows' = pausedRows /\ sess' = sess
    BY <1>6 DEF WaitEnqueue, Enqueued
  <2> QED BY <2>1, <2>2 DEF RowsCurrent, OfSession
<1>7. CASE ScheduleDrain
  BY <1>7 DEF RowsCurrent, OfSession, ScheduleDrain, AfterSchedule, AfterBatch
<1>8. CASE PostDrain
  BY <1>8 DEF RowsCurrent, OfSession, PostDrain, AfterBatch
<1>9. CASE OnFinished
  BY <1>9 DEF RowsCurrent, OfSession, OnFinished
<1>10. CASE WorkerExit
  BY <1>10 DEF RowsCurrent, OfSession, WorkerExit
<1>11. CASE DispatchDrain
  BY <1>11 DEF RowsCurrent, OfSession, DispatchDrain, StartDrain
<1>12. CASE DrainGeneration
  BY <1>12 DEF RowsCurrent, OfSession, DrainGeneration, Woken, AfterDrain
<1>13. CASE DispatchStaleFinished
  BY <1>13 DEF RowsCurrent, OfSession, DispatchStaleFinished
<1>14. CASE DispatchFinished
  BY <1>14 DEF RowsCurrent, OfSession, DispatchFinished, EndStreaming, StreamingErrors
<1>15. CASE ChainNextFile
  BY <1>15 DEF RowsCurrent, OfSession, ChainNextFile, AppendStreaming, Arm, BumpGeneration
<1>16. CASE Join
  BY <1>16 DEF RowsCurrent, OfSession, Join
<1>17. CASE DrainNow
  BY <1>17 DEF RowsCurrent, OfSession, DrainNow, StartDrain
<1>18. CASE FinishStop
  BY <1>18 DEF RowsCurrent, OfSession, FinishStop, DropPendingBatches, BumpGeneration, Woken, AppendPaused
<1>19. CASE FinishReset
  BY <1>19 DEF RowsCurrent, OfSession, FinishReset, DropPendingBatches, BumpGeneration, Woken
<1>20. CASE BeginOpen
  BY <1>20 DEF RowsCurrent, OfSession, BeginOpen, BeginStreaming, StartingCap, Arm, BumpGeneration
<1>21. ASSUME NEW op \in AllCommands, ReplaceSession(op) PROVE RowsCurrent'
  BY <1>21 DEF RowsCurrent, OfSession, ReplaceSession, StartTeardown, RequestStop, Woken
<1>22. CASE StopStream
  BY <1>22 DEF RowsCurrent, OfSession, StopStream, StartTeardown, RequestStop, Woken
<1>23. CASE QueueFile
  BY <1>23 DEF RowsCurrent, OfSession, QueueFile
<1>24. CASE AppendFile
  BY <1>24 DEF RowsCurrent, OfSession, AppendFile, AppendStreaming, BeginStreaming, StartingCap, Arm, BumpGeneration
<1>25. CASE Pause
  BY <1>25 DEF RowsCurrent, OfSession, Pause
<1>26. CASE Resume
  BY <1>26 DEF RowsCurrent, OfSession, Resume, AppendPaused
<1>27. ASSUME NEW c \in Caps, SetRetentionCap(c) PROVE RowsCurrent'
  <2>1. \A n \in Nat : OfSession(LastN(pausedRows, n))
    BY LastNFrom DEF OfSession, TypeOK, RowsTypeOK, RowsCurrent
  <2>2. (IF Len(table) >= c THEN 0 ELSE c - Len(table)) \in Nat
    BY DEF TypeOK, RowsTypeOK
  <2>3. /\ \/ pausedRows' = pausedRows
           \/ pausedRows' = LastN(pausedRows, IF Len(table) >= c THEN 0 ELSE c - Len(table))
        /\ UNCHANGED <<pendingRows, hand, sess>>
    BY <1>27 DEF SetRetentionCap
  <2>4. OfSession(pausedRows')
    BY <2>1, <2>2, <2>3 DEF RowsCurrent
  <2> QED BY <2>3, <2>4 DEF RowsCurrent, OfSession
<1>28. CASE UNCHANGED vars
  BY <1>28 DEF RowsCurrent, OfSession, vars
<1> QED
  BY <1>1, <1>2, <1>3, <1>4, <1>5, <1>6, <1>7, <1>8, <1>9, <1>10, <1>11, <1>12, <1>13, <1>14, <1>15, <1>16, <1>17, <1>18, <1>19, <1>20, <1>21, <1>22, <1>23, <1>24, <1>25, <1>26, <1>27, <1>28 DEF Next, Worker, Dispatch, Teardown, User

(* A cleared table only receives rows of parses armed after that.          *)
LEMMA TableCurrentStep ==
    ASSUME TypeOK, HandEmpty, ActiveWorker, Joined, FinishCount, RowsCurrent, TableCurrent, [Next]_vars
    PROVE  TableCurrent'
<1> USE ConstantsAssumption DEF queueVars, pauseVars, sinkVars, workerVars, modelVars, guiVars, ghostVars
<1>1. ASSUME NEW k \in BatchSizes, ParseBatch(k) PROVE TableCurrent'
  BY <1>1 DEF TypeOK, CountersTypeOK, ControlTypeOK, Workers, TableCurrent, ActiveWorker, HandEmpty, Joined, WorkerJoined, EmitCancelled, ParseBatch
<1>2. ASSUME NEW k \in BatchSizes \union {0}, ParseFinish(k) PROVE TableCurrent'
  BY <1>2 DEF TypeOK, CountersTypeOK, ControlTypeOK, Workers, TableCurrent, ActiveWorker, HandEmpty, Joined, WorkerJoined, EmitCancelled, ParseFinish
<1>3. CASE ParseThrow
  BY <1>3 DEF TypeOK, CountersTypeOK, ControlTypeOK, Workers, TableCurrent, ActiveWorker, HandEmpty, Joined, WorkerJoined, EmitCancelled, ParseThrow
<1>4. CASE OnBatch
  BY <1>4 DEF TypeOK, CountersTypeOK, ControlTypeOK, Workers, TableCurrent, ActiveWorker, HandEmpty, Joined, WorkerJoined, EmitCancelled, OnBatch
<1>5. CASE BufferWhilePaused
  BY <1>5 DEF TypeOK, CountersTypeOK, ControlTypeOK, Workers, TableCurrent, ActiveWorker, HandEmpty, Joined, WorkerJoined, EmitCancelled, BufferWhilePaused, CountDrops, AfterBatch
<1>6. CASE WaitEnqueue
  BY <1>6 DEF TypeOK, CountersTypeOK, ControlTypeOK, Workers, TableCurrent, ActiveWorker, HandEmpty, Joined, WorkerJoined, EmitCancelled, WaitEnqueue, Enqueued, AfterBatch
<1>7. CASE ScheduleDrain
  BY <1>7 DEF TypeOK, CountersTypeOK, ControlTypeOK, Workers, TableCurrent, ActiveWorker, HandEmpty, Joined, WorkerJoined, EmitCancelled, ScheduleDrain, AfterSchedule, AfterBatch
<1>8. CASE PostDrain
  BY <1>8 DEF TypeOK, CountersTypeOK, ControlTypeOK, Workers, TableCurrent, ActiveWorker, HandEmpty, Joined, WorkerJoined, EmitCancelled, PostDrain, AfterBatch
<1>9. CASE OnFinished
  BY <1>9 DEF TypeOK, CountersTypeOK, ControlTypeOK, Workers, TableCurrent, ActiveWorker, HandEmpty, Joined, WorkerJoined, EmitCancelled, OnFinished
<1>10. CASE WorkerExit
  BY <1>10 DEF TypeOK, CountersTypeOK, ControlTypeOK, Workers, TableCurrent, ActiveWorker, HandEmpty, Joined, WorkerJoined, EmitCancelled, WorkerExit
<1>11. CASE DispatchDrain
  BY <1>11 DEF TypeOK, CountersTypeOK, ControlTypeOK, Workers, TableCurrent, ActiveWorker, HandEmpty, Joined, WorkerJoined, EmitCancelled, DispatchDrain, StartDrain
<1>12. CASE DrainGeneration
  <2>1. \A i \in DOMAIN AppendRows(table, pendingRows) : AppendRows(table, pendingRows)[i].s \in base .. sess
    <3>1. base <= sess \/ (pendingRows = <<>> /\ table = <<>>)
      BY DEF TableCurrent
    <3>2. \A i \in DOMAIN pendingRows : base <= sess => pendingRows[i].s \in base .. sess
      BY DEF RowsCurrent, OfSession, TypeOK, CountersTypeOK
    <3>3. table \in Seq(Row) /\ pendingRows \in Seq(Row) /\ cap \in Nat
      BY DEF TypeOK, RowsTypeOK, CountersTypeOK
    <3>4. CASE base <= sess
      BY <3>2, <3>3, <3>4, AppendRowsFrom DEF TableCurrent
    <3>5. CASE pendingRows = <<>> /\ table = <<>>
      <4>1. DOMAIN pendingRows = {} /\ DOMAIN table = {}
        BY <3>5
      <4> QED BY <3>3, <4>1, AppendRowsFrom
    <3> QED BY <3>1, <3>4, <3>5
  <2>2. /\ table' = table \/ table' = AppendRows(table, pendingRows)
        /\ base' = base /\ sess' = sess /\ hand' = hand /\ pausedRows' = pausedRows /\ active' = active
        /\ pendingRows' = <<>>
    BY <1>12 DEF DrainGeneration, AppendBatch
  <2>3. pendingRows = <<>> /\ table = <<>> => AppendRows(table, pendingRows) = <<>>
    BY DEF AppendRows, LastN, TypeOK, CountersTypeOK
  <2> QED BY <2>1, <2>2, <2>3 DEF TableCurrent
<1>13. CASE DispatchStaleFinished
  BY <1>13 DEF TypeOK, CountersTypeOK, ControlTypeOK, Workers, TableCurrent, ActiveWorker, HandEmpty, Joined, WorkerJoined, EmitCancelled, DispatchStaleFinished
<1>14. CASE DispatchFinished
  BY <1>14 DEF TypeOK, CountersTypeOK, ControlTypeOK, Workers, TableCurrent, ActiveWorker, HandEmpty, Joined, WorkerJoined, EmitCancelled, DispatchFinished, EndStreaming, StreamingErrors
<1>15. CASE ChainNextFile
  BY <1>15 DEF TypeOK, CountersTypeOK, ControlTypeOK, Workers, TableCurrent, ActiveWorker, HandEmpty, Joined, WorkerJoined, EmitCancelled, ChainNextFile, AppendStreaming, Arm, BumpGeneration
<1>16. CASE Join
  BY <1>16 DEF TypeOK, CountersTypeOK, ControlTypeOK, Workers, TableCurrent, ActiveWorker, HandEmpty, Joined, WorkerJoined, EmitCancelled, Join
<1>17. CASE DrainNow
  BY <1>17 DEF TypeOK, CountersTypeOK, ControlTypeOK, Workers, TableCurrent, ActiveWorker, HandEmpty, Joined, WorkerJoined, EmitCancelled, DrainNow, StartDrain
<1>18. CASE FinishStop
  <2>1. \A i \in DOMAIN AppendRows(table, pausedRows) : AppendRows(table, pausedRows)[i].s \in base .. sess
    <3>1. base <= sess \/ (pausedRows = <<>> /\ table = <<>>)
      BY DEF TableCurrent
    <3>2. \A i \in DOMAIN pausedRows : base <= sess => pausedRows[i].s \in base .. sess
      BY DEF RowsCurrent, OfSession, TypeOK, CountersTypeOK
    <3>3. table \in Seq(Row) /\ pausedRows \in Seq(Row) /\ cap \in Nat
      BY DEF TypeOK, RowsTypeOK, CountersTypeOK
    <3>4. CASE base <= sess
      BY <3>2, <3>3, <3>4, AppendRowsFrom DEF TableCurrent
    <3>5. CASE pausedRows = <<>> /\ table = <<>>
      <4>1. DOMAIN pausedRows = {} /\ DOMAIN table = {}
        BY <3>5
      <4> QED BY <3>3, <4>1, AppendRowsFrom
    <3> QED BY <3>1, <3>4, <3>5
  <2>2. /\ table' = table \/ table' = AppendRows(table, pausedRows)
        /\ base' = base /\ sess' = sess /\ hand' = hand /\ pausedRows' = <<>> /\ active' = FALSE
        /\ pendingRows' = <<>>
    BY <1>18 DEF FinishStop, DropPendingBatches, AppendPaused, AppendBatch
  <2>3. pausedRows = <<>> /\ table = <<>> => AppendRows(table, pausedRows) = <<>>
    BY DEF AppendRows, LastN, TypeOK, CountersTypeOK
  <2> QED BY <2>1, <2>2, <2>3 DEF TableCurrent
<1>19. CASE FinishReset
  BY <1>19 DEF TypeOK, CountersTypeOK, ControlTypeOK, Workers, TableCurrent, ActiveWorker, HandEmpty, Joined, WorkerJoined, EmitCancelled, FinishReset, DropPendingBatches, BumpGeneration, Woken
<1>20. CASE BeginOpen
  <2>1. CASE table' = <<>> /\ base' = sess + 1 /\ sess' = sess + 1
    BY <2>1 DEF TableCurrent, TypeOK, CountersTypeOK
  <2>2. CASE UNCHANGED <<queueVars, pauseVars, sinkVars, workerVars, modelVars, ghostVars>>
    BY <2>2 DEF TableCurrent
  <2> QED BY <1>20, <2>1, <2>2 DEF BeginOpen, BeginStreaming, Arm
<1>21. ASSUME NEW op \in AllCommands, ReplaceSession(op) PROVE TableCurrent'
  BY <1>21 DEF TypeOK, CountersTypeOK, ControlTypeOK, Workers, TableCurrent, ActiveWorker, HandEmpty, Joined, WorkerJoined, EmitCancelled, ReplaceSession, StartTeardown, RequestStop, Woken
<1>22. CASE StopStream
  BY <1>22 DEF TypeOK, CountersTypeOK, ControlTypeOK, Workers, TableCurrent, ActiveWorker, HandEmpty, Joined, WorkerJoined, EmitCancelled, StopStream, StartTeardown, RequestStop, Woken
<1>23. CASE QueueFile
  BY <1>23 DEF TypeOK, CountersTypeOK, ControlTypeOK, Workers, TableCurrent, ActiveWorker, HandEmpty, Joined, WorkerJoined, EmitCancelled, QueueFile
<1>24. CASE AppendFile
  BY <1>24 DEF TypeOK, CountersTypeOK, ControlTypeOK, Workers, TableCurrent, ActiveWorker, HandEmpty, Joined, WorkerJoined, EmitCancelled, AppendFile, AppendStreaming, BeginStreaming, StartingCap, Arm, BumpGeneration
<1>25. CASE Pause
  BY <1>25 DEF TypeOK, CountersTypeOK, ControlTypeOK, Workers, TableCurrent, ActiveWorker, HandEmpty, Joined, WorkerJoined, EmitCancelled, Pause
<1>26. CASE Resume
  <2>1. \A i \in DOMAIN AppendRows(table, pausedRows) : AppendRows(table, pausedRows)[i].s \in base .. sess
    <3>1. base <= sess \/ (pausedRows = <<>> /\ table = <<>>)
      BY DEF TableCurrent
    <3>2. \A i \in DOMAIN pausedRows : base <= sess => pausedRows[i].s \in base .. sess
      BY DEF RowsCurrent, OfSession, TypeOK, CountersTypeOK
    <3>3. table \in Seq(Row) /\ pausedRows \in Seq(Row) /\ cap \in Nat
      BY DEF TypeOK, RowsTypeOK, CountersTypeOK
    <3>4. CASE base <= sess
      BY <3>2, <3>3, <3>4, AppendRowsFrom DEF TableCurrent
    <3>5. CASE pausedRows = <<>> /\ table = <<>>
      <4>1. DOMAIN pausedRows = {} /\ DOMAIN table = {}
        BY <3>5
      <4> QED BY <3>3, <4>1, AppendRowsFrom
    <3> QED BY <3>1, <3>4, <3>5
  <2>2. /\ table' = table \/ table' = AppendRows(table, pausedRows)
        /\ UNCHANGED <<base, sess, hand, active, pendingRows>> /\ pausedRows' = <<>>
    BY <1>26 DEF Resume, AppendPaused, AppendBatch
  <2>3. pausedRows = <<>> /\ table = <<>> => AppendRows(table, pausedRows) = <<>>
    BY DEF AppendRows, LastN, TypeOK, CountersTypeOK
  <2> QED BY <2>1, <2>2, <2>3 DEF TableCurrent
<1>27. ASSUME NEW c \in Caps, SetRetentionCap(c) PROVE TableCurrent'
  <2>1. \A i \in DOMAIN LastN(table, c) : LastN(table, c)[i].s \in base .. sess
    <3>1. \A i \in DOMAIN LastN(table, c) : \E j \in DOMAIN table : LastN(table, c)[i] = table[j]
      BY LastNFrom DEF TypeOK, RowsTypeOK
    <3> QED BY <3>1 DEF TableCurrent
  <2>2. table' = table \/ table' = LastN(table, c)
    BY <1>27 DEF SetRetentionCap
  <2>3. active => base <= sess
    BY DEF TableCurrent
  <2>4. streamingActive => active
    BY <1>27 DEF FinishCount, SetRetentionCap
  <2>5. UNCHANGED <<base, sess, hand, active, pendingRows>> /\ (~streamingActive => UNCHANGED <<table, pausedRows>>)
    BY <1>27 DEF SetRetentionCap
  <2> QED BY <2>1, <2>2, <2>3, <2>4, <2>5 DEF TableCurrent
<1>28. CASE UNCHANGED vars
  BY <1>28 DEF TypeOK, CountersTypeOK, ControlTypeOK, Workers, TableCurrent, ActiveWorker, HandEmpty, Joined, WorkerJoined, EmitCancelled, vars
<1> QED
  BY <1>1, <1>2, <1>3, <1>4, <1>5, <1>6, <1>7, <1>8, <1>9, <1>10, <1>11, <1>12, <1>13, <1>14, <1>15, <1>16, <1>17, <1>18, <1>19, <1>20, <1>21, <1>22, <1>23, <1>24, <1>25, <1>26, <1>27, <1>28 DEF Next, Worker, Dispatch, Teardown, User

-----------------------------------------------------------------------------
LEMMA InitSessions == Init => Sessions
<1> SUFFICES ASSUME Init PROVE Sessions
  OBVIOUS
<1>1. Wakeups
  BY InitType, ConstantsAssumption
  DEF Init, Wakeups, ParkedMeansFull, DrainPromise, EventsPast, FinishIsLast, FinishedAfterDelivery
<1>2. HandEmpty /\ ActiveWorker /\ Joined /\ StopOnly /\ FinishCloses /\ EventsCurrent /\ FinishCount
  BY DEF Init, HandEmpty, ActiveWorker, Joined, StopOnly, FinishCloses, EventsCurrent, FinishCount
<1>3. IdleQueueEmpty /\ RowsCurrent /\ TableCurrent
  BY DEF Init, IdleQueueEmpty, RowsCurrent, OfSession, TableCurrent
<1> QED BY <1>1, <1>2, <1>3 DEF Sessions

LEMMA SessionsStep == Sessions /\ [Next]_vars => Sessions'
<1>1. TypeOK /\ [Next]_vars => TypeOK'
  BY FlagsStep, CountersStep, ControlStep, EventsStep, RowsStep DEF TypeOK
<1>2. Wakeups /\ [Next]_vars => Wakeups'
  BY <1>1, ParkedStep, DrainStep, PastStep, LastStep, DeliveredStep DEF Wakeups
<1> SUFFICES ASSUME Sessions, [Next]_vars PROVE Sessions'
  OBVIOUS
<1>3. Wakeups'
  BY <1>2 DEF Sessions
<1>4. HandEmpty' /\ ActiveWorker' /\ Joined' /\ StopOnly'
  BY HandStep, ActiveStep, JoinedStep, StopOnlyStep DEF Sessions, Wakeups
<1>5. FinishCloses' /\ EventsCurrent' /\ FinishCount' /\ IdleQueueEmpty'
  BY ClosesStep, CurrentStep, FinishCountStep, QueueEmptyStep DEF Sessions, Wakeups
<1>6. RowsCurrent' /\ TableCurrent'
  BY RowsCurrentStep, TableCurrentStep DEF Sessions, Wakeups
<1> QED BY <1>3, <1>4, <1>5, <1>6 DEF Sessions

LEMMA SessionsInvariant == Spec => []Sessions
BY InitSessions, SessionsStep, PTL DEF Spec

(* EndStreaming and the compensation of TeardownStreamingSessionInternal:  *)
(* streamingFinished is emitted once per session, never twice, and is out  *)
(* by the time the GUI thread is idle with no session running.             *)
THEOREM OneFinishPerSession == Spec => []ExactlyOneFinish
<1>1. Sessions => ExactlyOneFinish
  BY DEF Sessions, Wakeups, TypeOK, FlagsTypeOK, CountersTypeOK, FinishCount, ExactlyOneFinish
<1> QED BY <1>1, SessionsInvariant, PTL

(* The generation check of DrainGeneration and OnFinished, and the clears  *)
(* of Arm, DropPendingBatches and Reset, keep rows and signals of one      *)
(* parse out of the next.                                                  *)
THEOREM SessionsStayApart == Spec => []SessionIsolation
<1>1. Sessions => SessionIsolation
  <2> SUFFICES ASSUME Sessions PROVE SessionIsolation
    OBVIOUS
  <2> USE DEF Sessions, Wakeups, TypeOK
  <2>1. ASSUME NEW rows \in {pendingRows, pausedRows, hand} PROVE RowsOf(rows) \subseteq [s : {sess}, n : Nat]
    <3>1. rows \in Seq(Row) /\ OfSession(rows)
      BY DEF RowsTypeOK, RowsCurrent
    <3>2. \A i \in DOMAIN rows : rows[i] \in Row /\ rows[i].s = sess
      BY <3>1 DEF OfSession
    <3> QED BY <3>2 DEF RowsOf, Row
  <2>2. RowsOf(table) \subseteq [s : base .. sess, n : Nat]
    <3>1. \A i \in DOMAIN table : table[i] \in Row /\ table[i].s \in base .. sess
      BY DEF RowsTypeOK, TableCurrent
    <3> QED BY <3>1 DEF RowsOf, Row
  <2> QED BY <2>1, <2>2 DEF SessionIsolation, EventsCurrent
<1> QED BY <1>1, SessionsInvariant, PTL

(* AppendStreaming, BeginStreaming: Arm clears the queue, and finds it     *)
(* empty whenever a parse is armed, so the clear discards no row.          *)
THEOREM ArmDiscardsNothing == Spec => ArmFindsQueueEmpty
<1>1. Sessions /\ [Next]_vars => (sess' # sess => pendingCount = 0)
  <2> SUFFICES ASSUME Sessions, [Next]_vars, sess' # sess PROVE pendingCount = 0
    OBVIOUS
  <2> USE DEF queueVars, pauseVars, sinkVars, workerVars, modelVars, guiVars, ghostVars
  <2>1. \/ ChainNextFile
        \/ BeginOpen
        \/ AppendFile
    BY DEF Next, Worker, Dispatch, Teardown, User, vars, ParseBatch, ParseFinish, ParseThrow, OnBatch,
       BufferWhilePaused, WaitEnqueue, ScheduleDrain, PostDrain, OnFinished, WorkerExit, DispatchDrain,
       DrainGeneration, DispatchStaleFinished, DispatchFinished, Join, DrainNow, FinishStop, FinishReset,
       ReplaceSession, StartTeardown, StopStream, QueueFile, Pause, Resume, SetRetentionCap
  <2>2. CASE ChainNextFile
    <3>1. 1 \in DOMAIN events /\ LiveFinish(1) /\ ~Draining
      BY <2>2, Popped DEF Sessions, Wakeups, TypeOK, EventsTypeOK, ChainNextFile, LiveFinish, Draining
    <3> QED BY <3>1 DEF Sessions, Wakeups, FinishedAfterDelivery
  <2>3. CASE BeginOpen
    BY <2>3 DEF BeginOpen, Sessions, FinishCount, IdleQueueEmpty
  <2>4. CASE AppendFile
    BY <2>4 DEF AppendFile, Sessions, FinishCount, IdleQueueEmpty
  <2> QED BY <2>1, <2>2, <2>3, <2>4
<1>2. Sessions /\ [Next]_vars => [sess' # sess => pendingCount = 0]_vars
  BY <1>1
<1> QED BY <1>2, SessionsInvariant, PTL DEF Spec, ArmFindsQueueEmpty
=============================================================================
