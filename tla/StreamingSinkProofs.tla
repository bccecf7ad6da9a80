------------------------ MODULE StreamingSinkProofs ------------------------
(***************************************************************************)
(* Proofs about StreamingSink, for every capacity of the queue, every      *)
(* bound and every set of batch sizes, caps and commands: types, eviction, *)
(* and that the two threads never lose a wakeup, in either direction.      *)
(*                                                                         *)
(* DrainPromise and ParkedMeansFull are inductive with the types.          *)
(* FinishedAfterDelivery is not: it needs that no lambda carries a         *)
(* generation still to come, so that Arm leaves no live one behind, and    *)
(* that a worker whose live finished lambda is posted enqueues no more.    *)
(***************************************************************************)
EXTENDS StreamingSink, SequenceTheorems, TLAPS

-----------------------------------------------------------------------------
(* The operators on rows.                                                  *)

LEMMA LastNType ==
    ASSUME NEW rows \in Seq(Row), NEW n \in Nat
    PROVE  LastN(rows, n) \in Seq(Row) /\ Len(LastN(rows, n)) <= Len(rows)
BY DEF LastN

LEMMA NoRowsType == <<>> \in Seq(Row)
OBVIOUS

LEMMA ConcatType ==
    ASSUME NEW a \in Seq(Row), NEW b \in Seq(Row)
    PROVE  a \o b \in Seq(Row)
OBVIOUS

LEMMA RowsOfType ==
    ASSUME NEW rows \in Seq(Row)
    PROVE  RowsOf(rows) \in SUBSET Row
BY DEF RowsOf

LEMMA AppendRowsType ==
    ASSUME NEW tab \in Seq(Row), NEW rows \in Seq(Row), cap \in Nat
    PROVE  AppendRows(tab, rows) \in Seq(Row)
<1> DEFINE kept == IF cap # 0 THEN LastN(rows, cap) ELSE rows
           total == Len(tab) + Len(kept)
           excess == IF cap # 0 /\ total > cap THEN total - cap ELSE 0
           dropCount == IF excess < Len(tab) THEN excess ELSE Len(tab)
<1>1. kept \in Seq(Row)
  BY LastNType
<1>2. dropCount \in Nat
  BY <1>1
<1>3. SubSeq(tab, dropCount + 1, Len(tab)) \in Seq(Row)
  BY <1>2
<1> QED
  BY <1>1, <1>3 DEF AppendRows

LEMMA NewRowsType ==
    ASSUME TypeOK, NEW k \in Nat
    PROVE  NewRows(k) \in Seq(Row)
BY DEF NewRows, TypeOK, CountersTypeOK, Row

LEMMA NoLossType == NoLoss \in [Causes -> SUBSET Row]
BY DEF NoLoss

LEMMA LoseType ==
    ASSUME RowsTypeOK, NEW cause \in Causes, NEW rows \in SUBSET Row
    PROVE  Lose(cause, rows) \in [Causes -> SUBSET Row]
BY DEF Lose, RowsTypeOK

LEMMA AppendBatchType ==
    ASSUME TypeOK, NEW rows \in Seq(Row), AppendBatch(rows)
    PROVE  table' \in Seq(Row) /\ lost' \in [Causes -> SUBSET Row]
<1>1. AppendRows(table, rows) \in Seq(Row)
  BY AppendRowsType DEF TypeOK, RowsTypeOK, CountersTypeOK
<1>2. RowsOf(table) \in SUBSET Row /\ RowsOf(rows) \in SUBSET Row
  BY RowsOfType DEF TypeOK, RowsTypeOK, CountersTypeOK
<1>3. "evicted" \in Causes
  BY DEF Causes
<1> DEFINE gone == (RowsOf(table) \union RowsOf(rows)) \ RowsOf(AppendRows(table, rows))
<1>4. gone \in SUBSET Row
  BY <1>2
<1>5. lost' = Lose("evicted", gone)
  BY DEF AppendBatch
<1>6. lost' \in [Causes -> SUBSET Row]
  <2> HIDE DEF gone
  <2> QED BY <1>3, <1>4, <1>5, LoseType DEF TypeOK
<1> QED
  BY <1>1, <1>6 DEF AppendBatch

-----------------------------------------------------------------------------
(* Type correctness.                                                       *)

LEMMA InitType == Init => TypeOK
<1> SUFFICES ASSUME Init PROVE TypeOK
  OBVIOUS
<1>1. FlagsTypeOK
  BY Zenon DEF Init, FlagsTypeOK
<1>2. RowsTypeOK
  BY NoLossType DEF Init, RowsTypeOK
<1>3. CountersTypeOK
  BY ConstantsAssumption DEF Init, CountersTypeOK
<1>4. ControlTypeOK
  BY DEF Init, ControlTypeOK, Workers, GuiStates
<1>5. EventsTypeOK
  BY DEF Init, EventsTypeOK
<1> QED
  BY <1>1, <1>2, <1>3, <1>4, <1>5 DEF TypeOK

(* The step of each action.                                                *)

(* The flags stay Boolean.                                                 *)
LEMMA FlagsStep == ASSUME TypeOK, [Next]_vars PROVE FlagsTypeOK'
<1> USE ConstantsAssumption
<1> USE DEF queueVars, pauseVars, sinkVars, workerVars, modelVars, guiVars, ghostVars
<1>1. ASSUME NEW k \in BatchSizes, ParseBatch(k) PROVE FlagsTypeOK'
  BY <1>1, Zenon DEF TypeOK, FlagsTypeOK, ParseBatch
<1>2. ASSUME NEW k \in BatchSizes \union {0}, ParseFinish(k) PROVE FlagsTypeOK'
  BY <1>2, Zenon DEF TypeOK, FlagsTypeOK, ParseFinish
<1>3. CASE ParseThrow
  BY <1>3, Zenon DEF TypeOK, FlagsTypeOK, ParseThrow
<1>4. CASE OnBatch
  BY <1>4, Zenon DEF TypeOK, FlagsTypeOK, OnBatch
<1>5. CASE BufferWhilePaused
  BY <1>5, Zenon DEF TypeOK, FlagsTypeOK, BufferWhilePaused, CountDrops, AfterBatch
<1>6. CASE WaitEnqueue
  BY <1>6, Zenon DEF TypeOK, FlagsTypeOK, WaitEnqueue, Enqueued, AfterBatch
<1>7. CASE ScheduleDrain
  BY <1>7, Zenon DEF TypeOK, FlagsTypeOK, ScheduleDrain, AfterSchedule, AfterBatch
<1>8. CASE PostDrain
  BY <1>8, Zenon DEF TypeOK, FlagsTypeOK, PostDrain, AfterBatch
<1>9. CASE OnFinished
  BY <1>9, Zenon DEF TypeOK, FlagsTypeOK, OnFinished
<1>10. CASE WorkerExit
  BY <1>10, Zenon DEF TypeOK, FlagsTypeOK, WorkerExit
<1>11. CASE DispatchDrain
  BY <1>11, Zenon DEF TypeOK, FlagsTypeOK, DispatchDrain, StartDrain
<1>12. CASE DrainGeneration
  BY <1>12, Zenon DEF TypeOK, FlagsTypeOK, DrainGeneration, Woken, AfterDrain
<1>13. CASE DispatchStaleFinished
  BY <1>13, Zenon DEF TypeOK, FlagsTypeOK, DispatchStaleFinished
<1>14. CASE DispatchFinished
  BY <1>14, Zenon DEF TypeOK, FlagsTypeOK, DispatchFinished, EndStreaming, StreamingErrors
<1>15. CASE ChainNextFile
  BY <1>15, Zenon DEF TypeOK, FlagsTypeOK, ChainNextFile, AppendStreaming, Arm, BumpGeneration
<1>16. CASE Join
  BY <1>16, Zenon DEF TypeOK, FlagsTypeOK, Join
<1>17. CASE DrainNow
  BY <1>17, Zenon DEF TypeOK, FlagsTypeOK, DrainNow, StartDrain
<1>18. CASE FinishStop
  BY <1>18, Zenon DEF TypeOK, FlagsTypeOK, FinishStop, DropPendingBatches, BumpGeneration, Woken, AppendPaused
<1>19. CASE FinishReset
  BY <1>19, Zenon DEF TypeOK, FlagsTypeOK, FinishReset, DropPendingBatches, BumpGeneration, Woken
<1>20. CASE BeginOpen
  <2>1. CASE BeginStreaming(IF guiOp = "openLive" THEN "LiveTail" ELSE "Static") /\ UNCHANGED <<events, retention, pendingFiles>>
    BY <1>20, <2>1, Zenon DEF TypeOK, FlagsTypeOK, BeginOpen, BeginStreaming, StartingCap, Arm, BumpGeneration
  <2>2. CASE UNCHANGED <<queueVars, pauseVars, sinkVars, workerVars, modelVars, ghostVars>>
    BY <1>20, <2>2, Zenon DEF TypeOK, FlagsTypeOK, BeginOpen
  <2> QED BY <1>20, <2>1, <2>2 DEF BeginOpen
<1>21. ASSUME NEW op \in AllCommands, ReplaceSession(op) PROVE FlagsTypeOK'
  BY <1>21, Zenon DEF TypeOK, FlagsTypeOK, ReplaceSession, StartTeardown, RequestStop, Woken
<1>22. CASE StopStream
  BY <1>22, Zenon DEF TypeOK, FlagsTypeOK, StopStream, StartTeardown, RequestStop, Woken
<1>23. CASE QueueFile
  BY <1>23, Zenon DEF TypeOK, FlagsTypeOK, QueueFile
<1>24. CASE AppendFile
  BY <1>24, Zenon DEF TypeOK, FlagsTypeOK, AppendFile, AppendStreaming, BeginStreaming, StartingCap, Arm, BumpGeneration
<1>25. CASE Pause
  BY <1>25, Zenon DEF TypeOK, FlagsTypeOK, Pause
<1>26. CASE Resume
  BY <1>26, Zenon DEF TypeOK, FlagsTypeOK, Resume, AppendPaused
<1>27. ASSUME NEW c \in Caps, SetRetentionCap(c) PROVE FlagsTypeOK'
  BY <1>27, Zenon DEF TypeOK, FlagsTypeOK, SetRetentionCap
<1>28. CASE UNCHANGED vars
  BY <1>28 DEF vars, TypeOK, FlagsTypeOK
<1> QED
  BY <1>1, <1>2, <1>3, <1>4, <1>5, <1>6, <1>7, <1>8, <1>9, <1>10, <1>11, <1>12, <1>13, <1>14, <1>15, <1>16, <1>17, <1>18, <1>19, <1>20, <1>21, <1>22, <1>23, <1>24, <1>25, <1>26, <1>27, <1>28 DEF Next, Worker, Dispatch, Teardown, User

(* The counters stay natural numbers.                                      *)
LEMMA CountersStep == ASSUME TypeOK, [Next]_vars PROVE CountersTypeOK'
<1> USE ConstantsAssumption
<1> USE DEF queueVars, pauseVars, sinkVars, workerVars, modelVars, guiVars, ghostVars
<1>1. ASSUME NEW k \in BatchSizes, ParseBatch(k) PROVE CountersTypeOK'
  BY <1>1 DEF TypeOK, CountersTypeOK, ParseBatch
<1>2. ASSUME NEW k \in BatchSizes \union {0}, ParseFinish(k) PROVE CountersTypeOK'
  BY <1>2 DEF TypeOK, CountersTypeOK, ParseFinish
<1>3. CASE ParseThrow
  BY <1>3 DEF TypeOK, CountersTypeOK, ParseThrow
<1>4. CASE OnBatch
  BY <1>4 DEF TypeOK, CountersTypeOK, OnBatch
<1>5. CASE BufferWhilePaused
  <2> DEFINE all == pausedRows \o hand
             kept == IF wCap # 0 THEN LastN(all, wCap) ELSE all
  <2>1. all \in Seq(Row)
    BY DEF TypeOK, RowsTypeOK
  <2>2. kept \in Seq(Row) /\ Len(kept) <= Len(all)
    <3> HIDE DEF all
    <3>1. Len(all) \in Nat /\ wCap \in Nat
      BY <2>1 DEF TypeOK, CountersTypeOK
    <3>2. CASE wCap = 0
      BY <2>1, <3>1, <3>2
    <3>3. CASE wCap # 0
      BY <2>1, <3>1, <3>3, LastNType
    <3> QED BY <3>2, <3>3
  <2>3. Len(all) - Len(kept) \in Nat
    BY <2>1, <2>2
  <2>4. pausedDrops' \in {pausedDrops, pausedDrops + (Len(all) - Len(kept))}
    BY <1>5 DEF BufferWhilePaused, CountDrops
  <2> HIDE DEF all, kept
  <2> QED BY <1>5, <2>3, <2>4 DEF TypeOK, CountersTypeOK, BufferWhilePaused
<1>6. CASE WaitEnqueue
  BY <1>6 DEF TypeOK, CountersTypeOK, WaitEnqueue, Enqueued, AfterBatch
<1>7. CASE ScheduleDrain
  BY <1>7 DEF TypeOK, CountersTypeOK, ScheduleDrain, AfterSchedule, AfterBatch
<1>8. CASE PostDrain
  BY <1>8 DEF TypeOK, CountersTypeOK, PostDrain, AfterBatch
<1>9. CASE OnFinished
  BY <1>9 DEF TypeOK, CountersTypeOK, OnFinished
<1>10. CASE WorkerExit
  BY <1>10 DEF TypeOK, CountersTypeOK, WorkerExit
<1>11. CASE DispatchDrain
  <2>1. Head(events) \in Event
    BY <1>11 DEF TypeOK, EventsTypeOK, DispatchDrain
  <2>2. drainGen' \in Nat
    BY <1>11, <2>1 DEF DispatchDrain, StartDrain, Event
  <2> QED BY <1>11, <2>2 DEF TypeOK, CountersTypeOK, DispatchDrain
<1>12. CASE DrainGeneration
  BY <1>12 DEF TypeOK, CountersTypeOK, DrainGeneration, Woken, AfterDrain
<1>13. CASE DispatchStaleFinished
  BY <1>13 DEF TypeOK, CountersTypeOK, DispatchStaleFinished
<1>14. CASE DispatchFinished
  BY <1>14 DEF TypeOK, CountersTypeOK, DispatchFinished, EndStreaming, StreamingErrors
<1>15. CASE ChainNextFile
  BY <1>15 DEF TypeOK, CountersTypeOK, ChainNextFile, AppendStreaming, Arm, BumpGeneration
<1>16. CASE Join
  BY <1>16 DEF TypeOK, CountersTypeOK, Join
<1>17. CASE DrainNow
  BY <1>17 DEF TypeOK, CountersTypeOK, DrainNow, StartDrain
<1>18. CASE FinishStop
  BY <1>18 DEF TypeOK, CountersTypeOK, FinishStop, DropPendingBatches, BumpGeneration, Woken, AppendPaused
<1>19. CASE FinishReset
  BY <1>19 DEF TypeOK, CountersTypeOK, FinishReset, DropPendingBatches, BumpGeneration, Woken
<1>20. CASE BeginOpen
  <2>1. CASE BeginStreaming(IF guiOp = "openLive" THEN "LiveTail" ELSE "Static") /\ UNCHANGED <<events, retention, pendingFiles>>
    BY <1>20, <2>1 DEF TypeOK, CountersTypeOK, BeginOpen, BeginStreaming, StartingCap, Arm, BumpGeneration
  <2>2. CASE UNCHANGED <<queueVars, pauseVars, sinkVars, workerVars, modelVars, ghostVars>>
    BY <1>20, <2>2 DEF TypeOK, CountersTypeOK, BeginOpen
  <2> QED BY <1>20, <2>1, <2>2 DEF BeginOpen
<1>21. ASSUME NEW op \in AllCommands, ReplaceSession(op) PROVE CountersTypeOK'
  BY <1>21 DEF TypeOK, CountersTypeOK, ReplaceSession, StartTeardown, RequestStop, Woken
<1>22. CASE StopStream
  BY <1>22 DEF TypeOK, CountersTypeOK, StopStream, StartTeardown, RequestStop, Woken
<1>23. CASE QueueFile
  BY <1>23 DEF TypeOK, CountersTypeOK, QueueFile
<1>24. CASE AppendFile
  <2>1. CASE BeginStreaming("Static") /\ UNCHANGED <<events, retention, pendingFiles, guiVars>>
    BY <2>1 DEF TypeOK, CountersTypeOK, BeginStreaming, StartingCap, Arm, BumpGeneration
  <2>2. CASE AppendStreaming /\ UNCHANGED <<events, retention, pendingFiles, lastReported, guiVars>> /\ mode' = "Static"
    BY <2>2 DEF TypeOK, CountersTypeOK, AppendStreaming, Arm, BumpGeneration
  <2>3. CASE /\ UNCHANGED <<table, cap, retention, streamingActive, lastReported, pendingFiles>>
             /\ UNCHANGED <<queueVars, pauseVars, sinkVars, workerVars, ghostVars, guiVars>>
             /\ mode' \in {"Static", mode}
    BY <2>3 DEF TypeOK, CountersTypeOK
  <2> QED BY <1>24, <2>1, <2>2, <2>3 DEF AppendFile
<1>25. CASE Pause
  BY <1>25 DEF TypeOK, CountersTypeOK, Pause
<1>26. CASE Resume
  BY <1>26 DEF TypeOK, CountersTypeOK, Resume, AppendPaused
<1>27. ASSUME NEW c \in Caps, SetRetentionCap(c) PROVE CountersTypeOK'
  BY <1>27 DEF TypeOK, CountersTypeOK, SetRetentionCap
<1>28. CASE UNCHANGED vars
  BY <1>28 DEF vars, TypeOK, CountersTypeOK
<1> QED
  BY <1>1, <1>2, <1>3, <1>4, <1>5, <1>6, <1>7, <1>8, <1>9, <1>10, <1>11, <1>12, <1>13, <1>14, <1>15, <1>16, <1>17, <1>18, <1>19, <1>20, <1>21, <1>22, <1>23, <1>24, <1>25, <1>26, <1>27, <1>28 DEF Next, Worker, Dispatch, Teardown, User

(* The threads stay at positions the code has.                             *)
LEMMA ControlStep == ASSUME TypeOK, [Next]_vars PROVE ControlTypeOK'
<1> USE ConstantsAssumption
<1> USE DEF queueVars, pauseVars, sinkVars, workerVars, modelVars, guiVars, ghostVars
<1>1. ASSUME NEW k \in BatchSizes, ParseBatch(k) PROVE ControlTypeOK'
  BY <1>1 DEF TypeOK, ControlTypeOK, Workers, GuiStates, ParseBatch
<1>2. ASSUME NEW k \in BatchSizes \union {0}, ParseFinish(k) PROVE ControlTypeOK'
  BY <1>2 DEF TypeOK, ControlTypeOK, Workers, GuiStates, ParseFinish
<1>3. CASE ParseThrow
  BY <1>3 DEF TypeOK, ControlTypeOK, Workers, GuiStates, ParseThrow
<1>4. CASE OnBatch
  BY <1>4 DEF TypeOK, ControlTypeOK, Workers, GuiStates, OnBatch
<1>5. CASE BufferWhilePaused
  BY <1>5 DEF TypeOK, ControlTypeOK, Workers, GuiStates, BufferWhilePaused, CountDrops, AfterBatch
<1>6. CASE WaitEnqueue
  BY <1>6 DEF TypeOK, ControlTypeOK, Workers, GuiStates, WaitEnqueue, Enqueued, AfterBatch
<1>7. CASE ScheduleDrain
  BY <1>7 DEF TypeOK, ControlTypeOK, Workers, GuiStates, ScheduleDrain, AfterSchedule, AfterBatch
<1>8. CASE PostDrain
  BY <1>8 DEF TypeOK, ControlTypeOK, Workers, GuiStates, PostDrain, AfterBatch
<1>9. CASE OnFinished
  BY <1>9 DEF TypeOK, ControlTypeOK, Workers, GuiStates, OnFinished
<1>10. CASE WorkerExit
  BY <1>10 DEF TypeOK, ControlTypeOK, Workers, GuiStates, WorkerExit
<1>11. CASE DispatchDrain
  BY <1>11 DEF TypeOK, ControlTypeOK, Workers, GuiStates, DispatchDrain, StartDrain
<1>12. CASE DrainGeneration
  BY <1>12 DEF TypeOK, ControlTypeOK, Workers, GuiStates, DrainGeneration, Woken, AfterDrain
<1>13. CASE DispatchStaleFinished
  BY <1>13 DEF TypeOK, ControlTypeOK, Workers, GuiStates, DispatchStaleFinished
<1>14. CASE DispatchFinished
  BY <1>14 DEF TypeOK, ControlTypeOK, Workers, GuiStates, DispatchFinished, EndStreaming, StreamingErrors
<1>15. CASE ChainNextFile
  BY <1>15 DEF TypeOK, ControlTypeOK, Workers, GuiStates, ChainNextFile, AppendStreaming, Arm, BumpGeneration
<1>16. CASE Join
  BY <1>16 DEF TypeOK, ControlTypeOK, Workers, GuiStates, Join
<1>17. CASE DrainNow
  BY <1>17 DEF TypeOK, ControlTypeOK, Workers, GuiStates, DrainNow, StartDrain
<1>18. CASE FinishStop
  BY <1>18 DEF TypeOK, ControlTypeOK, Workers, GuiStates, FinishStop, DropPendingBatches, BumpGeneration, Woken, AppendPaused
<1>19. CASE FinishReset
  BY <1>19 DEF TypeOK, ControlTypeOK, Workers, GuiStates, FinishReset, DropPendingBatches, BumpGeneration, Woken
<1>20. CASE BeginOpen
  BY <1>20 DEF TypeOK, ControlTypeOK, Workers, GuiStates, BeginOpen, BeginStreaming, StartingCap, Arm, BumpGeneration
<1>21. ASSUME NEW op \in AllCommands, ReplaceSession(op) PROVE ControlTypeOK'
  BY <1>21 DEF TypeOK, ControlTypeOK, Workers, GuiStates, ReplaceSession, StartTeardown, RequestStop, Woken
<1>22. CASE StopStream
  BY <1>22 DEF TypeOK, ControlTypeOK, Workers, GuiStates, StopStream, StartTeardown, RequestStop, Woken
<1>23. CASE QueueFile
  BY <1>23 DEF TypeOK, ControlTypeOK, Workers, GuiStates, QueueFile
<1>24. CASE AppendFile
  BY <1>24 DEF TypeOK, ControlTypeOK, Workers, GuiStates, AppendFile, AppendStreaming, BeginStreaming, StartingCap, Arm, BumpGeneration
<1>25. CASE Pause
  BY <1>25 DEF TypeOK, ControlTypeOK, Workers, GuiStates, Pause
<1>26. CASE Resume
  BY <1>26 DEF TypeOK, ControlTypeOK, Workers, GuiStates, Resume, AppendPaused
<1>27. ASSUME NEW c \in Caps, SetRetentionCap(c) PROVE ControlTypeOK'
  BY <1>27 DEF TypeOK, ControlTypeOK, Workers, GuiStates, SetRetentionCap
<1>28. CASE UNCHANGED vars
  BY <1>28 DEF vars, TypeOK, ControlTypeOK
<1> QED
  BY <1>1, <1>2, <1>3, <1>4, <1>5, <1>6, <1>7, <1>8, <1>9, <1>10, <1>11, <1>12, <1>13, <1>14, <1>15, <1>16, <1>17, <1>18, <1>19, <1>20, <1>21, <1>22, <1>23, <1>24, <1>25, <1>26, <1>27, <1>28 DEF Next, Worker, Dispatch, Teardown, User

(* Only well-formed lambdas are posted.                                    *)
LEMMA EventsStep == ASSUME TypeOK, [Next]_vars PROVE EventsTypeOK'
<1> USE ConstantsAssumption
<1> USE DEF queueVars, pauseVars, sinkVars, workerVars, modelVars, guiVars, ghostVars
<1>1. ASSUME NEW k \in BatchSizes, ParseBatch(k) PROVE EventsTypeOK'
  BY <1>1 DEF TypeOK, EventsTypeOK, ParseBatch
<1>2. ASSUME NEW k \in BatchSizes \union {0}, ParseFinish(k) PROVE EventsTypeOK'
  BY <1>2 DEF TypeOK, EventsTypeOK, ParseFinish
<1>3. CASE ParseThrow
  BY <1>3 DEF TypeOK, EventsTypeOK, ParseThrow
<1>4. CASE OnBatch
  BY <1>4 DEF TypeOK, EventsTypeOK, OnBatch
<1>5. CASE BufferWhilePaused
  BY <1>5 DEF TypeOK, EventsTypeOK, BufferWhilePaused, CountDrops, AfterBatch
<1>6. CASE WaitEnqueue
  BY <1>6 DEF TypeOK, EventsTypeOK, WaitEnqueue, Enqueued, AfterBatch
<1>7. CASE ScheduleDrain
  BY <1>7 DEF TypeOK, EventsTypeOK, ScheduleDrain, AfterSchedule, AfterBatch
<1>8. CASE PostDrain
  BY <1>8 DEF TypeOK, EventsTypeOK, CountersTypeOK, FlagsTypeOK, Event, PostDrain
<1>9. CASE OnFinished
  BY <1>9 DEF TypeOK, EventsTypeOK, CountersTypeOK, FlagsTypeOK, Event, OnFinished
<1>10. CASE WorkerExit
  BY <1>10 DEF TypeOK, EventsTypeOK, WorkerExit
<1>11. CASE DispatchDrain
  BY <1>11 DEF TypeOK, EventsTypeOK, DispatchDrain, StartDrain
<1>12. CASE DrainGeneration
  BY <1>12 DEF TypeOK, EventsTypeOK, DrainGeneration, Woken, AfterDrain
<1>13. CASE DispatchStaleFinished
  BY <1>13 DEF TypeOK, EventsTypeOK, DispatchStaleFinished
<1>14. CASE DispatchFinished
  BY <1>14 DEF TypeOK, EventsTypeOK, DispatchFinished, EndStreaming, StreamingErrors
<1>15. CASE ChainNextFile
  BY <1>15 DEF TypeOK, EventsTypeOK, ChainNextFile, AppendStreaming, Arm, BumpGeneration
<1>16. CASE Join
  BY <1>16 DEF TypeOK, EventsTypeOK, Join
<1>17. CASE DrainNow
  BY <1>17 DEF TypeOK, EventsTypeOK, DrainNow, StartDrain
<1>18. CASE FinishStop
  BY <1>18 DEF TypeOK, EventsTypeOK, FinishStop, DropPendingBatches, BumpGeneration, Woken, AppendPaused
<1>19. CASE FinishReset
  BY <1>19 DEF TypeOK, EventsTypeOK, FinishReset, DropPendingBatches, BumpGeneration, Woken
<1>20. CASE BeginOpen
  <2>1. CASE BeginStreaming(IF guiOp = "openLive" THEN "LiveTail" ELSE "Static") /\ UNCHANGED <<events, retention, pendingFiles>>
    BY <1>20, <2>1 DEF TypeOK, EventsTypeOK, BeginOpen, BeginStreaming, StartingCap, Arm, BumpGeneration
  <2>2. CASE UNCHANGED <<queueVars, pauseVars, sinkVars, workerVars, modelVars, ghostVars>>
    BY <1>20, <2>2 DEF TypeOK, EventsTypeOK, BeginOpen
  <2> QED BY <1>20, <2>1, <2>2 DEF BeginOpen
<1>21. ASSUME NEW op \in AllCommands, ReplaceSession(op) PROVE EventsTypeOK'
  BY <1>21 DEF TypeOK, EventsTypeOK, ReplaceSession, StartTeardown, RequestStop, Woken
<1>22. CASE StopStream
  BY <1>22 DEF TypeOK, EventsTypeOK, StopStream, StartTeardown, RequestStop, Woken
<1>23. CASE QueueFile
  BY <1>23 DEF TypeOK, EventsTypeOK, QueueFile
<1>24. CASE AppendFile
  <2>1. CASE BeginStreaming("Static") /\ UNCHANGED <<events, retention, pendingFiles, guiVars>>
    BY <2>1 DEF TypeOK, EventsTypeOK, BeginStreaming, StartingCap, Arm, BumpGeneration
  <2>2. CASE AppendStreaming /\ UNCHANGED <<events, retention, pendingFiles, lastReported, guiVars>> /\ mode' = "Static"
    BY <2>2 DEF TypeOK, EventsTypeOK, AppendStreaming, Arm, BumpGeneration
  <2>3. CASE /\ UNCHANGED <<table, cap, retention, streamingActive, lastReported, pendingFiles>>
             /\ UNCHANGED <<queueVars, pauseVars, sinkVars, workerVars, ghostVars, guiVars>>
             /\ mode' \in {"Static", mode}
    BY <2>3 DEF TypeOK, EventsTypeOK
  <2> QED BY <1>24, <2>1, <2>2, <2>3 DEF AppendFile
<1>25. CASE Pause
  BY <1>25 DEF TypeOK, EventsTypeOK, Pause
<1>26. CASE Resume
  BY <1>26 DEF TypeOK, EventsTypeOK, Resume, AppendPaused
<1>27. ASSUME NEW c \in Caps, SetRetentionCap(c) PROVE EventsTypeOK'
  BY <1>27 DEF TypeOK, EventsTypeOK, SetRetentionCap
<1>28. CASE UNCHANGED vars
  BY <1>28 DEF vars, TypeOK, EventsTypeOK
<1> QED
  BY <1>1, <1>2, <1>3, <1>4, <1>5, <1>6, <1>7, <1>8, <1>9, <1>10, <1>11, <1>12, <1>13, <1>14, <1>15, <1>16, <1>17, <1>18, <1>19, <1>20, <1>21, <1>22, <1>23, <1>24, <1>25, <1>26, <1>27, <1>28 DEF Next, Worker, Dispatch, Teardown, User

(* Rows stay rows, wherever they are kept.                                 *)
LEMMA RowsStep == ASSUME TypeOK, [Next]_vars PROVE RowsTypeOK'
<1> USE ConstantsAssumption
<1> USE DEF queueVars, pauseVars, sinkVars, workerVars, modelVars, guiVars, ghostVars
<1>1. ASSUME NEW k \in BatchSizes, ParseBatch(k) PROVE RowsTypeOK'
  <2>1. NewRows(k) \in Seq(Row)
    BY NewRowsType
  <2> QED BY <1>1, <2>1 DEF TypeOK, RowsTypeOK, ParseBatch
<1>2. ASSUME NEW k \in BatchSizes \union {0}, ParseFinish(k) PROVE RowsTypeOK'
  <2>1. NewRows(k) \in Seq(Row)
    BY NewRowsType
  <2> QED BY <1>2, <2>1 DEF TypeOK, RowsTypeOK, ParseFinish
<1>3. CASE ParseThrow
  BY <1>3 DEF TypeOK, RowsTypeOK, ParseThrow
<1>4. CASE OnBatch
  BY <1>4 DEF TypeOK, RowsTypeOK, OnBatch
<1>5. CASE BufferWhilePaused
  <2> DEFINE all == pausedRows \o hand
             kept == IF wCap # 0 THEN LastN(all, wCap) ELSE all
  <2>1. all \in Seq(Row)
    BY DEF TypeOK, RowsTypeOK
  <2>2. kept \in Seq(Row)
    BY <2>1, LastNType DEF TypeOK, CountersTypeOK
  <2>3. RowsOf(all) \ RowsOf(kept) \in SUBSET Row /\ "overflow" \in Causes
    BY <2>1, RowsOfType DEF Causes
  <2>4. Lose("overflow", RowsOf(all) \ RowsOf(kept)) \in [Causes -> SUBSET Row]
    BY <2>3, LoseType DEF TypeOK
  <2>5. /\ pausedRows' \in {pausedRows, kept}
        /\ (hand' = hand \/ hand' = <<>>)
        /\ lost' \in {lost, Lose("overflow", RowsOf(all) \ RowsOf(kept))}
        /\ UNCHANGED <<pendingRows, table>>
    BY <1>5 DEF BufferWhilePaused
  <2> HIDE DEF all, kept
  <2> QED BY <2>2, <2>4, <2>5, NoRowsType, Zenon DEF TypeOK, RowsTypeOK
<1>6. CASE WaitEnqueue
  <2>1. RowsOf(hand) \in SUBSET Row /\ "shutdown" \in Causes
    BY RowsOfType DEF TypeOK, RowsTypeOK, Causes
  <2>2. Lose("shutdown", RowsOf(hand)) \in [Causes -> SUBSET Row]
    BY <2>1, LoseType DEF TypeOK
  <2>3. /\ pendingRows' \in {pendingRows, pendingRows \o hand}
        /\ (hand' = hand \/ hand' = <<>>)
        /\ lost' \in {lost, Lose("shutdown", RowsOf(hand))}
        /\ UNCHANGED <<pausedRows, table>>
    BY <1>6 DEF WaitEnqueue, Enqueued
  <2> QED BY <2>2, <2>3, NoRowsType, ConcatType, Zenon DEF TypeOK, RowsTypeOK
<1>7. CASE ScheduleDrain
  BY <1>7 DEF TypeOK, RowsTypeOK, ScheduleDrain, AfterSchedule, AfterBatch
<1>8. CASE PostDrain
  BY <1>8 DEF TypeOK, RowsTypeOK, PostDrain, AfterBatch
<1>9. CASE OnFinished
  BY <1>9 DEF TypeOK, RowsTypeOK, OnFinished
<1>10. CASE WorkerExit
  BY <1>10 DEF TypeOK, RowsTypeOK, WorkerExit
<1>11. CASE DispatchDrain
  BY <1>11 DEF TypeOK, RowsTypeOK, DispatchDrain, StartDrain
<1>12. CASE DrainGeneration
  <2>1. RowsOf(pendingRows) \in SUBSET Row /\ "stale" \in Causes
    BY RowsOfType DEF TypeOK, RowsTypeOK, Causes
  <2>2. Lose("stale", RowsOf(pendingRows)) \in [Causes -> SUBSET Row]
    BY <2>1, LoseType DEF TypeOK
  <2>3. pendingRows' = <<>> /\ UNCHANGED <<pausedRows, hand>>
    BY <1>12 DEF DrainGeneration
  <2>4. CASE AppendBatch(pendingRows)
    BY <2>3, <2>4, AppendBatchType DEF TypeOK, RowsTypeOK
  <2>5. CASE table' = table /\ lost' \in {lost, Lose("stale", RowsOf(pendingRows))}
    BY <2>2, <2>3, <2>5 DEF TypeOK, RowsTypeOK
  <2> QED BY <1>12, <2>4, <2>5 DEF DrainGeneration
<1>13. CASE DispatchStaleFinished
  BY <1>13 DEF TypeOK, RowsTypeOK, DispatchStaleFinished
<1>14. CASE DispatchFinished
  BY <1>14 DEF TypeOK, RowsTypeOK, DispatchFinished, EndStreaming, StreamingErrors
<1>15. CASE ChainNextFile
  BY <1>15, NoLossType DEF TypeOK, RowsTypeOK, ChainNextFile, AppendStreaming, Arm, BumpGeneration
<1>16. CASE Join
  BY <1>16 DEF TypeOK, RowsTypeOK, Join
<1>17. CASE DrainNow
  BY <1>17 DEF TypeOK, RowsTypeOK, DrainNow, StartDrain
<1>18. CASE FinishStop
  <2>1. pausedRows' = <<>> /\ hand' = hand /\ (pendingRows' = pendingRows \/ pendingRows' = <<>>)
    BY <1>18 DEF FinishStop, DropPendingBatches
  <2>2. CASE AppendBatch(pausedRows)
    <3>1. table' \in Seq(Row) /\ lost' \in [Causes -> SUBSET Row]
      BY <2>2, AppendBatchType DEF TypeOK, RowsTypeOK
    <3> QED BY <2>1, <3>1, NoRowsType, Zenon DEF TypeOK, RowsTypeOK
  <2>3. CASE UNCHANGED <<table, lost>>
    BY <2>1, <2>3, NoRowsType, Zenon DEF TypeOK, RowsTypeOK
  <2> QED BY <1>18, <2>2, <2>3 DEF FinishStop, AppendPaused
<1>19. CASE FinishReset
  BY <1>19, NoLossType DEF TypeOK, RowsTypeOK, FinishReset, DropPendingBatches, BumpGeneration, Woken
<1>20. CASE BeginOpen
  <2>1. CASE BeginStreaming(IF guiOp = "openLive" THEN "LiveTail" ELSE "Static") /\ UNCHANGED <<events, retention, pendingFiles>>
    BY <1>20, <2>1, NoLossType DEF TypeOK, RowsTypeOK, BeginOpen, BeginStreaming, StartingCap, Arm, BumpGeneration
  <2>2. CASE UNCHANGED <<queueVars, pauseVars, sinkVars, workerVars, modelVars, ghostVars>>
    BY <1>20, <2>2 DEF TypeOK, RowsTypeOK, BeginOpen
  <2> QED BY <1>20, <2>1, <2>2 DEF BeginOpen
<1>21. ASSUME NEW op \in AllCommands, ReplaceSession(op) PROVE RowsTypeOK'
  BY <1>21 DEF TypeOK, RowsTypeOK, ReplaceSession, StartTeardown, RequestStop, Woken
<1>22. CASE StopStream
  BY <1>22 DEF TypeOK, RowsTypeOK, StopStream, StartTeardown, RequestStop, Woken
<1>23. CASE QueueFile
  BY <1>23 DEF TypeOK, RowsTypeOK, QueueFile
<1>24. CASE AppendFile
  <2>1. CASE BeginStreaming("Static") /\ UNCHANGED <<events, retention, pendingFiles, guiVars>>
    BY <2>1, NoLossType DEF TypeOK, RowsTypeOK, BeginStreaming, StartingCap, Arm, BumpGeneration
  <2>2. CASE AppendStreaming /\ UNCHANGED <<events, retention, pendingFiles, lastReported, guiVars>> /\ mode' = "Static"
    BY <2>2, NoLossType DEF TypeOK, RowsTypeOK, AppendStreaming, Arm, BumpGeneration
  <2>3. CASE /\ UNCHANGED <<table, cap, retention, streamingActive, lastReported, pendingFiles>>
             /\ UNCHANGED <<queueVars, pauseVars, sinkVars, workerVars, ghostVars, guiVars>>
             /\ mode' \in {"Static", mode}
    BY <2>3 DEF TypeOK, RowsTypeOK
  <2> QED BY <1>24, <2>1, <2>2, <2>3 DEF AppendFile
<1>25. CASE Pause
  BY <1>25 DEF TypeOK, RowsTypeOK, Pause
<1>26. CASE Resume
  <2>1. pausedRows' = <<>> /\ hand' = hand /\ (pendingRows' = pendingRows \/ pendingRows' = <<>>)
    BY <1>26 DEF Resume
  <2>2. CASE AppendBatch(pausedRows)
    <3>1. table' \in Seq(Row) /\ lost' \in [Causes -> SUBSET Row]
      BY <2>2, AppendBatchType DEF TypeOK, RowsTypeOK
    <3> QED BY <2>1, <3>1, NoRowsType, Zenon DEF TypeOK, RowsTypeOK
  <2>3. CASE UNCHANGED <<table, lost>>
    BY <2>1, <2>3, NoRowsType, Zenon DEF TypeOK, RowsTypeOK
  <2> QED BY <1>26, <2>2, <2>3 DEF Resume, AppendPaused
<1>27. ASSUME NEW c \in Caps, SetRetentionCap(c) PROVE RowsTypeOK'
  <2> DEFINE maxBuffered == IF Len(table) >= c THEN 0 ELSE c - Len(table)
             trimmed == LastN(pausedRows, maxBuffered)
  <2>1. maxBuffered \in Nat /\ c \in Nat
    BY DEF TypeOK, RowsTypeOK
  <2>2. trimmed \in Seq(Row) /\ LastN(table, c) \in Seq(Row)
    BY <2>1, LastNType DEF TypeOK, RowsTypeOK
  <2>3. RowsOf(table) \in SUBSET Row /\ RowsOf(pausedRows) \in SUBSET Row
    BY RowsOfType DEF TypeOK, RowsTypeOK
  <2>4. /\ RowsOf(table) \ RowsOf(LastN(table, c)) \in SUBSET Row
        /\ RowsOf(pausedRows) \ RowsOf(trimmed) \in SUBSET Row
        /\ {"evicted", "trimmed"} \subseteq Causes
    BY <2>3 DEF Causes
  <2>5. /\ Lose("evicted", RowsOf(table) \ RowsOf(LastN(table, c))) \in [Causes -> SUBSET Row]
        /\ Lose("trimmed", RowsOf(pausedRows) \ RowsOf(trimmed)) \in [Causes -> SUBSET Row]
    BY <2>4, LoseType DEF TypeOK
  <2>6. /\ table' \in {table, LastN(table, c)}
        /\ pausedRows' \in {pausedRows, trimmed}
        /\ lost' \in {lost, Lose("evicted", RowsOf(table) \ RowsOf(LastN(table, c))),
                     Lose("trimmed", RowsOf(pausedRows) \ RowsOf(trimmed))}
        /\ UNCHANGED <<hand, pendingRows>>
    BY <1>27 DEF SetRetentionCap
  <2> HIDE DEF maxBuffered, trimmed
  <2> QED BY <2>2, <2>5, <2>6 DEF TypeOK, RowsTypeOK
<1>28. CASE UNCHANGED vars
  BY <1>28 DEF vars, TypeOK, RowsTypeOK
<1> QED
  BY <1>1, <1>2, <1>3, <1>4, <1>5, <1>6, <1>7, <1>8, <1>9, <1>10, <1>11, <1>12, <1>13, <1>14, <1>15, <1>16, <1>17, <1>18, <1>19, <1>20, <1>21, <1>22, <1>23, <1>24, <1>25, <1>26, <1>27, <1>28 DEF Next, Worker, Dispatch, Teardown, User

(* Spec keeps every variable in its type, whatever the bounds: no counter  *)
(* of the queue, the sink or the model goes below zero, and the two        *)
(* threads never leave the positions the code has.                         *)
THEOREM TypeCorrect == Spec => []TypeOK
<1>1. TypeOK /\ [Next]_vars => TypeOK'
  BY FlagsStep, CountersStep, ControlStep, EventsStep, RowsStep DEF TypeOK
<1> QED
  BY InitType, <1>1, PTL DEF Spec

-----------------------------------------------------------------------------
(* Eviction.                                                               *)

(* AppendBatch's three steps keep the newest cap rows of the table         *)
(* followed by the batch: the batch alone fills the cap, everything fits,  *)
(* or some of the oldest rows of the table go.                             *)
LEMMA AppendKeepsNewest ==
    ASSUME NEW tab \in Seq(Row), NEW rows \in Seq(Row), cap \in Nat \ {0}
    PROVE  AppendRows(tab, rows) = LastN(tab \o rows, cap)
<1> DEFINE all == tab \o rows
           kept == IF cap # 0 THEN LastN(rows, cap) ELSE rows
           total == Len(tab) + Len(kept)
           excess == IF cap # 0 /\ total > cap THEN total - cap ELSE 0
           dropCount == IF excess < Len(tab) THEN excess ELSE Len(tab)
           front == SubSeq(tab, dropCount + 1, Len(tab))
<1>1. AppendRows(tab, rows) = front \o kept
  BY Zenon DEF AppendRows
<1>2. all \in Seq(Row) /\ Len(all) = Len(tab) + Len(rows) /\ Len(tab) \in Nat /\ Len(rows) \in Nat
  OBVIOUS
<1>3. CASE Len(rows) > cap
  <2>1. kept = SubSeq(rows, Len(rows) - cap + 1, Len(rows)) /\ kept \in Seq(Row) /\ Len(kept) = cap
    BY <1>3 DEF LastN
  <2>2. dropCount = Len(tab)
    BY <2>1
  <2>3. front = <<>>
    <3> HIDE DEF dropCount
    <3> QED BY <2>2, <1>2, SubSeqEmpty
  <2>4. front \o kept = kept
    <3> HIDE DEF front, kept
    <3> QED BY <2>1, <2>3, ConcatEmptySeq
  <2>5. LastN(all, cap) = SubSeq(all, Len(tab) + Len(rows) - cap + 1, Len(tab) + Len(rows))
    BY <1>2, <1>3 DEF LastN
  <2>6. SubSeq(all, Len(tab) + Len(rows) - cap + 1, Len(tab) + Len(rows))
          = SubSeq(rows, Len(rows) - cap + 1, Len(rows))
    <3>1. /\ Len(tab) + Len(rows) - cap + 1 \in Len(tab) + 1 .. Len(tab) + Len(rows)
          /\ Len(tab) + Len(rows) \in Len(tab) + 1 .. Len(tab) + Len(rows)
          /\ Len(tab) + Len(rows) - cap + 1 - Len(tab) = Len(rows) - cap + 1
          /\ Len(tab) + Len(rows) - Len(tab) = Len(rows)
      BY <1>2, <1>3
    <3> DEFINE m == Len(tab) + Len(rows) - cap + 1
               n == Len(tab) + Len(rows)
    <3>2. m \in Len(tab) + 1 .. Len(tab) + Len(rows) /\ n \in Len(tab) + 1 .. Len(tab) + Len(rows)
      BY <3>1
    <3> HIDE DEF m, n
    <3>3. SubSeq(all, m, n) = SubSeq(rows, m - Len(tab), n - Len(tab))
      BY <3>2, SubSeqOfConcat2
    <3> QED
      BY <3>1, <3>3 DEF m, n
  <2> HIDE DEF kept, front
  <2> QED
    BY <1>1, <2>1, <2>4, <2>5, <2>6
<1>4. CASE Len(rows) <= cap /\ Len(tab) + Len(rows) <= cap
  <2>1. kept = rows /\ LastN(all, cap) = all
    BY <1>2, <1>4 DEF LastN
  <2>2. dropCount = 0
    BY <1>2, <1>4, <2>1
  <2>3. front = tab
    <3> HIDE DEF dropCount
    <3> QED BY <2>2, SubSeqFull
  <2> HIDE DEF front, kept
  <2> QED
    BY <1>1, <2>1, <2>3
<1>5. CASE Len(rows) <= cap /\ Len(tab) + Len(rows) > cap
  <2>1. kept = rows
    BY <1>5 DEF LastN
  <2>2. dropCount = Len(tab) + Len(rows) - cap /\ dropCount \in 0 .. Len(tab)
    BY <1>2, <1>5, <2>1
  <2>3. LastN(all, cap) = SubSeq(all, dropCount + 1, Len(all))
    <3>1. Len(all) - cap + 1 = dropCount + 1 /\ Len(all) > cap
      BY <1>2, <1>5, <2>2
    <3> HIDE DEF dropCount, all
    <3> QED BY <3>1 DEF LastN
  <2> HIDE DEF dropCount
  <2>4. front \in Seq(Row) /\ Len(front) = Len(tab) - dropCount
    BY <2>2, <1>2
  <2>5. \A i \in 1 .. Len(tab) - dropCount : front[i] = tab[dropCount + i]
    BY <2>2, <1>2
  <2>6. \A i \in 1 .. cap : (front \o rows)[i] = all[dropCount + i]
    <3> SUFFICES ASSUME NEW i \in 1 .. cap
                 PROVE  (front \o rows)[i] = all[dropCount + i]
      OBVIOUS
    <3> HIDE DEF front
    <3> DEFINE j == dropCount + i
    <3>1. j \in 1 .. Len(tab) + Len(rows) /\ i \in 1 .. Len(front) + Len(rows)
      BY <1>2, <2>2, <2>4
    <3>2. all[j] = IF j <= Len(tab) THEN tab[j] ELSE rows[j - Len(tab)]
      <4> HIDE DEF j
      <4> QED BY <3>1, ConcatProperties
    <3>3. (front \o rows)[i] = IF i <= Len(front) THEN front[i] ELSE rows[i - Len(front)]
      BY <2>4, <3>1, ConcatProperties
    <3>4. CASE i <= Len(front)
      BY <1>2, <2>2, <2>4, <2>5, <3>2, <3>3, <3>4
    <3>5. CASE i > Len(front)
      <4>1. j > Len(tab) /\ j - Len(tab) = i - Len(front)
        BY <1>2, <2>2, <2>4, <3>5
      <4> HIDE DEF j, all
      <4> QED BY <1>2, <2>4, <3>1, <3>2, <3>3, <3>5, <4>1 DEF j
    <3>6. i <= Len(front) \/ i > Len(front)
      BY <2>2, <2>4, <1>2
    <3> HIDE DEF all, j
    <3> QED
      BY <3>4, <3>5, <3>6
  <2>7. /\ SubSeq(all, dropCount + 1, Len(all)) \in Seq(Row)
        /\ Len(SubSeq(all, dropCount + 1, Len(all))) = cap
        /\ \A i \in 1 .. cap : SubSeq(all, dropCount + 1, Len(all))[i] = all[dropCount + i]
    <3> HIDE DEF all
    <3> QED BY <1>2, <2>2
  <2>8. front \o rows \in Seq(Row) /\ Len(front \o rows) = cap
    <3> HIDE DEF front
    <3> QED BY <1>2, <2>2, <2>4
  <2> HIDE DEF front, all, kept
  <2>9. front \o rows = SubSeq(all, dropCount + 1, Len(all))
    <3> DEFINE a == front \o rows
               b == SubSeq(all, dropCount + 1, Len(all))
    <3>1. a \in Seq(Row) /\ b \in Seq(Row) /\ Len(a) = cap /\ Len(b) = cap /\ \A i \in 1 .. cap : a[i] = b[i]
      BY <2>6, <2>7, <2>8
    <3> HIDE DEF a, b
    <3>2. a = b
      BY <3>1, SeqEqual
    <3> QED BY <3>2 DEF a, b
  <2> QED
    BY <1>1, <2>1, <2>3, <2>9 DEF all
<1> QED
  BY <1>2, <1>3, <1>4, <1>5

(* LogModel::AppendBatch, for every cap, table and batch: whatever the     *)
(* boundaries of the collapse and of the eviction, exactly the newest cap  *)
(* rows stay.                                                              *)
THEOREM EvictionKeepsNewest == Spec => []EvictionIsSuffix
<1>1. TypeOK => EvictionIsSuffix
  <2> SUFFICES ASSUME TypeOK, NEW rows \in {pendingRows, pausedRows}
               PROVE  AppendRows(table, rows) = IF cap = 0 THEN table \o rows ELSE LastN(table \o rows, cap)
    BY DEF EvictionIsSuffix
  <2>1. table \in Seq(Row) /\ rows \in Seq(Row) /\ cap \in Nat
    BY DEF TypeOK, RowsTypeOK, CountersTypeOK
  <2>2. CASE cap = 0
    <3> DEFINE kept == IF cap # 0 THEN LastN(rows, cap) ELSE rows
               total == Len(table) + Len(kept)
               excess == IF cap # 0 /\ total > cap THEN total - cap ELSE 0
               dropCount == IF excess < Len(table) THEN excess ELSE Len(table)
    <3>1. AppendRows(table, rows) = SubSeq(table, dropCount + 1, Len(table)) \o kept
      BY Zenon DEF AppendRows
    <3>2. kept = rows /\ dropCount = 0
      BY <2>1, <2>2
    <3> HIDE DEF kept, dropCount
    <3>3. SubSeq(table, dropCount + 1, Len(table)) = table
      BY <2>1, <3>2, SubSeqFull
    <3> QED BY <2>2, <3>1, <3>2, <3>3
  <2>3. CASE cap # 0
    BY <2>1, <2>3, AppendKeepsNewest
  <2> QED BY <2>2, <2>3
<1> QED
  BY <1>1, TypeCorrect, PTL

-----------------------------------------------------------------------------
(* No wakeup is lost.                                                      *)

HasDrain == \E i \in DOMAIN events : LiveDrain(i)

EventsPast == \A i \in DOMAIN events : events[i].gen <= generation

FinishIsLast ==
    \A i \in DOMAIN events : LiveFinish(i) => wpc \in {"finishing", "done"}

(* The inductive invariant.                                                *)
Wakeups ==
    /\ TypeOK
    /\ ParkedMeansFull
    /\ DrainPromise
    /\ EventsPast
    /\ FinishIsLast
    /\ FinishedAfterDelivery

-----------------------------------------------------------------------------
(* The queue of posted lambdas.                                            *)

(* Dispatching takes the first lambda and moves the others up by one.      *)
LEMMA Popped ==
    ASSUME events \in Seq(Event), events # <<>>, events' = Tail(events)
    PROVE  /\ Head(events) = events[1] /\ 1 \in DOMAIN events
           /\ DOMAIN events' = 1 .. Len(events) - 1
           /\ DOMAIN events = 1 .. Len(events) /\ Len(events) \in Nat
           /\ \A i \in DOMAIN events' : i + 1 \in DOMAIN events /\ events'[i] = events[i + 1]
OBVIOUS

(* Posting puts a lambda behind all others.                                *)
LEMMA Posted ==
    ASSUME events \in Seq(Event), NEW e, events' = Append(events, e)
    PROVE  /\ DOMAIN events = 1 .. Len(events) /\ Len(events) \in Nat
           /\ DOMAIN events' = 1 .. Len(events) + 1
           /\ \A i \in DOMAIN events : events'[i] = events[i]
           /\ events'[Len(events) + 1] = e
OBVIOUS

(* A live drain survives the dispatch of a finished lambda.                *)
LEMMA PoppedFinish ==
    ASSUME events \in Seq(Event), events # <<>>, events' = Tail(events),
           Head(events).kind = "finished", generation' = generation, HasDrain
    PROVE  HasDrain'
<1>1. PICK i \in DOMAIN events : LiveDrain(i)
  BY DEF HasDrain
<1>2. i # 1 /\ i \in 1 .. Len(events)
  BY <1>1, Popped DEF LiveDrain
<1>3. i - 1 \in DOMAIN events' /\ events'[i - 1] = events[i]
  BY <1>2, Popped
<1> QED
  BY <1>1, <1>3 DEF HasDrain, LiveDrain

(* Moving on to the next generation leaves no live lambda behind.          *)
LEMMA Bumped ==
    ASSUME TypeOK, EventsPast, BumpGeneration,
           events' = events \/ (events # <<>> /\ events' = Tail(events))
    PROVE  EventsPast' /\ \A i \in DOMAIN events' : events'[i].gen # generation'
<1>1. \A i \in DOMAIN events : events[i].gen \in Nat /\ events[i].gen <= generation
  <2>1. \A i \in DOMAIN events : events[i] \in Event
    BY DEF TypeOK, EventsTypeOK
  <2> QED
    BY <2>1 DEF Event, EventsPast
<1>2. \A i \in DOMAIN events' : events'[i].gen \in Nat /\ events'[i].gen <= generation
  <2>1. CASE events' = events
    BY <1>1, <2>1
  <2>2. CASE events # <<>> /\ events' = Tail(events)
    BY <1>1, <2>2, Popped DEF TypeOK, EventsTypeOK
  <2> QED BY <2>1, <2>2
<1>3. generation \in Nat /\ generation' = generation + 1
  BY DEF TypeOK, CountersTypeOK, BumpGeneration
<1> QED
  BY <1>2, <1>3 DEF EventsPast

-----------------------------------------------------------------------------
(* The step of each invariant.                                             *)

(* The worker sleeps on a full queue only; whoever changes it wakes it.    *)
LEMMA ParkedStep == ASSUME TypeOK, ParkedMeansFull, [Next]_vars PROVE ParkedMeansFull'
<1> USE ConstantsAssumption DEF queueVars, pauseVars, sinkVars, workerVars, modelVars, guiVars, ghostVars
<1>1. ASSUME NEW k \in BatchSizes, ParseBatch(k) PROVE ParkedMeansFull'
  BY <1>1 DEF TypeOK, ControlTypeOK, CountersTypeOK, ParkedMeansFull, ParseBatch
<1>2. ASSUME NEW k \in BatchSizes \union {0}, ParseFinish(k) PROVE ParkedMeansFull'
  BY <1>2 DEF TypeOK, ControlTypeOK, CountersTypeOK, ParkedMeansFull, ParseFinish
<1>3. CASE ParseThrow
  BY <1>3 DEF TypeOK, ControlTypeOK, CountersTypeOK, ParkedMeansFull, ParseThrow
<1>4. CASE OnBatch
  BY <1>4 DEF TypeOK, ControlTypeOK, CountersTypeOK, ParkedMeansFull, OnBatch
<1>5. CASE BufferWhilePaused
  BY <1>5 DEF TypeOK, ControlTypeOK, CountersTypeOK, ParkedMeansFull, BufferWhilePaused, CountDrops, AfterBatch
<1>6. CASE WaitEnqueue
  BY <1>6 DEF TypeOK, ControlTypeOK, CountersTypeOK, ParkedMeansFull, WaitEnqueue, Enqueued, AfterBatch
<1>7. CASE ScheduleDrain
  BY <1>7 DEF TypeOK, ControlTypeOK, CountersTypeOK, ParkedMeansFull, ScheduleDrain, AfterSchedule, AfterBatch
<1>8. CASE PostDrain
  BY <1>8 DEF TypeOK, ControlTypeOK, CountersTypeOK, ParkedMeansFull, PostDrain, AfterBatch
<1>9. CASE OnFinished
  BY <1>9 DEF TypeOK, ControlTypeOK, CountersTypeOK, ParkedMeansFull, OnFinished
<1>10. CASE WorkerExit
  BY <1>10 DEF TypeOK, ControlTypeOK, CountersTypeOK, ParkedMeansFull, WorkerExit
<1>11. CASE DispatchDrain
  BY <1>11 DEF TypeOK, ControlTypeOK, CountersTypeOK, ParkedMeansFull, DispatchDrain, StartDrain
<1>12. CASE DrainGeneration
  BY <1>12 DEF TypeOK, ControlTypeOK, CountersTypeOK, ParkedMeansFull, DrainGeneration, Woken, AfterDrain
<1>13. CASE DispatchStaleFinished
  BY <1>13 DEF TypeOK, ControlTypeOK, CountersTypeOK, ParkedMeansFull, DispatchStaleFinished
<1>14. CASE DispatchFinished
  BY <1>14 DEF TypeOK, ControlTypeOK, CountersTypeOK, ParkedMeansFull, DispatchFinished, EndStreaming, StreamingErrors
<1>15. CASE ChainNextFile
  BY <1>15 DEF TypeOK, ControlTypeOK, CountersTypeOK, ParkedMeansFull, ChainNextFile, AppendStreaming, Arm, BumpGeneration
<1>16. CASE Join
  BY <1>16 DEF TypeOK, ControlTypeOK, CountersTypeOK, ParkedMeansFull, Join
<1>17. CASE DrainNow
  BY <1>17 DEF TypeOK, ControlTypeOK, CountersTypeOK, ParkedMeansFull, DrainNow, StartDrain
<1>18. CASE FinishStop
  BY <1>18 DEF TypeOK, ControlTypeOK, CountersTypeOK, ParkedMeansFull, FinishStop, DropPendingBatches, BumpGeneration, Woken, AppendPaused
<1>19. CASE FinishReset
  BY <1>19 DEF TypeOK, ControlTypeOK, CountersTypeOK, ParkedMeansFull, FinishReset, DropPendingBatches, BumpGeneration, Woken
<1>20. CASE BeginOpen
  BY <1>20 DEF TypeOK, ControlTypeOK, CountersTypeOK, ParkedMeansFull, BeginOpen, BeginStreaming, StartingCap, Arm, BumpGeneration
<1>21. ASSUME NEW op \in AllCommands, ReplaceSession(op) PROVE ParkedMeansFull'
  BY <1>21 DEF TypeOK, ControlTypeOK, CountersTypeOK, ParkedMeansFull, ReplaceSession, StartTeardown, RequestStop, Woken
<1>22. CASE StopStream
  BY <1>22 DEF TypeOK, ControlTypeOK, CountersTypeOK, ParkedMeansFull, StopStream, StartTeardown, RequestStop, Woken
<1>23. CASE QueueFile
  BY <1>23 DEF TypeOK, ControlTypeOK, CountersTypeOK, ParkedMeansFull, QueueFile
<1>24. CASE AppendFile
  BY <1>24 DEF TypeOK, ControlTypeOK, CountersTypeOK, ParkedMeansFull, AppendFile, AppendStreaming, BeginStreaming, StartingCap, Arm, BumpGeneration
<1>25. CASE Pause
  BY <1>25 DEF TypeOK, ControlTypeOK, CountersTypeOK, ParkedMeansFull, Pause
<1>26. CASE Resume
  BY <1>26 DEF TypeOK, ControlTypeOK, CountersTypeOK, ParkedMeansFull, Resume, AppendPaused
<1>27. ASSUME NEW c \in Caps, SetRetentionCap(c) PROVE ParkedMeansFull'
  BY <1>27 DEF TypeOK, ControlTypeOK, CountersTypeOK, ParkedMeansFull, SetRetentionCap
<1>28. CASE UNCHANGED vars
  BY <1>28 DEF TypeOK, ControlTypeOK, CountersTypeOK, ParkedMeansFull, vars
<1> QED
  BY <1>1, <1>2, <1>3, <1>4, <1>5, <1>6, <1>7, <1>8, <1>9, <1>10, <1>11, <1>12, <1>13, <1>14, <1>15, <1>16, <1>17, <1>18, <1>19, <1>20, <1>21, <1>22, <1>23, <1>24, <1>25, <1>26, <1>27, <1>28 DEF Next, Worker, Dispatch, Teardown, User

(* A queued batch always has a drain on its way.                           *)
LEMMA DrainStep == ASSUME TypeOK, DrainPromise, [Next]_vars PROVE DrainPromise'
<1> USE ConstantsAssumption DEF queueVars, pauseVars, sinkVars, workerVars, modelVars, guiVars, ghostVars
<1>1. ASSUME NEW k \in BatchSizes, ParseBatch(k) PROVE DrainPromise'
  BY <1>1 DEF TypeOK, ControlTypeOK, CountersTypeOK, DrainPromise, LiveDrain, Draining, ParseBatch
<1>2. ASSUME NEW k \in BatchSizes \union {0}, ParseFinish(k) PROVE DrainPromise'
  BY <1>2 DEF TypeOK, ControlTypeOK, CountersTypeOK, DrainPromise, LiveDrain, Draining, ParseFinish
<1>3. CASE ParseThrow
  BY <1>3 DEF TypeOK, ControlTypeOK, CountersTypeOK, DrainPromise, LiveDrain, Draining, ParseThrow
<1>4. CASE OnBatch
  BY <1>4 DEF TypeOK, ControlTypeOK, CountersTypeOK, DrainPromise, LiveDrain, Draining, OnBatch
<1>5. CASE BufferWhilePaused
  BY <1>5 DEF TypeOK, ControlTypeOK, CountersTypeOK, DrainPromise, LiveDrain, Draining, BufferWhilePaused, CountDrops, AfterBatch
<1>6. CASE WaitEnqueue
  BY <1>6 DEF TypeOK, ControlTypeOK, CountersTypeOK, DrainPromise, LiveDrain, Draining, WaitEnqueue, Enqueued, AfterBatch
<1>7. CASE ScheduleDrain
  BY <1>7 DEF TypeOK, ControlTypeOK, CountersTypeOK, DrainPromise, LiveDrain, Draining, ScheduleDrain, AfterSchedule, AfterBatch
<1>8. CASE PostDrain
  <2>1. HasDrain'
    BY <1>8, Posted DEF TypeOK, EventsTypeOK, HasDrain, LiveDrain, PostDrain
  <2> QED
    BY <2>1 DEF DrainPromise, HasDrain
<1>9. CASE OnFinished
  <2>1. HasDrain => HasDrain'
    BY <1>9, Posted DEF TypeOK, EventsTypeOK, HasDrain, LiveDrain, OnFinished
  <2> QED
    BY <1>9, <2>1 DEF DrainPromise, HasDrain, Draining, OnFinished
<1>10. CASE WorkerExit
  BY <1>10 DEF TypeOK, ControlTypeOK, CountersTypeOK, DrainPromise, LiveDrain, Draining, WorkerExit
<1>11. CASE DispatchDrain
  BY <1>11 DEF TypeOK, ControlTypeOK, CountersTypeOK, DrainPromise, LiveDrain, Draining, DispatchDrain, StartDrain
<1>12. CASE DrainGeneration
  BY <1>12 DEF TypeOK, ControlTypeOK, CountersTypeOK, DrainPromise, LiveDrain, Draining, DrainGeneration, Woken, AfterDrain
<1>13. CASE DispatchStaleFinished
  <2>1. HasDrain => HasDrain'
    BY <1>13, PoppedFinish DEF TypeOK, EventsTypeOK, DispatchStaleFinished
  <2> QED
    BY <1>13, <2>1 DEF DrainPromise, HasDrain, Draining, DispatchStaleFinished
<1>14. CASE DispatchFinished
  <2>1. HasDrain => HasDrain'
    BY <1>14, PoppedFinish DEF TypeOK, EventsTypeOK, DispatchFinished, EndStreaming, StreamingErrors
  <2> QED
    BY <1>14, <2>1 DEF DrainPromise, HasDrain, Draining, DispatchFinished, EndStreaming, StreamingErrors
<1>15. CASE ChainNextFile
  BY <1>15 DEF TypeOK, ControlTypeOK, CountersTypeOK, DrainPromise, LiveDrain, Draining, ChainNextFile, AppendStreaming, Arm, BumpGeneration
<1>16. CASE Join
  BY <1>16 DEF TypeOK, ControlTypeOK, CountersTypeOK, DrainPromise, LiveDrain, Draining, Join
<1>17. CASE DrainNow
  BY <1>17 DEF TypeOK, ControlTypeOK, CountersTypeOK, DrainPromise, LiveDrain, Draining, DrainNow, StartDrain
<1>18. CASE FinishStop
  BY <1>18 DEF TypeOK, ControlTypeOK, CountersTypeOK, DrainPromise, LiveDrain, Draining, FinishStop, DropPendingBatches, BumpGeneration, Woken, AppendPaused
<1>19. CASE FinishReset
  BY <1>19 DEF TypeOK, ControlTypeOK, CountersTypeOK, DrainPromise, LiveDrain, Draining, FinishReset, DropPendingBatches, BumpGeneration, Woken
<1>20. CASE BeginOpen
  BY <1>20 DEF TypeOK, ControlTypeOK, CountersTypeOK, DrainPromise, LiveDrain, Draining, BeginOpen, BeginStreaming, StartingCap, Arm, BumpGeneration
<1>21. ASSUME NEW op \in AllCommands, ReplaceSession(op) PROVE DrainPromise'
  BY <1>21 DEF TypeOK, ControlTypeOK, CountersTypeOK, DrainPromise, LiveDrain, Draining, ReplaceSession, StartTeardown, RequestStop, Woken
<1>22. CASE StopStream
  BY <1>22 DEF TypeOK, ControlTypeOK, CountersTypeOK, DrainPromise, LiveDrain, Draining, StopStream, StartTeardown, RequestStop, Woken
<1>23. CASE QueueFile
  BY <1>23 DEF TypeOK, ControlTypeOK, CountersTypeOK, DrainPromise, LiveDrain, Draining, QueueFile
<1>24. CASE AppendFile
  BY <1>24 DEF TypeOK, ControlTypeOK, CountersTypeOK, DrainPromise, LiveDrain, Draining, AppendFile, AppendStreaming, BeginStreaming, StartingCap, Arm, BumpGeneration
<1>25. CASE Pause
  BY <1>25 DEF TypeOK, ControlTypeOK, CountersTypeOK, DrainPromise, LiveDrain, Draining, Pause
<1>26. CASE Resume
  BY <1>26 DEF TypeOK, ControlTypeOK, CountersTypeOK, DrainPromise, LiveDrain, Draining, Resume, AppendPaused
<1>27. ASSUME NEW c \in Caps, SetRetentionCap(c) PROVE DrainPromise'
  BY <1>27 DEF TypeOK, ControlTypeOK, CountersTypeOK, DrainPromise, LiveDrain, Draining, SetRetentionCap
<1>28. CASE UNCHANGED vars
  BY <1>28 DEF TypeOK, ControlTypeOK, CountersTypeOK, DrainPromise, LiveDrain, Draining, vars
<1> QED
  BY <1>1, <1>2, <1>3, <1>4, <1>5, <1>6, <1>7, <1>8, <1>9, <1>10, <1>11, <1>12, <1>13, <1>14, <1>15, <1>16, <1>17, <1>18, <1>19, <1>20, <1>21, <1>22, <1>23, <1>24, <1>25, <1>26, <1>27, <1>28 DEF Next, Worker, Dispatch, Teardown, User

(* No lambda carries a generation still to come.                           *)
LEMMA PastStep == ASSUME TypeOK, EventsPast, [Next]_vars PROVE EventsPast'
<1> USE ConstantsAssumption DEF queueVars, pauseVars, sinkVars, workerVars, modelVars, guiVars, ghostVars
<1>1. ASSUME NEW k \in BatchSizes, ParseBatch(k) PROVE EventsPast'
  BY <1>1 DEF TypeOK, EventsTypeOK, Event, CountersTypeOK, EventsPast, ParseBatch
<1>2. ASSUME NEW k \in BatchSizes \union {0}, ParseFinish(k) PROVE EventsPast'
  BY <1>2 DEF TypeOK, EventsTypeOK, Event, CountersTypeOK, EventsPast, ParseFinish
<1>3. CASE ParseThrow
  BY <1>3 DEF TypeOK, EventsTypeOK, Event, CountersTypeOK, EventsPast, ParseThrow
<1>4. CASE OnBatch
  BY <1>4 DEF TypeOK, EventsTypeOK, Event, CountersTypeOK, EventsPast, OnBatch
<1>5. CASE BufferWhilePaused
  BY <1>5 DEF TypeOK, EventsTypeOK, Event, CountersTypeOK, EventsPast, BufferWhilePaused, CountDrops, AfterBatch
<1>6. CASE WaitEnqueue
  BY <1>6 DEF TypeOK, EventsTypeOK, Event, CountersTypeOK, EventsPast, WaitEnqueue, Enqueued, AfterBatch
<1>7. CASE ScheduleDrain
  BY <1>7 DEF TypeOK, EventsTypeOK, Event, CountersTypeOK, EventsPast, ScheduleDrain, AfterSchedule, AfterBatch
<1>8. CASE PostDrain
  BY <1>8, Posted DEF TypeOK, EventsTypeOK, Event, CountersTypeOK, EventsPast, PostDrain, AfterBatch
<1>9. CASE OnFinished
  BY <1>9, Posted DEF TypeOK, EventsTypeOK, Event, CountersTypeOK, EventsPast, OnFinished
<1>10. CASE WorkerExit
  BY <1>10 DEF TypeOK, EventsTypeOK, Event, CountersTypeOK, EventsPast, WorkerExit
<1>11. CASE DispatchDrain
  BY <1>11, Popped DEF TypeOK, EventsTypeOK, Event, CountersTypeOK, EventsPast, DispatchDrain, StartDrain
<1>12. CASE DrainGeneration
  BY <1>12 DEF TypeOK, EventsTypeOK, Event, CountersTypeOK, EventsPast, DrainGeneration, Woken, AfterDrain
<1>13. CASE DispatchStaleFinished
  BY <1>13, Popped DEF TypeOK, EventsTypeOK, Event, CountersTypeOK, EventsPast, DispatchStaleFinished
<1>14. CASE DispatchFinished
  BY <1>14, Popped DEF TypeOK, EventsTypeOK, Event, CountersTypeOK, EventsPast, DispatchFinished, EndStreaming, StreamingErrors
<1>15. CASE ChainNextFile
  <2>1. BumpGeneration /\ (events' = events \/ (events # <<>> /\ events' = Tail(events)))
    BY <1>15 DEF ChainNextFile, AppendStreaming, Arm
  <2> QED
    BY <2>1, Bumped DEF EventsPast
<1>16. CASE Join
  BY <1>16 DEF TypeOK, EventsTypeOK, Event, CountersTypeOK, EventsPast, Join
<1>17. CASE DrainNow
  BY <1>17 DEF TypeOK, EventsTypeOK, Event, CountersTypeOK, EventsPast, DrainNow, StartDrain
<1>18. CASE FinishStop
  <2>1. BumpGeneration /\ (events' = events \/ (events # <<>> /\ events' = Tail(events)))
    BY <1>18 DEF FinishStop, DropPendingBatches, Woken, AppendPaused
  <2> QED
    BY <2>1, Bumped DEF EventsPast
<1>19. CASE FinishReset
  <2>1. BumpGeneration /\ (events' = events \/ (events # <<>> /\ events' = Tail(events)))
    BY <1>19 DEF FinishReset, DropPendingBatches, Woken
  <2> QED
    BY <2>1, Bumped DEF EventsPast
<1>20. CASE BeginOpen
  <2>1. CASE BumpGeneration /\ events' = events
    BY <2>1, Bumped DEF EventsPast
  <2>2. CASE UNCHANGED <<sinkVars, workerVars>>
    BY <2>2 DEF EventsPast
  <2> QED
    BY <1>20, <2>1, <2>2 DEF BeginOpen, BeginStreaming, StartingCap, Arm
<1>21. ASSUME NEW op \in AllCommands, ReplaceSession(op) PROVE EventsPast'
  BY <1>21 DEF TypeOK, EventsTypeOK, Event, CountersTypeOK, EventsPast, ReplaceSession, StartTeardown, RequestStop, Woken
<1>22. CASE StopStream
  BY <1>22 DEF TypeOK, EventsTypeOK, Event, CountersTypeOK, EventsPast, StopStream, StartTeardown, RequestStop, Woken
<1>23. CASE QueueFile
  BY <1>23 DEF TypeOK, EventsTypeOK, Event, CountersTypeOK, EventsPast, QueueFile
<1>24. CASE AppendFile
  <2>1. CASE BumpGeneration /\ events' = events
    BY <2>1, Bumped DEF EventsPast
  <2>2. CASE UNCHANGED <<sinkVars, workerVars>>
    BY <2>2 DEF EventsPast
  <2> QED
    BY <1>24, <2>1, <2>2 DEF AppendFile, AppendStreaming, BeginStreaming, StartingCap, Arm
<1>25. CASE Pause
  BY <1>25 DEF TypeOK, EventsTypeOK, Event, CountersTypeOK, EventsPast, Pause
<1>26. CASE Resume
  BY <1>26 DEF TypeOK, EventsTypeOK, Event, CountersTypeOK, EventsPast, Resume, AppendPaused
<1>27. ASSUME NEW c \in Caps, SetRetentionCap(c) PROVE EventsPast'
  BY <1>27 DEF TypeOK, EventsTypeOK, Event, CountersTypeOK, EventsPast, SetRetentionCap
<1>28. CASE UNCHANGED vars
  BY <1>28 DEF TypeOK, EventsTypeOK, Event, CountersTypeOK, EventsPast, vars
<1> QED
  BY <1>1, <1>2, <1>3, <1>4, <1>5, <1>6, <1>7, <1>8, <1>9, <1>10, <1>11, <1>12, <1>13, <1>14, <1>15, <1>16, <1>17, <1>18, <1>19, <1>20, <1>21, <1>22, <1>23, <1>24, <1>25, <1>26, <1>27, <1>28 DEF Next, Worker, Dispatch, Teardown, User

(* The worker that posted the live finished lambda posts nothing else.     *)
LEMMA LastStep == ASSUME TypeOK, EventsPast, FinishIsLast, [Next]_vars PROVE FinishIsLast'
<1> USE ConstantsAssumption DEF queueVars, pauseVars, sinkVars, workerVars, modelVars, guiVars, ghostVars
<1>1. ASSUME NEW k \in BatchSizes, ParseBatch(k) PROVE FinishIsLast'
  BY <1>1 DEF TypeOK, EventsTypeOK, Event, CountersTypeOK, EventsPast, FinishIsLast, LiveFinish, ParseBatch
<1>2. ASSUME NEW k \in BatchSizes \union {0}, ParseFinish(k) PROVE FinishIsLast'
  BY <1>2 DEF TypeOK, EventsTypeOK, Event, CountersTypeOK, EventsPast, FinishIsLast, LiveFinish, ParseFinish
<1>3. CASE ParseThrow
  BY <1>3 DEF TypeOK, EventsTypeOK, Event, CountersTypeOK, EventsPast, FinishIsLast, LiveFinish, ParseThrow
<1>4. CASE OnBatch
  BY <1>4 DEF TypeOK, EventsTypeOK, Event, CountersTypeOK, EventsPast, FinishIsLast, LiveFinish, OnBatch
<1>5. CASE BufferWhilePaused
  BY <1>5 DEF TypeOK, EventsTypeOK, Event, CountersTypeOK, EventsPast, FinishIsLast, LiveFinish, BufferWhilePaused, CountDrops, AfterBatch
<1>6. CASE WaitEnqueue
  BY <1>6 DEF TypeOK, EventsTypeOK, Event, CountersTypeOK, EventsPast, FinishIsLast, LiveFinish, WaitEnqueue, Enqueued, AfterBatch
<1>7. CASE ScheduleDrain
  BY <1>7 DEF TypeOK, EventsTypeOK, Event, CountersTypeOK, EventsPast, FinishIsLast, LiveFinish, ScheduleDrain, AfterSchedule, AfterBatch
<1>8. CASE PostDrain
  BY <1>8, Posted DEF TypeOK, EventsTypeOK, Event, CountersTypeOK, EventsPast, FinishIsLast, LiveFinish, PostDrain, AfterBatch
<1>9. CASE OnFinished
  BY <1>9, Posted DEF TypeOK, EventsTypeOK, Event, CountersTypeOK, EventsPast, FinishIsLast, LiveFinish, OnFinished
<1>10. CASE WorkerExit
  BY <1>10 DEF TypeOK, EventsTypeOK, Event, CountersTypeOK, EventsPast, FinishIsLast, LiveFinish, WorkerExit
<1>11. CASE DispatchDrain
  BY <1>11, Popped DEF TypeOK, EventsTypeOK, Event, CountersTypeOK, EventsPast, FinishIsLast, LiveFinish, DispatchDrain, StartDrain
<1>12. CASE DrainGeneration
  BY <1>12 DEF TypeOK, EventsTypeOK, Event, CountersTypeOK, EventsPast, FinishIsLast, LiveFinish, DrainGeneration, Woken, AfterDrain
<1>13. CASE DispatchStaleFinished
  BY <1>13, Popped DEF TypeOK, EventsTypeOK, Event, CountersTypeOK, EventsPast, FinishIsLast, LiveFinish, DispatchStaleFinished
<1>14. CASE DispatchFinished
  BY <1>14, Popped DEF TypeOK, EventsTypeOK, Event, CountersTypeOK, EventsPast, FinishIsLast, LiveFinish, DispatchFinished, EndStreaming, StreamingErrors
<1>15. CASE ChainNextFile
  <2>1. BumpGeneration /\ (events' = events \/ (events # <<>> /\ events' = Tail(events)))
    BY <1>15 DEF ChainNextFile, AppendStreaming, Arm
  <2> QED
    BY <2>1, Bumped DEF FinishIsLast, LiveFinish
<1>16. CASE Join
  BY <1>16 DEF TypeOK, EventsTypeOK, Event, CountersTypeOK, EventsPast, FinishIsLast, LiveFinish, Join
<1>17. CASE DrainNow
  BY <1>17 DEF TypeOK, EventsTypeOK, Event, CountersTypeOK, EventsPast, FinishIsLast, LiveFinish, DrainNow, StartDrain
<1>18. CASE FinishStop
  <2>1. BumpGeneration /\ (events' = events \/ (events # <<>> /\ events' = Tail(events)))
    BY <1>18 DEF FinishStop, DropPendingBatches, Woken, AppendPaused
  <2> QED
    BY <2>1, Bumped DEF FinishIsLast, LiveFinish
<1>19. CASE FinishReset
  <2>1. BumpGeneration /\ (events' = events \/ (events # <<>> /\ events' = Tail(events)))
    BY <1>19 DEF FinishReset, DropPendingBatches, Woken
  <2> QED
    BY <2>1, Bumped DEF FinishIsLast, LiveFinish
<1>20. CASE BeginOpen
  <2>1. CASE BumpGeneration /\ events' = events
    BY <2>1, Bumped DEF FinishIsLast, LiveFinish
  <2>2. CASE UNCHANGED <<sinkVars, workerVars>>
    BY <2>2 DEF FinishIsLast, LiveFinish
  <2> QED
    BY <1>20, <2>1, <2>2 DEF BeginOpen, BeginStreaming, StartingCap, Arm
<1>21. ASSUME NEW op \in AllCommands, ReplaceSession(op) PROVE FinishIsLast'
  BY <1>21 DEF TypeOK, EventsTypeOK, Event, CountersTypeOK, EventsPast, FinishIsLast, LiveFinish, ReplaceSession, StartTeardown, RequestStop, Woken
<1>22. CASE StopStream
  BY <1>22 DEF TypeOK, EventsTypeOK, Event, CountersTypeOK, EventsPast, FinishIsLast, LiveFinish, StopStream, StartTeardown, RequestStop, Woken
<1>23. CASE QueueFile
  BY <1>23 DEF TypeOK, EventsTypeOK, Event, CountersTypeOK, EventsPast, FinishIsLast, LiveFinish, QueueFile
<1>24. CASE AppendFile
  <2>1. CASE BumpGeneration /\ events' = events
    BY <2>1, Bumped DEF FinishIsLast, LiveFinish
  <2>2. CASE UNCHANGED <<sinkVars, workerVars>>
    BY <2>2 DEF FinishIsLast, LiveFinish
  <2> QED
    BY <1>24, <2>1, <2>2 DEF AppendFile, AppendStreaming, BeginStreaming, StartingCap, Arm
<1>25. CASE Pause
  BY <1>25 DEF TypeOK, EventsTypeOK, Event, CountersTypeOK, EventsPast, FinishIsLast, LiveFinish, Pause
<1>26. CASE Resume
  BY <1>26 DEF TypeOK, EventsTypeOK, Event, CountersTypeOK, EventsPast, FinishIsLast, LiveFinish, Resume, AppendPaused
<1>27. ASSUME NEW c \in Caps, SetRetentionCap(c) PROVE FinishIsLast'
  BY <1>27 DEF TypeOK, EventsTypeOK, Event, CountersTypeOK, EventsPast, FinishIsLast, LiveFinish, SetRetentionCap
<1>28. CASE UNCHANGED vars
  BY <1>28 DEF TypeOK, EventsTypeOK, Event, CountersTypeOK, EventsPast, FinishIsLast, LiveFinish, vars
<1> QED
  BY <1>1, <1>2, <1>3, <1>4, <1>5, <1>6, <1>7, <1>8, <1>9, <1>10, <1>11, <1>12, <1>13, <1>14, <1>15, <1>16, <1>17, <1>18, <1>19, <1>20, <1>21, <1>22, <1>23, <1>24, <1>25, <1>26, <1>27, <1>28 DEF Next, Worker, Dispatch, Teardown, User

(* A live finished lambda stays behind the drain of what is queued.        *)
LEMMA DeliveredStep == ASSUME TypeOK, DrainPromise, EventsPast, FinishIsLast, FinishedAfterDelivery, [Next]_vars PROVE FinishedAfterDelivery'
<1> USE ConstantsAssumption DEF queueVars, pauseVars, sinkVars, workerVars, modelVars, guiVars, ghostVars
<1>1. ASSUME NEW k \in BatchSizes, ParseBatch(k) PROVE FinishedAfterDelivery'
  BY <1>1 DEF TypeOK, EventsTypeOK, Event, CountersTypeOK, ControlTypeOK, EventsPast, FinishIsLast, FinishedAfterDelivery, LiveFinish, LiveDrain, Draining, ParseBatch
<1>2. ASSUME NEW k \in BatchSizes \union {0}, ParseFinish(k) PROVE FinishedAfterDelivery'
  BY <1>2 DEF TypeOK, EventsTypeOK, Event, CountersTypeOK, ControlTypeOK, EventsPast, FinishIsLast, FinishedAfterDelivery, LiveFinish, LiveDrain, Draining, ParseFinish
<1>3. CASE ParseThrow
  BY <1>3 DEF TypeOK, EventsTypeOK, Event, CountersTypeOK, ControlTypeOK, EventsPast, FinishIsLast, FinishedAfterDelivery, LiveFinish, LiveDrain, Draining, ParseThrow
<1>4. CASE OnBatch
  BY <1>4 DEF TypeOK, EventsTypeOK, Event, CountersTypeOK, ControlTypeOK, EventsPast, FinishIsLast, FinishedAfterDelivery, LiveFinish, LiveDrain, Draining, OnBatch
<1>5. CASE BufferWhilePaused
  BY <1>5 DEF TypeOK, EventsTypeOK, Event, CountersTypeOK, ControlTypeOK, EventsPast, FinishIsLast, FinishedAfterDelivery, LiveFinish, LiveDrain, Draining, BufferWhilePaused, CountDrops, AfterBatch
<1>6. CASE WaitEnqueue
  BY <1>6 DEF TypeOK, EventsTypeOK, Event, CountersTypeOK, ControlTypeOK, EventsPast, FinishIsLast, FinishedAfterDelivery, LiveFinish, LiveDrain, Draining, WaitEnqueue, Enqueued, AfterBatch
<1>7. CASE ScheduleDrain
  BY <1>7 DEF TypeOK, EventsTypeOK, Event, CountersTypeOK, ControlTypeOK, EventsPast, FinishIsLast, FinishedAfterDelivery, LiveFinish, LiveDrain, Draining, ScheduleDrain, AfterSchedule, AfterBatch
<1>8. CASE PostDrain
  BY <1>8, Posted DEF DrainPromise, TypeOK, EventsTypeOK, Event, CountersTypeOK, ControlTypeOK, EventsPast, FinishIsLast, FinishedAfterDelivery, LiveFinish, LiveDrain, Draining, PostDrain, AfterBatch
<1>9. CASE OnFinished
  <2> SUFFICES ASSUME NEW i \in DOMAIN events', LiveFinish(i)', pendingCount' # 0, ~Draining'
               PROVE  \E j \in 1 .. i - 1 : LiveDrain(j)'
    BY DEF FinishedAfterDelivery
  <2>1. /\ events \in Seq(Event) /\ \E e : events' = Append(events, e)
        /\ wpc = "finish" /\ UNCHANGED <<generation, pendingCount, guiPc>>
    BY <1>9 DEF TypeOK, EventsTypeOK, OnFinished
  <2>2. i = Len(events) + 1
    BY <2>1, Posted DEF FinishIsLast, LiveFinish
  <2>3. PICK j \in DOMAIN events : LiveDrain(j)
    BY <2>1 DEF TypeOK, CountersTypeOK, DrainPromise, Draining
  <2>4. j \in 1 .. i - 1 /\ LiveDrain(j)'
    BY <2>1, <2>2, <2>3, Posted DEF LiveDrain
  <2> QED
    BY <2>4
<1>10. CASE WorkerExit
  BY <1>10 DEF TypeOK, EventsTypeOK, Event, CountersTypeOK, ControlTypeOK, EventsPast, FinishIsLast, FinishedAfterDelivery, LiveFinish, LiveDrain, Draining, WorkerExit
<1>11. CASE DispatchDrain
  BY <1>11, Popped DEF TypeOK, EventsTypeOK, Event, CountersTypeOK, ControlTypeOK, EventsPast, FinishIsLast, FinishedAfterDelivery, LiveFinish, LiveDrain, Draining, DispatchDrain, StartDrain
<1>12. CASE DrainGeneration
  BY <1>12 DEF TypeOK, EventsTypeOK, Event, CountersTypeOK, ControlTypeOK, EventsPast, FinishIsLast, FinishedAfterDelivery, LiveFinish, LiveDrain, Draining, DrainGeneration, Woken, AfterDrain
<1>13. CASE DispatchStaleFinished
  <2> SUFFICES ASSUME NEW i \in DOMAIN events', LiveFinish(i)', pendingCount' # 0, ~Draining'
               PROVE  \E j \in 1 .. i - 1 : LiveDrain(j)'
    BY DEF FinishedAfterDelivery
  <2>1. /\ events \in Seq(Event) /\ events # <<>> /\ events' = Tail(events) /\ events[1].kind = "finished"
        /\ UNCHANGED <<generation, pendingCount, guiPc>>
    BY <1>13, Popped DEF TypeOK, EventsTypeOK, DispatchStaleFinished
  <2>2. i + 1 \in DOMAIN events /\ LiveFinish(i + 1)
    BY <2>1, Popped DEF LiveFinish
  <2>3. PICK j \in 1 .. i : LiveDrain(j)
    BY <2>1, <2>2, Popped DEF FinishedAfterDelivery, Draining
  <2>4. j # 1 /\ j - 1 \in 1 .. i - 1 /\ j - 1 \in DOMAIN events'
    BY <2>1, <2>3, Popped DEF LiveDrain
  <2>5. LiveDrain(j - 1)'
    BY <2>1, <2>3, <2>4, Popped DEF LiveDrain
  <2> QED
    BY <2>4, <2>5
<1>14. CASE DispatchFinished
  <2> SUFFICES ASSUME NEW i \in DOMAIN events', LiveFinish(i)', pendingCount' # 0, ~Draining'
               PROVE  \E j \in 1 .. i - 1 : LiveDrain(j)'
    BY DEF FinishedAfterDelivery
  <2>1. /\ events \in Seq(Event) /\ events # <<>> /\ events' = Tail(events) /\ events[1].kind = "finished"
        /\ UNCHANGED <<generation, pendingCount, guiPc>>
    BY <1>14, Popped DEF TypeOK, EventsTypeOK, DispatchFinished, EndStreaming, StreamingErrors
  <2>2. i + 1 \in DOMAIN events /\ LiveFinish(i + 1)
    BY <2>1, Popped DEF LiveFinish
  <2>3. PICK j \in 1 .. i : LiveDrain(j)
    BY <2>1, <2>2, Popped DEF FinishedAfterDelivery, Draining
  <2>4. j # 1 /\ j - 1 \in 1 .. i - 1 /\ j - 1 \in DOMAIN events'
    BY <2>1, <2>3, Popped DEF LiveDrain
  <2>5. LiveDrain(j - 1)'
    BY <2>1, <2>3, <2>4, Popped DEF LiveDrain
  <2> QED
    BY <2>4, <2>5
<1>15. CASE ChainNextFile
  BY <1>15, Popped DEF TypeOK, EventsTypeOK, Event, CountersTypeOK, ControlTypeOK, EventsPast, FinishIsLast, FinishedAfterDelivery, LiveFinish, LiveDrain, Draining, ChainNextFile, AppendStreaming, Arm, BumpGeneration
<1>16. CASE Join
  BY <1>16 DEF TypeOK, EventsTypeOK, Event, CountersTypeOK, ControlTypeOK, EventsPast, FinishIsLast, FinishedAfterDelivery, LiveFinish, LiveDrain, Draining, Join
<1>17. CASE DrainNow
  BY <1>17 DEF TypeOK, EventsTypeOK, Event, CountersTypeOK, ControlTypeOK, EventsPast, FinishIsLast, FinishedAfterDelivery, LiveFinish, LiveDrain, Draining, DrainNow, StartDrain
<1>18. CASE FinishStop
  BY <1>18 DEF TypeOK, EventsTypeOK, Event, CountersTypeOK, ControlTypeOK, EventsPast, FinishIsLast, FinishedAfterDelivery, LiveFinish, LiveDrain, Draining, FinishStop, DropPendingBatches, BumpGeneration, Woken, AppendPaused
<1>19. CASE FinishReset
  BY <1>19 DEF TypeOK, EventsTypeOK, Event, CountersTypeOK, ControlTypeOK, EventsPast, FinishIsLast, FinishedAfterDelivery, LiveFinish, LiveDrain, Draining, FinishReset, DropPendingBatches, BumpGeneration, Woken
<1>20. CASE BeginOpen
  BY <1>20 DEF TypeOK, EventsTypeOK, Event, CountersTypeOK, ControlTypeOK, EventsPast, FinishIsLast, FinishedAfterDelivery, LiveFinish, LiveDrain, Draining, BeginOpen, BeginStreaming, StartingCap, Arm, BumpGeneration
<1>21. ASSUME NEW op \in AllCommands, ReplaceSession(op) PROVE FinishedAfterDelivery'
  BY <1>21 DEF TypeOK, EventsTypeOK, Event, CountersTypeOK, ControlTypeOK, EventsPast, FinishIsLast, FinishedAfterDelivery, LiveFinish, LiveDrain, Draining, ReplaceSession, StartTeardown, RequestStop, Woken
<1>22. CASE StopStream
  BY <1>22 DEF TypeOK, EventsTypeOK, Event, CountersTypeOK, ControlTypeOK, EventsPast, FinishIsLast, FinishedAfterDelivery, LiveFinish, LiveDrain, Draining, StopStream, StartTeardown, RequestStop, Woken
<1>23. CASE QueueFile
  BY <1>23 DEF TypeOK, EventsTypeOK, Event, CountersTypeOK, ControlTypeOK, EventsPast, FinishIsLast, FinishedAfterDelivery, LiveFinish, LiveDrain, Draining, QueueFile
<1>24. CASE AppendFile
  BY <1>24 DEF TypeOK, EventsTypeOK, Event, CountersTypeOK, ControlTypeOK, EventsPast, FinishIsLast, FinishedAfterDelivery, LiveFinish, LiveDrain, Draining, AppendFile, AppendStreaming, BeginStreaming, StartingCap, Arm, BumpGeneration
<1>25. CASE Pause
  BY <1>25 DEF TypeOK, EventsTypeOK, Event, CountersTypeOK, ControlTypeOK, EventsPast, FinishIsLast, FinishedAfterDelivery, LiveFinish, LiveDrain, Draining, Pause
<1>26. CASE Resume
  BY <1>26 DEF TypeOK, EventsTypeOK, Event, CountersTypeOK, ControlTypeOK, EventsPast, FinishIsLast, FinishedAfterDelivery, LiveFinish, LiveDrain, Draining, Resume, AppendPaused
<1>27. ASSUME NEW c \in Caps, SetRetentionCap(c) PROVE FinishedAfterDelivery'
  BY <1>27 DEF TypeOK, EventsTypeOK, Event, CountersTypeOK, ControlTypeOK, EventsPast, FinishIsLast, FinishedAfterDelivery, LiveFinish, LiveDrain, Draining, SetRetentionCap
<1>28. CASE UNCHANGED vars
  BY <1>28 DEF TypeOK, EventsTypeOK, Event, CountersTypeOK, ControlTypeOK, EventsPast, FinishIsLast, FinishedAfterDelivery, LiveFinish, LiveDrain, Draining, vars
<1> QED
  BY <1>1, <1>2, <1>3, <1>4, <1>5, <1>6, <1>7, <1>8, <1>9, <1>10, <1>11, <1>12, <1>13, <1>14, <1>15, <1>16, <1>17, <1>18, <1>19, <1>20, <1>21, <1>22, <1>23, <1>24, <1>25, <1>26, <1>27, <1>28 DEF Next, Worker, Dispatch, Teardown, User

-----------------------------------------------------------------------------
LEMMA WakeupsInvariant == Spec => []Wakeups
<1>1. Init => Wakeups
  BY InitType, ConstantsAssumption
  DEF Init, Wakeups, ParkedMeansFull, DrainPromise, EventsPast, FinishIsLast, FinishedAfterDelivery
<1>2. TypeOK /\ [Next]_vars => TypeOK'
  BY FlagsStep, CountersStep, ControlStep, EventsStep, RowsStep DEF TypeOK
<1>3. Wakeups /\ [Next]_vars => Wakeups'
  BY <1>2, ParkedStep, DrainStep, PastStep, LastStep, DeliveredStep DEF Wakeups
<1> QED
  BY <1>1, <1>3, PTL DEF Spec

(* BoundedBatchQueue, OnBatch and DrainGeneration: the worker sleeps in    *)
(* WaitEnqueue only while the queue is full and not stopped; a queued      *)
(* batch always has a drain on its way, and OnBatch may rely on            *)
(* mDrainScheduled.                                                        *)
THEOREM WakeupsNotLost == Spec => []NoLostWakeup
<1>1. Wakeups => NoLostWakeup
  BY DEF Wakeups, NoLostWakeup
<1> QED
  BY <1>1, WakeupsInvariant, PTL

(* OnFinished: the end of the parse is dispatched after a drain of every   *)
(* batch the parse has queued.                                             *)
THEOREM EndAfterLastRow == Spec => []FinishedAfterDelivery
<1>1. Wakeups => FinishedAfterDelivery
  BY DEF Wakeups
<1> QED
  BY <1>1, WakeupsInvariant, PTL
====
