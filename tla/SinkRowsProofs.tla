--------------------------- MODULE SinkRowsProofs ---------------------------
(***************************************************************************)
(* Proofs that StreamingSink accounts for every row: none is lost in       *)
(* silence, the overflow of the paused buffer is counted exactly, and      *)
(* files are shown in their order.                                         *)
(*                                                                         *)
(* The rows on their way are compared sequence by sequence: Ordered inside *)
(* one, Precede from one to the next.  Counting needs the paused buffer    *)
(* and the worker's batch in order, so that no row is dropped twice; the   *)
(* order of the table needs that nothing is paused, or Resume could append *)
(* behind a batch that is queued.                                          *)
(***************************************************************************)
EXTENDS MCStreamingSink, SinkSessionProofs, FiniteSetTheorems

Before(r, q) == r.s < q.s \/ (r.s = q.s /\ r.n < q.n)
Ordered(rows) == \A i, j \in DOMAIN rows : i < j => Before(rows[i], rows[j])
Precede(a, b) == \A i \in DOMAIN a, j \in DOMAIN b : Before(a[i], b[j])
(* Parsed before the row the parse produces next.                          *)
Parsed(rows) == \A i \in DOMAIN rows : Before(rows[i], [s |-> sess, n |-> nextRow])

(* A buffer that is not there is empty, and StopAndKeepRows drops no batch. *)
NothingLeft ==
    /\ ~pausedAny => pausedRows = <<>>
    /\ guiPc = "finish" /\ guiOp = "stop" => pendingCount = 0

(* What was dropped from the paused buffer, what is in it and what comes   *)
(* to it are in order.                                                     *)
PausedInOrder ==
    /\ Ordered(pausedRows) /\ Ordered(hand) /\ Precede(pausedRows, hand)
    /\ Parsed(pausedRows) /\ Parsed(hand)
    /\ \A r \in lost["overflow"] :
         /\ r.s = sess /\ r.n < nextRow
         /\ \A i \in DOMAIN pausedRows : Before(r, pausedRows[i])
         /\ \A i \in DOMAIN hand : Before(r, hand[i])

DropsCounted ==
    /\ IsFiniteSet(lost["overflow"])
    /\ PausedDropsExact

(* Without a pause the table, the queue and the batch of the worker are    *)
(* one ordered sequence.                                                   *)
InLine ==
    /\ ~paused /\ ~pausedAny /\ pausedRows = <<>> /\ wpc # "pausedLock"
    /\ Ordered(table) /\ Ordered(pendingRows)
    /\ Precede(table, pendingRows) /\ Precede(table, hand) /\ Precede(pendingRows, hand)
    /\ Parsed(table) /\ Parsed(pendingRows)

RowsInv ==
    /\ Sessions /\ NothingLeft /\ NoSilentLoss
    /\ PausedInOrder /\ DropsCounted
    /\ scenario = "files" => InLine /\ mode # "LiveTail" /\ guiOp # "openLive"

-----------------------------------------------------------------------------
(* Order.                                                                  *)

LEMMA OrderedConcat ==
    ASSUME NEW a \in Seq(Row), NEW b \in Seq(Row), Ordered(a), Ordered(b), Precede(a, b)
    PROVE  Ordered(a \o b)
<1> SUFFICES ASSUME NEW i \in DOMAIN (a \o b), NEW j \in DOMAIN (a \o b), i < j
             PROVE  Before((a \o b)[i], (a \o b)[j])
  BY DEF Ordered
<1>1. /\ i \in Nat /\ j \in Nat /\ Len(a) \in Nat /\ Len(b) \in Nat
      /\ i \in 1 .. Len(a) + Len(b) /\ j \in 1 .. Len(a) + Len(b)
  OBVIOUS
<1>2. \A k \in {i, j} : k <= Len(a) => k \in DOMAIN a /\ (a \o b)[k] = a[k]
  BY <1>1
<1>3. \A k \in {i, j} : k > Len(a) => k - Len(a) \in DOMAIN b /\ (a \o b)[k] = b[k - Len(a)]
  BY <1>1
<1>4. CASE j <= Len(a)
  BY <1>1, <1>2, <1>4 DEF Ordered
<1>5. CASE i <= Len(a) /\ j > Len(a)
  BY <1>1, <1>2, <1>3, <1>5 DEF Precede
<1>6. CASE i > Len(a)
  <2>1. i - Len(a) < j - Len(a) /\ j > Len(a)
    BY <1>1, <1>6
  <2> QED BY <1>3, <1>6, <2>1 DEF Ordered
<1> QED BY <1>1, <1>4, <1>5, <1>6

(* What a concatenation holds, its parts hold.                             *)
LEMMA ConcatFrom ==
    ASSUME NEW a \in Seq(Row), NEW b \in Seq(Row)
    PROVE  \A i \in DOMAIN (a \o b) :
               (\E j \in DOMAIN a : (a \o b)[i] = a[j]) \/ (\E j \in DOMAIN b : (a \o b)[i] = b[j])
<1> SUFFICES ASSUME NEW i \in DOMAIN (a \o b)
             PROVE  (\E j \in DOMAIN a : (a \o b)[i] = a[j]) \/ (\E j \in DOMAIN b : (a \o b)[i] = b[j])
  OBVIOUS
<1>1. i \in 1 .. Len(a) + Len(b) /\ Len(a) \in Nat /\ Len(b) \in Nat
  OBVIOUS
<1>2. CASE i <= Len(a)
  <2>1. i \in DOMAIN a /\ (a \o b)[i] = a[i]
    BY <1>1, <1>2
  <2> QED BY <2>1
<1>3. CASE i > Len(a)
  <2>1. i - Len(a) \in DOMAIN b /\ (a \o b)[i] = b[i - Len(a)]
    BY <1>1, <1>3
  <2> QED BY <2>1
<1> QED BY <1>1, <1>2, <1>3

LEMMA LastNOrdered ==
    ASSUME NEW rows \in Seq(Row), NEW n \in Nat, Ordered(rows)
    PROVE  Ordered(LastN(rows, n))
<1>1. CASE Len(rows) > n
  <2>1. LastN(rows, n) = SubSeq(rows, Len(rows) - n + 1, Len(rows))
    BY <1>1 DEF LastN
  <2>2. /\ DOMAIN LastN(rows, n) = 1 .. n
        /\ \A i \in 1 .. n : Len(rows) - n + i \in DOMAIN rows /\ LastN(rows, n)[i] = rows[Len(rows) - n + i]
    BY <1>1, <2>1
  <2>3. ASSUME NEW i \in 1 .. n, NEW j \in 1 .. n, i < j
        PROVE  Before(LastN(rows, n)[i], LastN(rows, n)[j])
    <3>1. Len(rows) - n + i < Len(rows) - n + j
      BY <1>1, <2>3
    <3> QED BY <2>2, <3>1 DEF Ordered
  <2> QED BY <2>2, <2>3 DEF Ordered
<1>2. CASE ~(Len(rows) > n)
  BY <1>2 DEF LastN
<1> QED BY <1>1, <1>2

(* AppendBatch shows the newest rows of the table and the batch, in order. *)
LEMMA AppendRowsOrdered ==
    ASSUME NEW tab \in Seq(Row), NEW rows \in Seq(Row), cap \in Nat,
           Ordered(tab), Ordered(rows), Precede(tab, rows)
    PROVE  Ordered(AppendRows(tab, rows))
<1>1. tab \o rows \in Seq(Row) /\ Ordered(tab \o rows)
  BY OrderedConcat
<1>2. CASE cap # 0
  BY <1>1, <1>2, AppendKeepsNewest, LastNOrdered
<1>3. CASE cap = 0
  <2> DEFINE kept == IF cap # 0 THEN LastN(rows, cap) ELSE rows
             total == Len(tab) + Len(kept)
             excess == IF cap # 0 /\ total > cap THEN total - cap ELSE 0
             dropCount == IF excess < Len(tab) THEN excess ELSE Len(tab)
  <2>1. AppendRows(tab, rows) = SubSeq(tab, dropCount + 1, Len(tab)) \o kept
    BY Zenon DEF AppendRows
  <2>2. kept = rows /\ dropCount = 0
    BY <1>3
  <2> HIDE DEF kept, dropCount
  <2>3. SubSeq(tab, dropCount + 1, Len(tab)) = tab
    BY <2>2, SubSeqFull
  <2> QED BY <1>1, <2>1, <2>2, <2>3
<1> QED BY <1>2, <1>3

(* The rows of a new batch continue the numbering of the parse.            *)
LEMMA NewRowsOrdered ==
    ASSUME TypeOK, NEW k \in Nat
    PROVE  /\ Ordered(NewRows(k))
           /\ DOMAIN NewRows(k) = 1 .. k
           /\ \A i \in 1 .. k : NewRows(k)[i] = [s |-> sess, n |-> nextRow + i - 1]
BY DEF NewRows, Ordered, Before, TypeOK, CountersTypeOK

-----------------------------------------------------------------------------
(* What is left of a session.                                              *)

(* The flush of a stop ends with the queue empty.                          *)
LEMMA NothingLeftStep ==
    ASSUME TypeOK, Joined, FinishCount, NothingLeft, [Next]_vars
    PROVE  NothingLeft'
<1> USE ConstantsAssumption DEF queueVars, pauseVars, sinkVars, workerVars, modelVars, guiVars, ghostVars
<1>1. ASSUME NEW k \in BatchSizes, ParseBatch(k) PROVE NothingLeft'
  BY <1>1 DEF TypeOK, CountersTypeOK, FlagsTypeOK, ControlTypeOK, GuiStates, Workers, NothingLeft, Joined, WorkerJoined, FinishCount, Flushes, AllCommands, ParseBatch
<1>2. ASSUME NEW k \in BatchSizes \union {0}, ParseFinish(k) PROVE NothingLeft'
  BY <1>2 DEF TypeOK, CountersTypeOK, FlagsTypeOK, ControlTypeOK, GuiStates, Workers, NothingLeft, Joined, WorkerJoined, FinishCount, Flushes, AllCommands, ParseFinish
<1>3. CASE ParseThrow
  BY <1>3 DEF TypeOK, CountersTypeOK, FlagsTypeOK, ControlTypeOK, GuiStates, Workers, NothingLeft, Joined, WorkerJoined, FinishCount, Flushes, AllCommands, ParseThrow
<1>4. CASE OnBatch
  BY <1>4 DEF TypeOK, CountersTypeOK, FlagsTypeOK, ControlTypeOK, GuiStates, Workers, NothingLeft, Joined, WorkerJoined, FinishCount, Flushes, AllCommands, OnBatch
<1>5. CASE BufferWhilePaused
  BY <1>5 DEF TypeOK, CountersTypeOK, FlagsTypeOK, ControlTypeOK, GuiStates, Workers, NothingLeft, Joined, WorkerJoined, FinishCount, Flushes, AllCommands, BufferWhilePaused, CountDrops, AfterBatch
<1>6. CASE WaitEnqueue
  BY <1>6 DEF TypeOK, CountersTypeOK, FlagsTypeOK, ControlTypeOK, GuiStates, Workers, NothingLeft, Joined, WorkerJoined, FinishCount, Flushes, AllCommands, WaitEnqueue, Enqueued, AfterBatch
<1>7. CASE ScheduleDrain
  BY <1>7 DEF TypeOK, CountersTypeOK, FlagsTypeOK, ControlTypeOK, GuiStates, Workers, NothingLeft, Joined, WorkerJoined, FinishCount, Flushes, AllCommands, ScheduleDrain, AfterSchedule, AfterBatch
<1>8. CASE PostDrain
  BY <1>8 DEF TypeOK, CountersTypeOK, FlagsTypeOK, ControlTypeOK, GuiStates, Workers, NothingLeft, Joined, WorkerJoined, FinishCount, Flushes, AllCommands, PostDrain, AfterBatch
<1>9. CASE OnFinished
  BY <1>9 DEF TypeOK, CountersTypeOK, FlagsTypeOK, ControlTypeOK, GuiStates, Workers, NothingLeft, Joined, WorkerJoined, FinishCount, Flushes, AllCommands, OnFinished
<1>10. CASE WorkerExit
  BY <1>10 DEF TypeOK, CountersTypeOK, FlagsTypeOK, ControlTypeOK, GuiStates, Workers, NothingLeft, Joined, WorkerJoined, FinishCount, Flushes, AllCommands, WorkerExit
<1>11. CASE DispatchDrain
  BY <1>11 DEF TypeOK, CountersTypeOK, FlagsTypeOK, ControlTypeOK, GuiStates, Workers, NothingLeft, Joined, WorkerJoined, FinishCount, Flushes, AllCommands, DispatchDrain, StartDrain
<1>12. CASE DrainGeneration
  BY <1>12 DEF TypeOK, CountersTypeOK, FlagsTypeOK, ControlTypeOK, GuiStates, Workers, NothingLeft, Joined, WorkerJoined, FinishCount, Flushes, AllCommands, DrainGeneration, Woken, AfterDrain
<1>13. CASE DispatchStaleFinished
  BY <1>13 DEF TypeOK, CountersTypeOK, FlagsTypeOK, ControlTypeOK, GuiStates, Workers, NothingLeft, Joined, WorkerJoined, FinishCount, Flushes, AllCommands, DispatchStaleFinished
<1>14. CASE DispatchFinished
  BY <1>14 DEF TypeOK, CountersTypeOK, FlagsTypeOK, ControlTypeOK, GuiStates, Workers, NothingLeft, Joined, WorkerJoined, FinishCount, Flushes, AllCommands, DispatchFinished, EndStreaming, StreamingErrors
<1>15. CASE ChainNextFile
  BY <1>15 DEF TypeOK, CountersTypeOK, FlagsTypeOK, ControlTypeOK, GuiStates, Workers, NothingLeft, Joined, WorkerJoined, FinishCount, Flushes, AllCommands, ChainNextFile, AppendStreaming, Arm, BumpGeneration
<1>16. CASE Join
  BY <1>16 DEF TypeOK, CountersTypeOK, FlagsTypeOK, ControlTypeOK, GuiStates, Workers, NothingLeft, Joined, WorkerJoined, FinishCount, Flushes, AllCommands, Join
<1>17. CASE DrainNow
  BY <1>17 DEF TypeOK, CountersTypeOK, FlagsTypeOK, ControlTypeOK, GuiStates, Workers, NothingLeft, Joined, WorkerJoined, FinishCount, Flushes, AllCommands, DrainNow, StartDrain
<1>18. CASE FinishStop
  BY <1>18 DEF TypeOK, CountersTypeOK, FlagsTypeOK, ControlTypeOK, GuiStates, Workers, NothingLeft, Joined, WorkerJoined, FinishCount, Flushes, AllCommands, FinishStop, DropPendingBatches, BumpGeneration, Woken, AppendPaused
<1>19. CASE FinishReset
  BY <1>19 DEF TypeOK, CountersTypeOK, FlagsTypeOK, ControlTypeOK, GuiStates, Workers, NothingLeft, Joined, WorkerJoined, FinishCount, Flushes, AllCommands, FinishReset, DropPendingBatches, BumpGeneration, Woken
<1>20. CASE BeginOpen
  BY <1>20 DEF TypeOK, CountersTypeOK, FlagsTypeOK, ControlTypeOK, GuiStates, Workers, NothingLeft, Joined, WorkerJoined, FinishCount, Flushes, AllCommands, BeginOpen, BeginStreaming, StartingCap, Arm, BumpGeneration
<1>21. ASSUME NEW op \in AllCommands, ReplaceSession(op) PROVE NothingLeft'
  BY <1>21 DEF TypeOK, CountersTypeOK, FlagsTypeOK, ControlTypeOK, GuiStates, Workers, NothingLeft, Joined, WorkerJoined, FinishCount, Flushes, AllCommands, ReplaceSession, StartTeardown, RequestStop, Woken
<1>22. CASE StopStream
  BY <1>22 DEF TypeOK, CountersTypeOK, FlagsTypeOK, ControlTypeOK, GuiStates, Workers, NothingLeft, Joined, WorkerJoined, FinishCount, Flushes, AllCommands, StopStream, StartTeardown, RequestStop, Woken
<1>23. CASE QueueFile
  BY <1>23 DEF TypeOK, CountersTypeOK, FlagsTypeOK, ControlTypeOK, GuiStates, Workers, NothingLeft, Joined, WorkerJoined, FinishCount, Flushes, AllCommands, QueueFile
<1>24. CASE AppendFile
  BY <1>24 DEF TypeOK, CountersTypeOK, FlagsTypeOK, ControlTypeOK, GuiStates, Workers, NothingLeft, Joined, WorkerJoined, FinishCount, Flushes, AllCommands, AppendFile, AppendStreaming, BeginStreaming, StartingCap, Arm, BumpGeneration
<1>25. CASE Pause
  BY <1>25 DEF TypeOK, CountersTypeOK, FlagsTypeOK, ControlTypeOK, GuiStates, Workers, NothingLeft, Joined, WorkerJoined, FinishCount, Flushes, AllCommands, Pause
<1>26. CASE Resume
  BY <1>26 DEF TypeOK, CountersTypeOK, FlagsTypeOK, ControlTypeOK, GuiStates, Workers, NothingLeft, Joined, WorkerJoined, FinishCount, Flushes, AllCommands, Resume, AppendPaused
<1>27. ASSUME NEW c \in Caps, SetRetentionCap(c) PROVE NothingLeft'
  <2>1. \A n \in Nat : pausedRows = <<>> => LastN(pausedRows, n) = <<>>
    BY DEF LastN
  <2>2. (IF Len(table) >= c THEN 0 ELSE c - Len(table)) \in Nat
    BY DEF TypeOK, RowsTypeOK
  <2>3. \/ UNCHANGED <<pausedRows, pausedAny>>
        \/ /\ pausedRows' = LastN(pausedRows, IF Len(table) >= c THEN 0 ELSE c - Len(table))
           /\ pausedAny' = pausedAny \/ pausedRows' = <<>>
    BY <1>27 DEF SetRetentionCap
  <2>4. UNCHANGED <<guiPc, guiOp, pendingCount>>
    BY <1>27 DEF SetRetentionCap
  <2> QED BY <2>1, <2>2, <2>3, <2>4 DEF NothingLeft
<1>28. CASE UNCHANGED vars
  BY <1>28 DEF TypeOK, CountersTypeOK, FlagsTypeOK, ControlTypeOK, GuiStates, Workers, NothingLeft, Joined, WorkerJoined, FinishCount, Flushes, AllCommands, vars
<1> QED
  BY <1>1, <1>2, <1>3, <1>4, <1>5, <1>6, <1>7, <1>8, <1>9, <1>10, <1>11, <1>12, <1>13, <1>14, <1>15, <1>16, <1>17, <1>18, <1>19, <1>20, <1>21, <1>22, <1>23, <1>24, <1>25, <1>26, <1>27, <1>28 DEF Next, Worker, Dispatch, Teardown, User

-----------------------------------------------------------------------------
(* No row is lost in silence.                                              *)

Kept == RowsOf(table) \union RowsOf(pendingRows) \union RowsOf(pausedRows) \union RowsOf(hand) \union Lost

LEMMA RowsOfConcat ==
    ASSUME NEW a \in Seq(Row), NEW b \in Seq(Row)
    PROVE  RowsOf(a \o b) = RowsOf(a) \union RowsOf(b)
<1>1. RowsOf(a \o b) \subseteq RowsOf(a) \union RowsOf(b)
  BY ConcatFrom DEF RowsOf
<1>2. \A i \in DOMAIN a : i \in DOMAIN (a \o b) /\ (a \o b)[i] = a[i]
  OBVIOUS
<1>3. \A i \in DOMAIN b : Len(a) + i \in DOMAIN (a \o b) /\ (a \o b)[Len(a) + i] = b[i]
  OBVIOUS
<1>4. RowsOf(a) \subseteq RowsOf(a \o b)
  BY <1>2 DEF RowsOf
<1>5. RowsOf(b) \subseteq RowsOf(a \o b)
  BY <1>3 DEF RowsOf
<1> QED BY <1>1, <1>4, <1>5

LEMMA NoRowsOf == RowsOf(<<>>) = {}
BY DEF RowsOf

(* A place that drops rows records them.                                   *)
LEMMA LoseKeeps ==
    ASSUME RowsTypeOK, NEW cause \in Causes, NEW rows, lost' = Lose(cause, rows)
    PROVE  Lost \union rows \subseteq Lost'
<1>1. \A c \in Causes : lost[c] \subseteq lost'[c]
  BY DEF Lose, RowsTypeOK
<1>2. rows \subseteq lost'[cause]
  BY DEF Lose, RowsTypeOK
<1> QED BY <1>1, <1>2 DEF Lost

(* AppendBatch shows a row or records it as evicted.                       *)
LEMMA AppendBatchKeeps ==
    ASSUME RowsTypeOK, NEW rows, AppendBatch(rows)
    PROVE  RowsOf(table) \union RowsOf(rows) \union Lost \subseteq RowsOf(table)' \union Lost'
<1>1. "evicted" \in Causes
  BY DEF Causes
<1>2. Lost \union ((RowsOf(table) \union RowsOf(rows)) \ RowsOf(AppendRows(table, rows))) \subseteq Lost'
  BY <1>1, LoseKeeps DEF AppendBatch
<1>3. RowsOf(table)' = RowsOf(AppendRows(table, rows))
  BY DEF AppendBatch, RowsOf
<1> QED BY <1>2, <1>3

(* A row leaves its place for another one, or for the record of the lost.  *)
LEMMA LossStep ==
    ASSUME TypeOK, HandEmpty, IdleQueueEmpty, NothingLeft, NoSilentLoss, [Next]_vars
    PROVE  NoSilentLoss'
<1> USE ConstantsAssumption DEF queueVars, pauseVars, sinkVars, workerVars, modelVars, guiVars, ghostVars
<1>1. ASSUME NEW k \in BatchSizes, ParseBatch(k) PROVE NoSilentLoss'
  <2>1. hand = <<>> /\ hand' = NewRows(k) /\ nextRow' = nextRow + k /\ sess' = sess
    BY <1>1 DEF HandEmpty, ParseBatch
  <2>2. UNCHANGED <<table, pendingRows, pausedRows, lost>>
    BY <1>1 DEF ParseBatch
  <2>3. RowsOf(hand) = {}
    BY <2>1, NoRowsOf
  <2>4. Kept \subseteq Kept'
    BY <2>2, <2>3 DEF Kept, Lost, RowsOf
  <2>5. ASSUME NEW i \in 1 .. nextRow' - 1 PROVE [s |-> sess, n |-> i] \in Kept'
    <3>1. CASE i < nextRow
      BY <2>4, <3>1 DEF NoSilentLoss, Kept, TypeOK, CountersTypeOK
    <3>2. CASE i >= nextRow
      <4>1. i - nextRow + 1 \in 1 .. k /\ nextRow + (i - nextRow + 1) - 1 = i
        BY <2>1, <3>2 DEF TypeOK, CountersTypeOK
      <4>2. i - nextRow + 1 \in DOMAIN NewRows(k) /\ NewRows(k)[i - nextRow + 1] = [s |-> sess, n |-> i]
        BY <4>1, NewRowsOrdered
      <4>3. [s |-> sess, n |-> i] \in RowsOf(hand)'
        BY <2>1, <4>2 DEF RowsOf
      <4> QED BY <4>3 DEF Kept
    <3> QED BY <3>1, <3>2 DEF TypeOK, CountersTypeOK
  <2> QED BY <2>1, <2>5 DEF NoSilentLoss, Kept
<1>2. ASSUME NEW k \in BatchSizes \union {0}, ParseFinish(k) PROVE NoSilentLoss'
  <2>1. hand = <<>> /\ hand' = NewRows(k) /\ nextRow' = nextRow + k /\ sess' = sess
    BY <1>2 DEF HandEmpty, ParseFinish
  <2>2. UNCHANGED <<table, pendingRows, pausedRows, lost>>
    BY <1>2 DEF ParseFinish
  <2>3. RowsOf(hand) = {}
    BY <2>1, NoRowsOf
  <2>4. Kept \subseteq Kept'
    BY <2>2, <2>3 DEF Kept, Lost, RowsOf
  <2>5. ASSUME NEW i \in 1 .. nextRow' - 1 PROVE [s |-> sess, n |-> i] \in Kept'
    <3>1. CASE i < nextRow
      BY <2>4, <3>1 DEF NoSilentLoss, Kept, TypeOK, CountersTypeOK
    <3>2. CASE i >= nextRow
      <4>1. i - nextRow + 1 \in 1 .. k /\ nextRow + (i - nextRow + 1) - 1 = i
        BY <2>1, <3>2 DEF TypeOK, CountersTypeOK
      <4>2. i - nextRow + 1 \in DOMAIN NewRows(k) /\ NewRows(k)[i - nextRow + 1] = [s |-> sess, n |-> i]
        BY <4>1, NewRowsOrdered
      <4>3. [s |-> sess, n |-> i] \in RowsOf(hand)'
        BY <2>1, <4>2 DEF RowsOf
      <4> QED BY <4>3 DEF Kept
    <3> QED BY <3>1, <3>2 DEF TypeOK, CountersTypeOK
  <2> QED BY <2>1, <2>5 DEF NoSilentLoss, Kept
<1>3. CASE ParseThrow
  <2>1. UNCHANGED <<table, pendingRows, pausedRows, hand, lost, sess, nextRow>>
    BY <1>3 DEF HandEmpty, ParseThrow
  <2> QED BY <2>1 DEF NoSilentLoss, Lost, RowsOf
<1>4. CASE OnBatch
  <2>1. UNCHANGED <<table, pendingRows, pausedRows, hand, lost, sess, nextRow>>
    BY <1>4 DEF OnBatch
  <2> QED BY <2>1 DEF NoSilentLoss, Lost, RowsOf
<1>5. CASE BufferWhilePaused
  <2> DEFINE all == pausedRows \o hand
             kept == IF wCap # 0 THEN LastN(all, wCap) ELSE all
  <2>1. UNCHANGED <<table, pendingRows, sess, nextRow>>
    BY <1>5 DEF BufferWhilePaused
  <2>2. CASE ~paused
    BY <1>5, <2>1, <2>2 DEF BufferWhilePaused, NoSilentLoss, Lost, RowsOf
  <2>3. CASE paused
    <3>1. pausedRows' = kept /\ lost' = Lose("overflow", RowsOf(all) \ RowsOf(kept))
      BY <1>5, <2>3 DEF BufferWhilePaused
    <3>2. RowsOf(all) = RowsOf(pausedRows) \union RowsOf(hand)
      BY RowsOfConcat DEF TypeOK, RowsTypeOK
    <3>3. Lost \union (RowsOf(all) \ RowsOf(kept)) \subseteq Lost'
      BY <3>1, LoseKeeps DEF TypeOK, Causes
    <3>4. RowsOf(pausedRows)' = RowsOf(kept) /\ RowsOf(table)' = RowsOf(table) /\ RowsOf(pendingRows)' = RowsOf(pendingRows)
      BY <2>1, <3>1 DEF RowsOf
    <3> HIDE DEF all, kept
    <3>5. Kept \subseteq Kept'
      BY <3>2, <3>3, <3>4 DEF Kept
    <3> QED BY <2>1, <3>5 DEF NoSilentLoss, Kept
  <2> QED BY <2>2, <2>3
<1>6. CASE WaitEnqueue
  <2>1. UNCHANGED <<table, pausedRows, sess, nextRow>>
    BY <1>6 DEF WaitEnqueue
  <2>2. CASE pendingRows' = pendingRows \o hand /\ lost' = lost
    <3>1. RowsOf(pendingRows)' = RowsOf(pendingRows) \union RowsOf(hand)
      <4>1. RowsOf(pendingRows \o hand) = RowsOf(pendingRows) \union RowsOf(hand)
        BY RowsOfConcat DEF TypeOK, RowsTypeOK
      <4> QED BY <2>2, <4>1 DEF RowsOf
    <3>2. Kept \subseteq Kept'
      BY <2>1, <2>2, <3>1 DEF Kept, Lost, RowsOf
    <3> QED BY <2>1, <3>2 DEF NoSilentLoss, Kept
  <2>3. CASE pendingRows' = pendingRows /\ lost' = Lose("shutdown", RowsOf(hand))
    <3>1. Lost \union RowsOf(hand) \subseteq Lost'
      BY <2>3, LoseKeeps DEF TypeOK, Causes
    <3>2. Kept \subseteq Kept'
      BY <2>1, <2>3, <3>1 DEF Kept, RowsOf
    <3> QED BY <2>1, <3>2 DEF NoSilentLoss, Kept
  <2>4. CASE UNCHANGED <<pendingRows, hand, lost>>
    BY <2>1, <2>4 DEF NoSilentLoss, Lost, RowsOf
  <2> QED BY <1>6, <2>2, <2>3, <2>4 DEF WaitEnqueue, Enqueued
<1>7. CASE ScheduleDrain
  <2>1. UNCHANGED <<table, pendingRows, pausedRows, hand, lost, sess, nextRow>>
    BY <1>7 DEF ScheduleDrain, AfterSchedule, AfterBatch
  <2> QED BY <2>1 DEF NoSilentLoss, Lost, RowsOf
<1>8. CASE PostDrain
  <2>1. UNCHANGED <<table, pendingRows, pausedRows, hand, lost, sess, nextRow>>
    BY <1>8 DEF PostDrain, AfterBatch
  <2> QED BY <2>1 DEF NoSilentLoss, Lost, RowsOf
<1>9. CASE OnFinished
  <2>1. UNCHANGED <<table, pendingRows, pausedRows, hand, lost, sess, nextRow>>
    BY <1>9 DEF OnFinished
  <2> QED BY <2>1 DEF NoSilentLoss, Lost, RowsOf
<1>10. CASE WorkerExit
  <2>1. UNCHANGED <<table, pendingRows, pausedRows, hand, lost, sess, nextRow>>
    BY <1>10 DEF WorkerExit
  <2> QED BY <2>1 DEF NoSilentLoss, Lost, RowsOf
<1>11. CASE DispatchDrain
  <2>1. UNCHANGED <<table, pendingRows, pausedRows, hand, lost, sess, nextRow>>
    BY <1>11 DEF DispatchDrain, StartDrain
  <2> QED BY <2>1 DEF NoSilentLoss, Lost, RowsOf
<1>12. CASE DrainGeneration
  <2>1. UNCHANGED <<pausedRows, hand, sess, nextRow>>
    BY <1>12 DEF DrainGeneration
  <2>2. CASE pendingCount = 0
    <3>1. pendingRows = <<>> /\ pendingRows' = <<>> /\ UNCHANGED <<table, lost>>
      BY <1>12, <2>2 DEF DrainGeneration, IdleQueueEmpty
    <3> QED BY <2>1, <3>1 DEF NoSilentLoss, Lost, RowsOf
  <2>3. CASE UNCHANGED table /\ lost' = Lose("stale", RowsOf(pendingRows))
    <3>1. Lost \union RowsOf(pendingRows) \subseteq Lost'
      BY <2>3, LoseKeeps DEF TypeOK, Causes
    <3>2. Kept \subseteq Kept'
      BY <2>1, <2>3, <3>1 DEF Kept, RowsOf
    <3> QED BY <2>1, <3>2 DEF NoSilentLoss, Kept
  <2>4. CASE AppendBatch(pendingRows)
    <3>1. RowsOf(table) \union RowsOf(pendingRows) \union Lost \subseteq RowsOf(table)' \union Lost'
      BY <2>4, AppendBatchKeeps DEF TypeOK
    <3>2. RowsOf(pausedRows)' = RowsOf(pausedRows) /\ RowsOf(hand)' = RowsOf(hand)
      BY <2>1 DEF RowsOf
    <3>3. Kept \subseteq Kept'
      BY <3>1, <3>2 DEF Kept
    <3> QED BY <2>1, <3>3 DEF NoSilentLoss, Kept
  <2> QED BY <1>12, <2>2, <2>3, <2>4 DEF DrainGeneration
<1>13. CASE DispatchStaleFinished
  <2>1. UNCHANGED <<table, pendingRows, pausedRows, hand, lost, sess, nextRow>>
    BY <1>13 DEF DispatchStaleFinished
  <2> QED BY <2>1 DEF NoSilentLoss, Lost, RowsOf
<1>14. CASE DispatchFinished
  <2>1. UNCHANGED <<table, pendingRows, pausedRows, hand, lost, sess, nextRow>>
    BY <1>14 DEF DispatchFinished, EndStreaming, StreamingErrors
  <2> QED BY <2>1 DEF NoSilentLoss, Lost, RowsOf
<1>15. CASE ChainNextFile
  BY <1>15 DEF NoSilentLoss, ChainNextFile, AppendStreaming, Arm
<1>16. CASE Join
  <2>1. UNCHANGED <<table, pendingRows, pausedRows, hand, lost, sess, nextRow>>
    BY <1>16 DEF Join
  <2> QED BY <2>1 DEF NoSilentLoss, Lost, RowsOf
<1>17. CASE DrainNow
  <2>1. UNCHANGED <<table, pendingRows, pausedRows, hand, lost, sess, nextRow>>
    BY <1>17 DEF DrainNow, StartDrain
  <2> QED BY <2>1 DEF NoSilentLoss, Lost, RowsOf
<1>18. CASE FinishStop
  <2>1. pendingRows = <<>> /\ pendingRows' = <<>>
    BY <1>18 DEF FinishStop, DropPendingBatches, NothingLeft, IdleQueueEmpty
  <2>2. UNCHANGED <<hand, sess, nextRow>> /\ pausedRows' = <<>> /\ AppendPaused
    BY <1>18 DEF FinishStop, DropPendingBatches
  <2>3. RowsOf(table) \union RowsOf(pausedRows) \union Lost \subseteq RowsOf(table)' \union Lost'
    <3>1. CASE pausedAny
      BY <2>2, <3>1, AppendBatchKeeps DEF AppendPaused, TypeOK
    <3>2. CASE ~pausedAny
      BY <2>2, <3>2, NoRowsOf DEF AppendPaused, NothingLeft, Lost, RowsOf
    <3> QED BY <3>1, <3>2
  <2>4. RowsOf(pendingRows)' = RowsOf(pendingRows) /\ RowsOf(hand)' = RowsOf(hand)
    BY <2>1, <2>2 DEF RowsOf
  <2>5. Kept \subseteq Kept'
    BY <2>3, <2>4 DEF Kept
  <2> QED BY <2>2, <2>5 DEF NoSilentLoss, Kept
<1>19. CASE FinishReset
  BY <1>19 DEF NoSilentLoss, FinishReset
<1>20. CASE BeginOpen
  <2>1. nextRow' = 1 \/ UNCHANGED <<queueVars, pauseVars, workerVars, ghostVars, table>>
    BY <1>20 DEF BeginOpen, BeginStreaming, Arm
  <2> QED BY <2>1 DEF NoSilentLoss, Lost, RowsOf
<1>21. ASSUME NEW op \in AllCommands, ReplaceSession(op) PROVE NoSilentLoss'
  <2>1. UNCHANGED <<table, pendingRows, pausedRows, hand, lost, sess, nextRow>>
    BY <1>21 DEF ReplaceSession, StartTeardown, RequestStop, Woken
  <2> QED BY <2>1 DEF NoSilentLoss, Lost, RowsOf
<1>22. CASE StopStream
  <2>1. UNCHANGED <<table, pendingRows, pausedRows, hand, lost, sess, nextRow>>
    BY <1>22 DEF StopStream, StartTeardown, RequestStop, Woken
  <2> QED BY <2>1 DEF NoSilentLoss, Lost, RowsOf
<1>23. CASE QueueFile
  <2>1. UNCHANGED <<table, pendingRows, pausedRows, hand, lost, sess, nextRow>>
    BY <1>23 DEF QueueFile
  <2> QED BY <2>1 DEF NoSilentLoss, Lost, RowsOf
<1>24. CASE AppendFile
  <2>1. nextRow' = 1 \/ UNCHANGED <<queueVars, pauseVars, workerVars, ghostVars, table>>
    BY <1>24 DEF AppendFile, AppendStreaming, BeginStreaming, Arm
  <2> QED BY <2>1 DEF NoSilentLoss, Lost, RowsOf
<1>25. CASE Pause
  <2>1. UNCHANGED <<table, pendingRows, pausedRows, hand, lost, sess, nextRow>>
    BY <1>25 DEF Pause
  <2> QED BY <2>1 DEF NoSilentLoss, Lost, RowsOf
<1>26. CASE Resume
  <2>1. pendingRows' = pendingRows
    BY <1>26 DEF Resume
  <2>2. UNCHANGED <<hand, sess, nextRow>> /\ pausedRows' = <<>> /\ AppendPaused
    BY <1>26 DEF Resume, DropPendingBatches
  <2>3. RowsOf(table) \union RowsOf(pausedRows) \union Lost \subseteq RowsOf(table)' \union Lost'
    <3>1. CASE pausedAny
      BY <2>2, <3>1, AppendBatchKeeps DEF AppendPaused, TypeOK
    <3>2. CASE ~pausedAny
      BY <2>2, <3>2, NoRowsOf DEF AppendPaused, NothingLeft, Lost, RowsOf
    <3> QED BY <3>1, <3>2
  <2>4. RowsOf(pendingRows)' = RowsOf(pendingRows) /\ RowsOf(hand)' = RowsOf(hand)
    BY <2>1, <2>2 DEF RowsOf
  <2>5. Kept \subseteq Kept'
    BY <2>3, <2>4 DEF Kept
  <2> QED BY <2>2, <2>5 DEF NoSilentLoss, Kept
<1>27. ASSUME NEW c \in Caps, SetRetentionCap(c) PROVE NoSilentLoss'
  <2> DEFINE trimmed == LastN(pausedRows, IF Len(table) >= c THEN 0 ELSE c - Len(table))
  <2>1. UNCHANGED <<pendingRows, hand, sess, nextRow>>
    BY <1>27 DEF SetRetentionCap
  <2>2. CASE UNCHANGED <<table, pausedRows, lost>>
    BY <2>1, <2>2 DEF NoSilentLoss, Lost, RowsOf
  <2>3. CASE /\ table' = LastN(table, c) /\ pausedRows' = pausedRows
             /\ lost' = Lose("evicted", RowsOf(table) \ RowsOf(LastN(table, c)))
    <3>1. Lost \union (RowsOf(table) \ RowsOf(LastN(table, c))) \subseteq Lost'
      BY <2>3, LoseKeeps DEF TypeOK, Causes
    <3>2. RowsOf(table)' = RowsOf(LastN(table, c)) /\ RowsOf(pausedRows)' = RowsOf(pausedRows)
      BY <2>3 DEF RowsOf
    <3>3. RowsOf(pendingRows)' = RowsOf(pendingRows) /\ RowsOf(hand)' = RowsOf(hand)
      BY <2>1 DEF RowsOf
    <3>4. Kept \subseteq Kept'
      BY <3>1, <3>2, <3>3 DEF Kept
    <3> QED BY <2>1, <3>4 DEF NoSilentLoss, Kept
  <2>4. CASE /\ table' = table /\ pausedRows' = trimmed
             /\ lost' = Lose("trimmed", RowsOf(pausedRows) \ RowsOf(trimmed))
    <3>1. Lost \union (RowsOf(pausedRows) \ RowsOf(trimmed)) \subseteq Lost'
      BY <2>4, LoseKeeps DEF TypeOK, Causes
    <3>2. RowsOf(table)' = RowsOf(table) /\ RowsOf(pausedRows)' = RowsOf(trimmed)
      BY <2>4 DEF RowsOf
    <3>3. RowsOf(pendingRows)' = RowsOf(pendingRows) /\ RowsOf(hand)' = RowsOf(hand)
      BY <2>1 DEF RowsOf
    <3> HIDE DEF trimmed
    <3>4. Kept \subseteq Kept'
      BY <3>1, <3>2, <3>3 DEF Kept
    <3> QED BY <2>1, <3>4 DEF NoSilentLoss, Kept
  <2> QED BY <1>27, <2>2, <2>3, <2>4 DEF SetRetentionCap
<1>28. CASE UNCHANGED vars
  <2>1. UNCHANGED <<table, pendingRows, pausedRows, hand, lost, sess, nextRow>>
    BY <1>28 DEF vars
  <2> QED BY <2>1 DEF NoSilentLoss, Lost, RowsOf
<1> QED
  BY <1>1, <1>2, <1>3, <1>4, <1>5, <1>6, <1>7, <1>8, <1>9, <1>10, <1>11, <1>12, <1>13, <1>14, <1>15, <1>16, <1>17, <1>18, <1>19, <1>20, <1>21, <1>22, <1>23, <1>24, <1>25, <1>26, <1>27, <1>28 DEF Next, Worker, Dispatch, Teardown, User

-----------------------------------------------------------------------------
(* The overflow of the paused buffer.                                      *)

LEMMA OverflowType == ASSUME TypeOK PROVE \A r \in lost["overflow"] : r \in Row
BY DEF TypeOK, RowsTypeOK, Causes

(* A new batch is behind everything that was parsed.                       *)
LEMMA NewAfter ==
    ASSUME TypeOK, NEW rows \in Seq(Row), NEW k \in Nat, Parsed(rows)
    PROVE  Precede(rows, NewRows(k))
<1>1. DOMAIN NewRows(k) = 1 .. k /\ \A i \in 1 .. k : NewRows(k)[i] = [s |-> sess, n |-> nextRow + i - 1]
  BY NewRowsOrdered
<1>2. nextRow \in Nat /\ sess \in Nat /\ \A i \in DOMAIN rows : rows[i] \in Row
  BY DEF TypeOK, CountersTypeOK
<1> QED BY <1>1, <1>2 DEF Precede, Parsed, Before, Row

LEMMA ParsedGrows ==
    ASSUME TypeOK, NEW rows \in Seq(Row), NEW k \in Nat, Parsed(rows)
    PROVE  \A i \in DOMAIN rows : Before(rows[i], [s |-> sess, n |-> nextRow + k])
<1>1. nextRow \in Nat /\ sess \in Nat /\ \A i \in DOMAIN rows : rows[i] \in Row
  BY DEF TypeOK, CountersTypeOK
<1> QED BY <1>1 DEF Parsed, Before, Row

LEMMA ConcatParsed ==
    ASSUME NEW a \in Seq(Row), NEW b \in Seq(Row), Parsed(a), Parsed(b)
    PROVE  Parsed(a \o b)
BY ConcatFrom DEF Parsed

(* The indices trimming keeps.                                             *)
Newest(len, n) == IF n # 0 /\ len > n THEN len - n + 1 .. len ELSE 1 .. len

(* Trimming with the cap keeps the newest indices.                         *)
LEMMA NewestKept ==
    ASSUME NEW all \in Seq(Row), NEW n \in Nat
    PROVE  LET kept == IF n # 0 THEN LastN(all, n) ELSE all
           IN  /\ \A i \in DOMAIN all : all[i] \notin RowsOf(kept) => i \notin Newest(Len(all), n)
               /\ \A j \in DOMAIN kept : \E i \in Newest(Len(all), n) : i \in DOMAIN all /\ kept[j] = all[i]
               /\ Len(kept) = IF n # 0 /\ Len(all) > n THEN n ELSE Len(all)
<1> DEFINE kept == IF n # 0 THEN LastN(all, n) ELSE all
<1>1. CASE n # 0 /\ Len(all) > n
  <2>1. kept = SubSeq(all, Len(all) - n + 1, Len(all))
    BY <1>1 DEF LastN
  <2>2. /\ DOMAIN kept = 1 .. n /\ Len(kept) = n
        /\ \A j \in 1 .. n : kept[j] = all[Len(all) - n + j]
    BY <1>1, <2>1
  <2>3. Newest(Len(all), n) = Len(all) - n + 1 .. Len(all)
    BY <1>1 DEF Newest
  <2> HIDE DEF kept
  <2>4. ASSUME NEW i \in Newest(Len(all), n) PROVE all[i] \in RowsOf(kept)
    <3>1. i - (Len(all) - n) \in 1 .. n /\ Len(all) - n + (i - (Len(all) - n)) = i
      BY <1>1, <2>3
    <3>2. kept[i - (Len(all) - n)] = all[i]
      BY <2>2, <3>1
    <3> QED BY <2>2, <3>1, <3>2 DEF RowsOf
  <2>5. ASSUME NEW j \in DOMAIN kept PROVE \E i \in Newest(Len(all), n) : i \in DOMAIN all /\ kept[j] = all[i]
    <3>1. Len(all) - n + j \in Newest(Len(all), n) /\ Len(all) - n + j \in DOMAIN all
      BY <1>1, <2>2, <2>3
    <3> QED BY <2>2, <3>1
  <2> QED BY <1>1, <2>2, <2>4, <2>5 DEF kept
<1>2. CASE ~(n # 0 /\ Len(all) > n)
  <2>1. kept = all /\ Newest(Len(all), n) = 1 .. Len(all)
    BY <1>2 DEF LastN, Newest
  <2> HIDE DEF kept
  <2> QED BY <1>2, <2>1 DEF RowsOf, kept
<1> QED BY <1>1, <1>2

(* What trimming takes is older than what it keeps.                        *)
LEMMA NewestBehind ==
    ASSUME NEW all \in Seq(Row), NEW n \in Nat, Ordered(all)
    PROVE  LET kept == IF n # 0 THEN LastN(all, n) ELSE all
           IN  \A i \in DOMAIN all : i \notin Newest(Len(all), n) => \A j \in DOMAIN kept : Before(all[i], kept[j])
<1> DEFINE kept == IF n # 0 THEN LastN(all, n) ELSE all
<1>1. \A j \in DOMAIN kept : \E i \in Newest(Len(all), n) : i \in DOMAIN all /\ kept[j] = all[i]
  BY NewestKept
<1> HIDE DEF kept
<1>2. ASSUME NEW i \in DOMAIN all, i \notin Newest(Len(all), n), NEW j \in DOMAIN kept
      PROVE  Before(all[i], kept[j])
  <2>1. PICK m \in Newest(Len(all), n) : m \in DOMAIN all /\ kept[j] = all[m]
    BY <1>1
  <2>2. i < m
    BY <1>2, <2>1 DEF Newest
  <2> QED BY <2>1, <2>2 DEF Ordered
<1> QED BY <1>2 DEF kept

(* A new parse starts with nothing dropped and nothing buffered.           *)
LEMMA NothingInOrder ==
    ASSUME pausedRows' = <<>>, hand' = <<>>, lost' = NoLoss
    PROVE  PausedInOrder'
BY DEF PausedInOrder, Ordered, Precede, Parsed, NoLoss, Causes

(* The paused buffer is a queue: oldest rows out first.                    *)
LEMMA PausedInOrderStep ==
    ASSUME TypeOK, HandEmpty, Joined, RowsCurrent, PausedInOrder, [Next]_vars
    PROVE  PausedInOrder'
<1> USE ConstantsAssumption DEF queueVars, pauseVars, sinkVars, workerVars, modelVars, guiVars, ghostVars
<1>1. ASSUME NEW k \in BatchSizes, ParseBatch(k) PROVE PausedInOrder'
  <2>1. hand' = NewRows(k) /\ nextRow' = nextRow + k /\ UNCHANGED <<pausedRows, lost, sess>>
    BY <1>1 DEF ParseBatch
  <2>2. k \in Nat
    OBVIOUS
  <2>3. Ordered(NewRows(k)) /\ DOMAIN NewRows(k) = 1 .. k /\ \A i \in 1 .. k : NewRows(k)[i] = [s |-> sess, n |-> nextRow + i - 1]
    BY <2>2, NewRowsOrdered
  <2>4. nextRow \in Nat /\ sess \in Nat
    BY DEF TypeOK, CountersTypeOK
  <2>5. Precede(pausedRows, NewRows(k))
    BY <2>3, <2>4, NewAfter DEF PausedInOrder, TypeOK, RowsTypeOK
  <2>6. Parsed(pausedRows)' /\ Parsed(hand)'
    <3>1. Parsed(pausedRows)'
      BY <2>1, <2>2, ParsedGrows DEF PausedInOrder, TypeOK, RowsTypeOK, Parsed
    <3>2. Parsed(hand)'
      BY <2>1, <2>2, <2>3, <2>4 DEF Parsed, Before
    <3> QED BY <3>1, <3>2
  <2>7. \A r \in lost["overflow"] :
          /\ r.s = sess' /\ r.n < nextRow' /\ \A i \in DOMAIN NewRows(k) : Before(r, NewRows(k)[i])
    BY <2>1, <2>2, <2>3, <2>4, OverflowType DEF PausedInOrder, Before, Row
  <2> QED BY <2>1, <2>3, <2>5, <2>6, <2>7 DEF PausedInOrder, Ordered, Precede, Parsed
<1>2. ASSUME NEW k \in BatchSizes \union {0}, ParseFinish(k) PROVE PausedInOrder'
  <2>1. hand' = NewRows(k) /\ nextRow' = nextRow + k /\ UNCHANGED <<pausedRows, lost, sess>>
    BY <1>2 DEF ParseFinish
  <2>2. k \in Nat
    OBVIOUS
  <2>3. Ordered(NewRows(k)) /\ DOMAIN NewRows(k) = 1 .. k /\ \A i \in 1 .. k : NewRows(k)[i] = [s |-> sess, n |-> nextRow + i - 1]
    BY <2>2, NewRowsOrdered
  <2>4. nextRow \in Nat /\ sess \in Nat
    BY DEF TypeOK, CountersTypeOK
  <2>5. Precede(pausedRows, NewRows(k))
    BY <2>3, <2>4, NewAfter DEF PausedInOrder, TypeOK, RowsTypeOK
  <2>6. Parsed(pausedRows)' /\ Parsed(hand)'
    <3>1. Parsed(pausedRows)'
      BY <2>1, <2>2, ParsedGrows DEF PausedInOrder, TypeOK, RowsTypeOK, Parsed
    <3>2. Parsed(hand)'
      BY <2>1, <2>2, <2>3, <2>4 DEF Parsed, Before
    <3> QED BY <3>1, <3>2
  <2>7. \A r \in lost["overflow"] :
          /\ r.s = sess' /\ r.n < nextRow' /\ \A i \in DOMAIN NewRows(k) : Before(r, NewRows(k)[i])
    BY <2>1, <2>2, <2>3, <2>4, OverflowType DEF PausedInOrder, Before, Row
  <2> QED BY <2>1, <2>3, <2>5, <2>6, <2>7 DEF PausedInOrder, Ordered, Precede, Parsed
<1>3. CASE ParseThrow
  <2>1. UNCHANGED <<pausedRows, hand, lost, sess, nextRow>>
    BY <1>3 DEF ParseThrow, HandEmpty
  <2> QED BY <2>1 DEF PausedInOrder, Ordered, Precede, Parsed
<1>4. CASE OnBatch
  <2>1. UNCHANGED <<pausedRows, hand, lost, sess, nextRow>>
    BY <1>4 DEF OnBatch
  <2> QED BY <2>1 DEF PausedInOrder, Ordered, Precede, Parsed
<1>5. CASE BufferWhilePaused
  <2> DEFINE all == pausedRows \o hand
             kept == IF wCap # 0 THEN LastN(all, wCap) ELSE all
             over == RowsOf(all) \ RowsOf(kept)
  <2>1. UNCHANGED <<sess, nextRow>>
    BY <1>5 DEF BufferWhilePaused
  <2>2. CASE ~paused
    BY <1>5, <2>1, <2>2 DEF BufferWhilePaused, PausedInOrder, Ordered, Precede, Parsed
  <2>3. CASE paused
    <3>1. pausedRows' = kept /\ hand' = <<>> /\ lost' = Lose("overflow", over)
      BY <1>5, <2>3 DEF BufferWhilePaused
    <3>2. all \in Seq(Row) /\ Ordered(all) /\ Parsed(all) /\ OfSession(all)
      BY OrderedConcat, ConcatParsed, OfSessionConcat DEF PausedInOrder, TypeOK, RowsTypeOK, RowsCurrent
    <3>3. /\ kept \in Seq(Row) /\ Ordered(kept)
          /\ \A i \in DOMAIN kept : \E j \in DOMAIN all : kept[i] = all[j]
      <4> HIDE DEF all
      <4>1. CASE wCap = 0
        BY <3>2, <4>1
      <4>2. CASE wCap # 0
        <5>1. wCap \in Nat /\ kept = LastN(all, wCap)
          BY <4>2 DEF TypeOK, CountersTypeOK
        <5> HIDE DEF kept
        <5>2. LastN(all, wCap) \in Seq(Row) /\ Ordered(LastN(all, wCap))
          BY <3>2, <5>1, LastNType, LastNOrdered
        <5>3. \A i \in DOMAIN LastN(all, wCap) : \E j \in DOMAIN all : LastN(all, wCap)[i] = all[j]
          BY <3>2, <5>1, LastNFrom
        <5> QED BY <5>1, <5>2, <5>3
      <4> QED BY <4>1, <4>2
    <3>4. \A i \in DOMAIN all : i \notin Newest(Len(all), wCap) => \A j \in DOMAIN kept : Before(all[i], kept[j])
      BY <3>2, NewestBehind DEF TypeOK, CountersTypeOK
    <3>5. \A r \in over : \E i \in DOMAIN all : r = all[i] /\ \A j \in DOMAIN kept : Before(r, kept[j])
      <4>1. \A i \in DOMAIN all : all[i] \notin RowsOf(kept) => i \notin Newest(Len(all), wCap)
        BY <3>2, NewestKept DEF TypeOK, CountersTypeOK
      <4> HIDE DEF all, kept
      <4>2. ASSUME NEW r \in over PROVE \E i \in DOMAIN all : r = all[i] /\ all[i] \notin RowsOf(kept)
        BY DEF RowsOf
      <4> HIDE DEF over
      <4> QED BY <3>4, <4>1, <4>2
    <3>6. lost'["overflow"] = lost["overflow"] \union over
      BY <3>1 DEF Lose, TypeOK, RowsTypeOK, Causes
    <3>7. \A r \in lost["overflow"] : \A i \in DOMAIN all : Before(r, all[i])
      <4>1. \A i \in DOMAIN all : (\E j \in DOMAIN pausedRows : all[i] = pausedRows[j]) \/ (\E j \in DOMAIN hand : all[i] = hand[j])
        BY ConcatFrom DEF TypeOK, RowsTypeOK
      <4> HIDE DEF all
      <4> QED BY <4>1 DEF PausedInOrder
    <3>8. \A r \in over : r.s = sess /\ r.n < nextRow
      <4>1. \A i \in DOMAIN all : all[i].s = sess /\ all[i].n < nextRow
        BY <3>2 DEF OfSession, Parsed, Before, TypeOK, CountersTypeOK
      <4> HIDE DEF all
      <4> QED BY <3>5, <4>1
    <3> HIDE DEF all, kept, over
    <3>9. Parsed(kept)
      BY <3>2, <3>3 DEF Parsed
    <3>10. \A r \in lost["overflow"] \union over : r.s = sess /\ r.n < nextRow /\ \A i \in DOMAIN kept : Before(r, kept[i])
      BY <3>3, <3>5, <3>7, <3>8 DEF PausedInOrder
    <3> QED BY <2>1, <3>1, <3>3, <3>6, <3>9, <3>10 DEF PausedInOrder, Ordered, Precede, Parsed
  <2> QED BY <2>2, <2>3
<1>6. CASE WaitEnqueue
  <2>1. UNCHANGED <<pausedRows, sess, nextRow>> /\ (hand' = hand \/ hand' = <<>>)
    BY <1>6 DEF WaitEnqueue
  <2>2. lost'["overflow"] = lost["overflow"]
    BY <1>6 DEF WaitEnqueue, Lose, TypeOK, RowsTypeOK, Causes
  <2> QED BY <2>1, <2>2 DEF PausedInOrder, Ordered, Precede, Parsed
<1>7. CASE ScheduleDrain
  <2>1. UNCHANGED <<pausedRows, hand, lost, sess, nextRow>>
    BY <1>7 DEF ScheduleDrain, AfterSchedule, AfterBatch
  <2> QED BY <2>1 DEF PausedInOrder, Ordered, Precede, Parsed
<1>8. CASE PostDrain
  <2>1. UNCHANGED <<pausedRows, hand, lost, sess, nextRow>>
    BY <1>8 DEF PostDrain, AfterBatch
  <2> QED BY <2>1 DEF PausedInOrder, Ordered, Precede, Parsed
<1>9. CASE OnFinished
  <2>1. UNCHANGED <<pausedRows, hand, lost, sess, nextRow>>
    BY <1>9 DEF OnFinished
  <2> QED BY <2>1 DEF PausedInOrder, Ordered, Precede, Parsed
<1>10. CASE WorkerExit
  <2>1. UNCHANGED <<pausedRows, hand, lost, sess, nextRow>>
    BY <1>10 DEF WorkerExit
  <2> QED BY <2>1 DEF PausedInOrder, Ordered, Precede, Parsed
<1>11. CASE DispatchDrain
  <2>1. UNCHANGED <<pausedRows, hand, lost, sess, nextRow>>
    BY <1>11 DEF DispatchDrain, StartDrain
  <2> QED BY <2>1 DEF PausedInOrder, Ordered, Precede, Parsed
<1>12. CASE DrainGeneration
  <2>1. UNCHANGED <<pausedRows, hand, sess, nextRow>>
    BY <1>12 DEF DrainGeneration
  <2>2. lost'["overflow"] = lost["overflow"]
    BY <1>12 DEF DrainGeneration, AppendBatch, Lose, TypeOK, RowsTypeOK, Causes
  <2> QED BY <2>1, <2>2 DEF PausedInOrder, Ordered, Precede, Parsed
<1>13. CASE DispatchStaleFinished
  <2>1. UNCHANGED <<pausedRows, hand, lost, sess, nextRow>>
    BY <1>13 DEF DispatchStaleFinished
  <2> QED BY <2>1 DEF PausedInOrder, Ordered, Precede, Parsed
<1>14. CASE DispatchFinished
  <2>1. UNCHANGED <<pausedRows, hand, lost, sess, nextRow>>
    BY <1>14 DEF DispatchFinished, EndStreaming, StreamingErrors
  <2> QED BY <2>1 DEF PausedInOrder, Ordered, Precede, Parsed
<1>15. CASE ChainNextFile
  <2>1. pausedRows' = <<>> /\ hand' = <<>> /\ lost' = NoLoss
    BY <1>15 DEF ChainNextFile, AppendStreaming, Arm
  <2> QED BY <2>1, NothingInOrder
<1>16. CASE Join
  <2>1. UNCHANGED <<pausedRows, hand, lost, sess, nextRow>>
    BY <1>16 DEF Join
  <2> QED BY <2>1 DEF PausedInOrder, Ordered, Precede, Parsed
<1>17. CASE DrainNow
  <2>1. UNCHANGED <<pausedRows, hand, lost, sess, nextRow>>
    BY <1>17 DEF DrainNow, StartDrain
  <2> QED BY <2>1 DEF PausedInOrder, Ordered, Precede, Parsed
<1>18. CASE FinishStop
  <2>1. UNCHANGED <<hand, sess, nextRow>> /\ pausedRows' = <<>> /\ AppendPaused
    BY <1>18 DEF FinishStop, DropPendingBatches
  <2>2. lost'["overflow"] = lost["overflow"]
    BY <2>1 DEF AppendPaused, AppendBatch, Lose, TypeOK, RowsTypeOK, Causes
  <2> QED BY <2>1, <2>2 DEF PausedInOrder, Ordered, Precede, Parsed
<1>19. CASE FinishReset
  <2>1. pausedRows' = <<>> /\ hand' = <<>> /\ lost' = NoLoss
    BY <1>19 DEF FinishReset, DropPendingBatches, Woken, HandEmpty, Joined, WorkerJoined
  <2> QED BY <2>1, NothingInOrder
<1>20. CASE BeginOpen
  <2>1. \/ pausedRows' = <<>> /\ hand' = <<>> /\ lost' = NoLoss
        \/ UNCHANGED <<pausedRows, hand, lost, sess, nextRow>>
    BY <1>20 DEF BeginOpen, BeginStreaming, Arm
  <2>2. CASE UNCHANGED <<pausedRows, hand, lost, sess, nextRow>>
    BY <2>2 DEF PausedInOrder, Ordered, Precede, Parsed
  <2> QED BY <2>1, <2>2, NothingInOrder
<1>21. ASSUME NEW op \in AllCommands, ReplaceSession(op) PROVE PausedInOrder'
  <2>1. UNCHANGED <<pausedRows, hand, lost, sess, nextRow>>
    BY <1>21 DEF ReplaceSession, StartTeardown, RequestStop, Woken
  <2> QED BY <2>1 DEF PausedInOrder, Ordered, Precede, Parsed
<1>22. CASE StopStream
  <2>1. UNCHANGED <<pausedRows, hand, lost, sess, nextRow>>
    BY <1>22 DEF StopStream, StartTeardown, RequestStop, Woken
  <2> QED BY <2>1 DEF PausedInOrder, Ordered, Precede, Parsed
<1>23. CASE QueueFile
  <2>1. UNCHANGED <<pausedRows, hand, lost, sess, nextRow>>
    BY <1>23 DEF QueueFile
  <2> QED BY <2>1 DEF PausedInOrder, Ordered, Precede, Parsed
<1>24. CASE AppendFile
  <2>1. \/ pausedRows' = <<>> /\ hand' = <<>> /\ lost' = NoLoss
        \/ UNCHANGED <<pausedRows, hand, lost, sess, nextRow>>
    BY <1>24 DEF AppendFile, AppendStreaming, BeginStreaming, Arm
  <2>2. CASE UNCHANGED <<pausedRows, hand, lost, sess, nextRow>>
    BY <2>2 DEF PausedInOrder, Ordered, Precede, Parsed
  <2> QED BY <2>1, <2>2, NothingInOrder
<1>25. CASE Pause
  <2>1. UNCHANGED <<pausedRows, hand, lost, sess, nextRow>>
    BY <1>25 DEF Pause
  <2> QED BY <2>1 DEF PausedInOrder, Ordered, Precede, Parsed
<1>26. CASE Resume
  <2>1. UNCHANGED <<hand, sess, nextRow>> /\ pausedRows' = <<>> /\ AppendPaused
    BY <1>26 DEF Resume, DropPendingBatches
  <2>2. lost'["overflow"] = lost["overflow"]
    BY <2>1 DEF AppendPaused, AppendBatch, Lose, TypeOK, RowsTypeOK, Causes
  <2> QED BY <2>1, <2>2 DEF PausedInOrder, Ordered, Precede, Parsed
<1>27. ASSUME NEW c \in Caps, SetRetentionCap(c) PROVE PausedInOrder'
  <2>1. UNCHANGED <<hand, sess, nextRow>>
    BY <1>27 DEF SetRetentionCap
  <2>2. lost'["overflow"] = lost["overflow"]
    BY <1>27 DEF SetRetentionCap, Lose, TypeOK, RowsTypeOK, Causes
  <2>3. (IF Len(table) >= c THEN 0 ELSE c - Len(table)) \in Nat
    BY DEF TypeOK, RowsTypeOK
  <2>4. \/ pausedRows' = pausedRows
        \/ pausedRows' = LastN(pausedRows, IF Len(table) >= c THEN 0 ELSE c - Len(table))
    BY <1>27 DEF SetRetentionCap
  <2>5. /\ Ordered(pausedRows')
        /\ \A i \in DOMAIN pausedRows' : \E j \in DOMAIN pausedRows : pausedRows'[i] = pausedRows[j]
    BY <2>3, <2>4, LastNOrdered, LastNFrom DEF PausedInOrder, TypeOK, RowsTypeOK
  <2>6. Precede(pausedRows', hand) /\ Parsed(pausedRows') /\ \A r \in lost["overflow"] : \A i \in DOMAIN pausedRows' : Before(r, pausedRows'[i])
    BY <2>5 DEF PausedInOrder, Precede, Parsed
  <2> QED BY <2>1, <2>2, <2>5, <2>6 DEF PausedInOrder, Ordered, Precede, Parsed
<1>28. CASE UNCHANGED vars
  <2>1. UNCHANGED <<pausedRows, hand, lost, sess, nextRow>>
    BY <1>28 DEF vars
  <2> QED BY <2>1 DEF PausedInOrder, Ordered, Precede, Parsed
<1> QED
  BY <1>1, <1>2, <1>3, <1>4, <1>5, <1>6, <1>7, <1>8, <1>9, <1>10, <1>11, <1>12, <1>13, <1>14, <1>15, <1>16, <1>17, <1>18, <1>19, <1>20, <1>21, <1>22, <1>23, <1>24, <1>25, <1>26, <1>27, <1>28 DEF Next, Worker, Dispatch, Teardown, User

(* Trimming an ordered sequence takes as many rows as it is shorter.       *)
LEMMA TrimmedCount ==
    ASSUME NEW all \in Seq(Row), NEW n \in Nat, Ordered(all)
    PROVE  LET kept == IF n # 0 THEN LastN(all, n) ELSE all
           IN  /\ IsFiniteSet(RowsOf(all) \ RowsOf(kept))
               /\ Cardinality(RowsOf(all) \ RowsOf(kept)) = Len(all) - Len(kept)
<1> DEFINE kept == IF n # 0 THEN LastN(all, n) ELSE all
           m == Len(all) - Len(kept)
           over == RowsOf(all) \ RowsOf(kept)
<1>1. /\ \A i \in DOMAIN all : all[i] \notin RowsOf(kept) => i \notin Newest(Len(all), n)
      /\ Len(kept) = IF n # 0 /\ Len(all) > n THEN n ELSE Len(all)
  BY NewestKept
<1>2. \A i \in DOMAIN all : i \notin Newest(Len(all), n) => \A j \in DOMAIN kept : Before(all[i], kept[j])
  BY NewestBehind
<1> HIDE DEF kept
<1>3. m \in Nat /\ \A i \in DOMAIN all : i \notin Newest(Len(all), n) <=> i \in 1 .. m
  BY <1>1 DEF Newest
<1>4. \A r \in Row : ~Before(r, r)
  BY DEF Before, Row
<1>5. \A i \in DOMAIN all : all[i] \in Row /\ (i \in 1 .. m => all[i] \notin RowsOf(kept))
  BY <1>2, <1>3, <1>4 DEF RowsOf
<1>6. 1 .. m \subseteq DOMAIN all
  BY <1>1
<1> DEFINE f == [i \in 1 .. m |-> all[i]]
<1> HIDE DEF m
<1>7. f \in Surjection(1 .. m, over)
  <2>1. f \in [1 .. m -> over]
    BY <1>5, <1>6 DEF RowsOf
  <2>2. ASSUME NEW r \in over PROVE \E i \in 1 .. m : f[i] = r
    <3>1. PICK i \in DOMAIN all : r = all[i] /\ all[i] \notin RowsOf(kept)
      BY DEF RowsOf
    <3>2. i \in 1 .. m
      BY <1>1, <1>3, <3>1
    <3> QED BY <3>1, <3>2
  <2> QED BY <2>1, <2>2 DEF Surjection
<1>8. f \in Injection(1 .. m, over)
  <2>1. \A i, j \in 1 .. m : i # j => all[i] # all[j]
    <3>1. \A i, j \in 1 .. m : i < j => all[i] # all[j]
      BY <1>4, <1>5, <1>6 DEF Ordered
    <3>2. \A i, j \in 1 .. m : i # j => i < j \/ j < i
      BY <1>3
    <3> QED BY <3>1, <3>2
  <2>2. IsInjective(f)
    BY <2>1 DEF IsInjective
  <2> QED BY <1>7, <2>2 DEF Injection, Surjection
<1>9. IsFiniteSet(1 .. m) /\ Cardinality(1 .. m) = m
  BY <1>3, FS_Interval
<1>10. IsFiniteSet(over) /\ Cardinality(over) = m
  <2> HIDE DEF f, over
  <2> QED BY <1>7, <1>8, <1>9, FS_Surjection
<1> QED BY <1>10 DEF kept, m, over

LEMMA NothingDropped ==
    ASSUME lost' = NoLoss, pausedDrops' = 0 \/ ~streamingActive'
    PROVE  DropsCounted'
<1>1. lost'["overflow"] = {}
  BY DEF NoLoss, Causes
<1> QED BY <1>1, FS_EmptySet DEF DropsCounted, PausedDropsExact

(* No row overflows twice, so the count is the number of the rows.         *)
LEMMA DropsCountedStep ==
    ASSUME TypeOK, FinishCount, PausedInOrder, DropsCounted, [Next]_vars
    PROVE  DropsCounted'
<1> USE ConstantsAssumption DEF queueVars, pauseVars, sinkVars, workerVars, modelVars, guiVars, ghostVars
<1>1. ASSUME NEW k \in BatchSizes, ParseBatch(k) PROVE DropsCounted'
  <2>1. pausedDrops' = pausedDrops /\ lost'["overflow"] = lost["overflow"]
    BY <1>1 DEF ParseBatch, FlagsTypeOK, TypeOK
  <2>2. streamingActive' => streamingActive
    BY <1>1 DEF ParseBatch
  <2> QED BY <2>1, <2>2 DEF DropsCounted, PausedDropsExact
<1>2. ASSUME NEW k \in BatchSizes \union {0}, ParseFinish(k) PROVE DropsCounted'
  <2>1. pausedDrops' = pausedDrops /\ lost'["overflow"] = lost["overflow"]
    BY <1>2 DEF ParseFinish, FlagsTypeOK, TypeOK
  <2>2. streamingActive' => streamingActive
    BY <1>2 DEF ParseFinish
  <2> QED BY <2>1, <2>2 DEF DropsCounted, PausedDropsExact
<1>3. CASE ParseThrow
  <2>1. pausedDrops' = pausedDrops /\ lost'["overflow"] = lost["overflow"]
    BY <1>3 DEF ParseThrow, FlagsTypeOK, TypeOK
  <2>2. streamingActive' => streamingActive
    BY <1>3 DEF ParseThrow
  <2> QED BY <2>1, <2>2 DEF DropsCounted, PausedDropsExact
<1>4. CASE OnBatch
  <2>1. pausedDrops' = pausedDrops /\ lost'["overflow"] = lost["overflow"]
    BY <1>4 DEF OnBatch, FlagsTypeOK, TypeOK
  <2>2. streamingActive' => streamingActive
    BY <1>4 DEF OnBatch
  <2> QED BY <2>1, <2>2 DEF DropsCounted, PausedDropsExact
<1>5. CASE BufferWhilePaused
  <2> DEFINE all == pausedRows \o hand
             kept == IF wCap # 0 THEN LastN(all, wCap) ELSE all
             over == RowsOf(all) \ RowsOf(kept)
  <2>1. streamingActive' = streamingActive
    BY <1>5 DEF BufferWhilePaused
  <2>2. CASE ~paused
    BY <1>5, <2>1, <2>2 DEF BufferWhilePaused, DropsCounted, PausedDropsExact
  <2>3. CASE paused
    <3>1. pausedDrops' = pausedDrops + (Len(all) - Len(kept)) /\ lost' = Lose("overflow", over)
      BY <1>5, <2>3 DEF BufferWhilePaused, CountDrops
    <3>2. all \in Seq(Row) /\ Ordered(all)
      BY OrderedConcat DEF PausedInOrder, TypeOK, RowsTypeOK
    <3>3. IsFiniteSet(over) /\ Cardinality(over) = Len(all) - Len(kept)
      BY <3>2, TrimmedCount DEF TypeOK, CountersTypeOK
    <3>4. lost'["overflow"] = lost["overflow"] \union over
      BY <3>1 DEF Lose, TypeOK, RowsTypeOK, Causes
    <3>5. \A r \in lost["overflow"] : \A i \in DOMAIN all : Before(r, all[i])
      <4>1. \A i \in DOMAIN all : (\E j \in DOMAIN pausedRows : all[i] = pausedRows[j]) \/ (\E j \in DOMAIN hand : all[i] = hand[j])
        BY ConcatFrom DEF TypeOK, RowsTypeOK
      <4> HIDE DEF all
      <4> QED BY <4>1 DEF PausedInOrder
    <3>6. lost["overflow"] \intersect over = {}
      <4>1. \A r \in lost["overflow"] : r \in Row /\ ~Before(r, r)
        BY OverflowType DEF Before, Row
      <4> HIDE DEF all, kept
      <4>2. \A r \in over : \E i \in DOMAIN all : r = all[i]
        BY DEF RowsOf
      <4> QED BY <3>5, <4>1, <4>2
    <3> HIDE DEF all, kept, over
    <3>7. /\ IsFiniteSet(lost'["overflow"])
          /\ Cardinality(lost'["overflow"]) = Cardinality(lost["overflow"]) + Cardinality(over)
      <4>1. IsFiniteSet(lost["overflow"]) /\ Cardinality(lost["overflow"]) \in Nat /\ Cardinality(over) \in Nat
        BY <3>3, FS_CardinalityType DEF DropsCounted
      <4>2. /\ IsFiniteSet(lost["overflow"] \union over)
            /\ Cardinality(lost["overflow"] \union over) = Cardinality(lost["overflow"]) + Cardinality(over) - Cardinality({})
        BY <3>3, <3>6, <4>1, FS_Union
      <4> QED BY <3>4, <4>1, <4>2, FS_EmptySet
    <3> QED BY <2>1, <3>1, <3>3, <3>7 DEF DropsCounted, PausedDropsExact
  <2> QED BY <2>2, <2>3
<1>6. CASE WaitEnqueue
  <2>1. pausedDrops' = pausedDrops /\ lost'["overflow"] = lost["overflow"]
    BY <1>6 DEF WaitEnqueue, Enqueued, AfterBatch, Lose, TypeOK, RowsTypeOK, Causes, FlagsTypeOK
  <2>2. streamingActive' => streamingActive
    BY <1>6 DEF WaitEnqueue, Enqueued, AfterBatch
  <2> QED BY <2>1, <2>2 DEF DropsCounted, PausedDropsExact
<1>7. CASE ScheduleDrain
  <2>1. pausedDrops' = pausedDrops /\ lost'["overflow"] = lost["overflow"]
    BY <1>7 DEF ScheduleDrain, AfterSchedule, AfterBatch, FlagsTypeOK, TypeOK
  <2>2. streamingActive' => streamingActive
    BY <1>7 DEF ScheduleDrain, AfterSchedule, AfterBatch
  <2> QED BY <2>1, <2>2 DEF DropsCounted, PausedDropsExact
<1>8. CASE PostDrain
  <2>1. pausedDrops' = pausedDrops /\ lost'["overflow"] = lost["overflow"]
    BY <1>8 DEF PostDrain, AfterBatch, FlagsTypeOK, TypeOK
  <2>2. streamingActive' => streamingActive
    BY <1>8 DEF PostDrain, AfterBatch
  <2> QED BY <2>1, <2>2 DEF DropsCounted, PausedDropsExact
<1>9. CASE OnFinished
  <2>1. pausedDrops' = pausedDrops /\ lost'["overflow"] = lost["overflow"]
    BY <1>9 DEF OnFinished, FlagsTypeOK, TypeOK
  <2>2. streamingActive' => streamingActive
    BY <1>9 DEF OnFinished
  <2> QED BY <2>1, <2>2 DEF DropsCounted, PausedDropsExact
<1>10. CASE WorkerExit
  <2>1. pausedDrops' = pausedDrops /\ lost'["overflow"] = lost["overflow"]
    BY <1>10 DEF WorkerExit, FlagsTypeOK, TypeOK
  <2>2. streamingActive' => streamingActive
    BY <1>10 DEF WorkerExit
  <2> QED BY <2>1, <2>2 DEF DropsCounted, PausedDropsExact
<1>11. CASE DispatchDrain
  <2>1. pausedDrops' = pausedDrops /\ lost'["overflow"] = lost["overflow"]
    BY <1>11 DEF DispatchDrain, StartDrain, FlagsTypeOK, TypeOK
  <2>2. streamingActive' => streamingActive
    BY <1>11 DEF DispatchDrain, StartDrain
  <2> QED BY <2>1, <2>2 DEF DropsCounted, PausedDropsExact
<1>12. CASE DrainGeneration
  <2>1. pausedDrops' = pausedDrops /\ lost'["overflow"] = lost["overflow"]
    BY <1>12 DEF DrainGeneration, Woken, AfterDrain, Lose, TypeOK, RowsTypeOK, Causes, AppendBatch, FlagsTypeOK
  <2>2. streamingActive' => streamingActive
    BY <1>12 DEF DrainGeneration, Woken, AfterDrain
  <2> QED BY <2>1, <2>2 DEF DropsCounted, PausedDropsExact
<1>13. CASE DispatchStaleFinished
  <2>1. pausedDrops' = pausedDrops /\ lost'["overflow"] = lost["overflow"]
    BY <1>13 DEF DispatchStaleFinished, FlagsTypeOK, TypeOK
  <2>2. streamingActive' => streamingActive
    BY <1>13 DEF DispatchStaleFinished
  <2> QED BY <2>1, <2>2 DEF DropsCounted, PausedDropsExact
<1>14. CASE DispatchFinished
  <2>1. pausedDrops' = pausedDrops /\ lost'["overflow"] = lost["overflow"]
    BY <1>14 DEF DispatchFinished, EndStreaming, StreamingErrors, FlagsTypeOK, TypeOK
  <2>2. streamingActive' => streamingActive
    BY <1>14 DEF DispatchFinished, EndStreaming, StreamingErrors
  <2> QED BY <2>1, <2>2 DEF DropsCounted, PausedDropsExact
<1>15. CASE ChainNextFile
  <2>1. pausedDrops' = 0 /\ lost' = NoLoss
    BY <1>15 DEF ChainNextFile, AppendStreaming, Arm
  <2> QED BY <2>1, NothingDropped
<1>16. CASE Join
  <2>1. pausedDrops' = pausedDrops /\ lost'["overflow"] = lost["overflow"]
    BY <1>16 DEF Join, FlagsTypeOK, TypeOK
  <2>2. streamingActive' => streamingActive
    BY <1>16 DEF Join
  <2> QED BY <2>1, <2>2 DEF DropsCounted, PausedDropsExact
<1>17. CASE DrainNow
  <2>1. pausedDrops' = pausedDrops /\ lost'["overflow"] = lost["overflow"]
    BY <1>17 DEF DrainNow, StartDrain, FlagsTypeOK, TypeOK
  <2>2. streamingActive' => streamingActive
    BY <1>17 DEF DrainNow, StartDrain
  <2> QED BY <2>1, <2>2 DEF DropsCounted, PausedDropsExact
<1>18. CASE FinishStop
  <2>1. pausedDrops' = pausedDrops /\ lost'["overflow"] = lost["overflow"]
    BY <1>18 DEF FinishStop, DropPendingBatches, BumpGeneration, Woken, AppendPaused, Lose, TypeOK, RowsTypeOK, Causes, AppendBatch, FlagsTypeOK
  <2>2. streamingActive' => streamingActive
    BY <1>18 DEF FinishStop, DropPendingBatches, BumpGeneration, Woken, AppendPaused
  <2> QED BY <2>1, <2>2 DEF DropsCounted, PausedDropsExact
<1>19. CASE FinishReset
  <2>1. lost' = NoLoss /\ ~streamingActive'
    BY <1>19 DEF FinishReset, FinishCount
  <2> QED BY <2>1, NothingDropped
<1>20. CASE BeginOpen
  <2>1. \/ pausedDrops' = 0 /\ lost' = NoLoss
        \/ UNCHANGED <<pausedDrops, lost, streamingActive>>
    BY <1>20 DEF BeginOpen, BeginStreaming, Arm
  <2> QED BY <2>1, NothingDropped DEF DropsCounted, PausedDropsExact
<1>21. ASSUME NEW op \in AllCommands, ReplaceSession(op) PROVE DropsCounted'
  <2>1. pausedDrops' = pausedDrops /\ lost'["overflow"] = lost["overflow"]
    BY <1>21 DEF ReplaceSession, StartTeardown, RequestStop, Woken, FlagsTypeOK, TypeOK
  <2>2. streamingActive' => streamingActive
    BY <1>21 DEF ReplaceSession, StartTeardown, RequestStop, Woken
  <2> QED BY <2>1, <2>2 DEF DropsCounted, PausedDropsExact
<1>22. CASE StopStream
  <2>1. pausedDrops' = pausedDrops /\ lost'["overflow"] = lost["overflow"]
    BY <1>22 DEF StopStream, StartTeardown, RequestStop, Woken, FlagsTypeOK, TypeOK
  <2>2. streamingActive' => streamingActive
    BY <1>22 DEF StopStream, StartTeardown, RequestStop, Woken
  <2> QED BY <2>1, <2>2 DEF DropsCounted, PausedDropsExact
<1>23. CASE QueueFile
  <2>1. pausedDrops' = pausedDrops /\ lost'["overflow"] = lost["overflow"]
    BY <1>23 DEF QueueFile, FlagsTypeOK, TypeOK
  <2>2. streamingActive' => streamingActive
    BY <1>23 DEF QueueFile
  <2> QED BY <2>1, <2>2 DEF DropsCounted, PausedDropsExact
<1>24. CASE AppendFile
  <2>1. \/ pausedDrops' = 0 /\ lost' = NoLoss
        \/ UNCHANGED <<pausedDrops, lost, streamingActive>>
    BY <1>24 DEF AppendFile, AppendStreaming, BeginStreaming, Arm
  <2> QED BY <2>1, NothingDropped DEF DropsCounted, PausedDropsExact
<1>25. CASE Pause
  <2>1. pausedDrops' = pausedDrops /\ lost'["overflow"] = lost["overflow"]
    BY <1>25 DEF Pause, FlagsTypeOK, TypeOK
  <2>2. streamingActive' => streamingActive
    BY <1>25 DEF Pause
  <2> QED BY <2>1, <2>2 DEF DropsCounted, PausedDropsExact
<1>26. CASE Resume
  <2>1. pausedDrops' = pausedDrops /\ lost'["overflow"] = lost["overflow"]
    BY <1>26 DEF Resume, AppendPaused, Lose, TypeOK, RowsTypeOK, Causes, AppendBatch, FlagsTypeOK
  <2>2. streamingActive' => streamingActive
    BY <1>26 DEF Resume, AppendPaused
  <2> QED BY <2>1, <2>2 DEF DropsCounted, PausedDropsExact
<1>27. ASSUME NEW c \in Caps, SetRetentionCap(c) PROVE DropsCounted'
  <2>1. pausedDrops' = pausedDrops /\ lost'["overflow"] = lost["overflow"]
    BY <1>27 DEF SetRetentionCap, Lose, TypeOK, RowsTypeOK, Causes, FlagsTypeOK
  <2>2. streamingActive' => streamingActive
    BY <1>27 DEF SetRetentionCap
  <2> QED BY <2>1, <2>2 DEF DropsCounted, PausedDropsExact
<1>28. CASE UNCHANGED vars
  <2>1. pausedDrops' = pausedDrops /\ lost'["overflow"] = lost["overflow"]
    BY <1>28 DEF vars, FlagsTypeOK, TypeOK
  <2>2. streamingActive' => streamingActive
    BY <1>28 DEF vars
  <2> QED BY <2>1, <2>2 DEF DropsCounted, PausedDropsExact
<1> QED
  BY <1>1, <1>2, <1>3, <1>4, <1>5, <1>6, <1>7, <1>8, <1>9, <1>10, <1>11, <1>12, <1>13, <1>14, <1>15, <1>16, <1>17, <1>18, <1>19, <1>20, <1>21, <1>22, <1>23, <1>24, <1>25, <1>26, <1>27, <1>28 DEF Next, Worker, Dispatch, Teardown, User

-----------------------------------------------------------------------------
(* The order of the files.                                                 *)

(* A parse is armed behind everything that is shown.                       *)
LEMMA ArmedInLine ==
    ASSUME TypeOK, TableCurrent, InLine,
           ~paused', ~pausedAny', pausedRows' = <<>>, wpc' = "parse", hand' = <<>>, pendingRows' = <<>>,
           sess' = sess + 1, table' = table \/ table' = <<>>
    PROVE  InLine'
<1>1. \A i \in DOMAIN table : table[i].s < sess + 1
  <2>1. base \in Nat /\ sess \in Nat /\ table \in Seq(Row)
    BY DEF TypeOK, RowsTypeOK, CountersTypeOK
  <2>2. ASSUME NEW i \in DOMAIN table PROVE table[i].s < sess + 1
    <3>1. table[i].s \in base .. sess
      BY <2>2 DEF TableCurrent
    <3> QED BY <2>1, <3>1
  <2> QED BY <2>2
<1>2. Parsed(table)'
  BY <1>1 DEF Parsed, Before
<1> QED BY <1>2 DEF InLine, Ordered, Precede, Parsed

(* Rows leave the line at its head and join it at its end.                 *)
LEMMA InLineStep ==
    ASSUME TypeOK, HandEmpty, Joined, TableCurrent, PausedInOrder, InLine, ~Pause, [Next]_vars
    PROVE  InLine'
<1> USE ConstantsAssumption DEF queueVars, pauseVars, sinkVars, workerVars, modelVars, guiVars, ghostVars
<1>1. ASSUME NEW k \in BatchSizes, ParseBatch(k) PROVE InLine'
  <2>1. /\ hand' = NewRows(k) /\ nextRow' = nextRow + k /\ wpc' = "onBatch"
        /\ UNCHANGED <<table, pendingRows, pausedRows, paused, pausedAny, sess>>
    BY <1>1 DEF ParseBatch
  <2>2. k \in Nat /\ table \in Seq(Row) /\ pendingRows \in Seq(Row)
    BY DEF TypeOK, RowsTypeOK
  <2>3. Precede(table, NewRows(k)) /\ Precede(pendingRows, NewRows(k))
    BY <2>2, NewAfter DEF InLine
  <2>4. Parsed(table)' /\ Parsed(pendingRows)'
    BY <2>1, <2>2, ParsedGrows DEF InLine, Parsed
  <2> QED BY <2>1, <2>3, <2>4 DEF InLine, Ordered, Precede
<1>2. ASSUME NEW k \in BatchSizes \union {0}, ParseFinish(k) PROVE InLine'
  <2>1. /\ hand' = NewRows(k) /\ nextRow' = nextRow + k /\ wpc' = "onBatch"
        /\ UNCHANGED <<table, pendingRows, pausedRows, paused, pausedAny, sess>>
    BY <1>2 DEF ParseFinish
  <2>2. k \in Nat /\ table \in Seq(Row) /\ pendingRows \in Seq(Row)
    BY DEF TypeOK, RowsTypeOK
  <2>3. Precede(table, NewRows(k)) /\ Precede(pendingRows, NewRows(k))
    BY <2>2, NewAfter DEF InLine
  <2>4. Parsed(table)' /\ Parsed(pendingRows)'
    BY <2>1, <2>2, ParsedGrows DEF InLine, Parsed
  <2> QED BY <2>1, <2>3, <2>4 DEF InLine, Ordered, Precede
<1>3. CASE ParseThrow
  <2>1. UNCHANGED <<table, pendingRows, hand, pausedRows, paused, pausedAny, sess, nextRow>> /\ wpc' # "pausedLock"
    BY <1>3 DEF InLine, ParseThrow, HandEmpty
  <2> QED BY <2>1 DEF InLine, Ordered, Precede, Parsed
<1>4. CASE OnBatch
  <2>1. UNCHANGED <<table, pendingRows, hand, pausedRows, paused, pausedAny, sess, nextRow>> /\ wpc' # "pausedLock"
    BY <1>4 DEF InLine, OnBatch
  <2> QED BY <2>1 DEF InLine, Ordered, Precede, Parsed
<1>5. CASE BufferWhilePaused
  BY <1>5 DEF BufferWhilePaused, InLine
<1>6. CASE WaitEnqueue
  <2>1. UNCHANGED <<table, pausedRows, paused, pausedAny, sess, nextRow>> /\ wpc' # "pausedLock"
    BY <1>6 DEF WaitEnqueue, AfterBatch
  <2>2. CASE pendingRows' = pendingRows \o hand /\ hand' = <<>>
    <3> DEFINE both == pendingRows \o hand
    <3>1. Ordered(both) /\ Parsed(both)
      BY OrderedConcat, ConcatParsed DEF InLine, PausedInOrder, TypeOK, RowsTypeOK
    <3>2. \A i \in DOMAIN both : (\E j \in DOMAIN pendingRows : both[i] = pendingRows[j]) \/ (\E j \in DOMAIN hand : both[i] = hand[j])
      BY ConcatFrom DEF TypeOK, RowsTypeOK
    <3> HIDE DEF both
    <3>3. Precede(table, both)
      BY <3>2 DEF InLine, Precede
    <3>4. pendingRows' = both
      BY <2>2 DEF both
    <3> QED BY <2>1, <2>2, <3>1, <3>3, <3>4 DEF InLine, Ordered, Precede, Parsed
  <2>3. CASE pendingRows' = pendingRows /\ (hand' = hand \/ hand' = <<>>)
    BY <2>1, <2>3 DEF InLine, Ordered, Precede, Parsed
  <2> QED BY <1>6, <2>2, <2>3 DEF WaitEnqueue, Enqueued
<1>7. CASE ScheduleDrain
  <2>1. UNCHANGED <<table, pendingRows, hand, pausedRows, paused, pausedAny, sess, nextRow>> /\ wpc' # "pausedLock"
    BY <1>7 DEF InLine, ScheduleDrain, AfterSchedule, AfterBatch
  <2> QED BY <2>1 DEF InLine, Ordered, Precede, Parsed
<1>8. CASE PostDrain
  <2>1. UNCHANGED <<table, pendingRows, hand, pausedRows, paused, pausedAny, sess, nextRow>> /\ wpc' # "pausedLock"
    BY <1>8 DEF InLine, PostDrain, AfterBatch
  <2> QED BY <2>1 DEF InLine, Ordered, Precede, Parsed
<1>9. CASE OnFinished
  <2>1. UNCHANGED <<table, pendingRows, hand, pausedRows, paused, pausedAny, sess, nextRow>> /\ wpc' # "pausedLock"
    BY <1>9 DEF InLine, OnFinished
  <2> QED BY <2>1 DEF InLine, Ordered, Precede, Parsed
<1>10. CASE WorkerExit
  <2>1. UNCHANGED <<table, pendingRows, hand, pausedRows, paused, pausedAny, sess, nextRow>> /\ wpc' # "pausedLock"
    BY <1>10 DEF InLine, WorkerExit
  <2> QED BY <2>1 DEF InLine, Ordered, Precede, Parsed
<1>11. CASE DispatchDrain
  <2>1. UNCHANGED <<table, pendingRows, hand, pausedRows, paused, pausedAny, sess, nextRow>> /\ wpc' # "pausedLock"
    BY <1>11 DEF InLine, DispatchDrain, StartDrain
  <2> QED BY <2>1 DEF InLine, Ordered, Precede, Parsed
<1>12. CASE DrainGeneration
  <2>1. /\ UNCHANGED <<hand, pausedRows, paused, pausedAny, sess, nextRow>> /\ pendingRows' = <<>>
        /\ wpc' = Woken(wpc)
    BY <1>12 DEF DrainGeneration
  <2>2. wpc' # "pausedLock"
    BY <2>1 DEF Woken, InLine
  <2>3. CASE table' = table
    BY <2>1, <2>2, <2>3 DEF InLine, Ordered, Precede, Parsed
  <2>4. CASE table' = AppendRows(table, pendingRows)
    <3>1. table \in Seq(Row) /\ pendingRows \in Seq(Row) /\ cap \in Nat
      BY DEF TypeOK, RowsTypeOK, CountersTypeOK
    <3>2. Ordered(table')
      BY <2>4, <3>1, AppendRowsOrdered DEF InLine
    <3>3. \A i \in DOMAIN table' : (\E j \in DOMAIN table : table'[i] = table[j]) \/ (\E j \in DOMAIN pendingRows : table'[i] = pendingRows[j])
      BY <2>4, <3>1, AppendRowsFrom
    <3>4. Precede(table', hand) /\ Parsed(table')
      BY <3>3 DEF InLine, Precede, Parsed
    <3> QED BY <2>1, <2>2, <3>2, <3>4 DEF InLine, Ordered, Precede, Parsed
  <2> QED BY <1>12, <2>3, <2>4 DEF DrainGeneration, AppendBatch
<1>13. CASE DispatchStaleFinished
  <2>1. UNCHANGED <<table, pendingRows, hand, pausedRows, paused, pausedAny, sess, nextRow>> /\ wpc' # "pausedLock"
    BY <1>13 DEF InLine, DispatchStaleFinished
  <2> QED BY <2>1 DEF InLine, Ordered, Precede, Parsed
<1>14. CASE DispatchFinished
  <2>1. UNCHANGED <<table, pendingRows, hand, pausedRows, paused, pausedAny, sess, nextRow>> /\ wpc' # "pausedLock"
    BY <1>14 DEF InLine, DispatchFinished, EndStreaming, StreamingErrors
  <2> QED BY <2>1 DEF InLine, Ordered, Precede, Parsed
<1>15. CASE ChainNextFile
  <2>1. /\ ~paused' /\ ~pausedAny' /\ pausedRows' = <<>> /\ wpc' = "parse"
        /\ hand' = <<>> /\ pendingRows' = <<>> /\ sess' = sess + 1
        /\ table' = table \/ table' = <<>>
    BY <1>15 DEF ChainNextFile, AppendStreaming, Arm
  <2> QED BY <2>1, ArmedInLine
<1>16. CASE Join
  <2>1. UNCHANGED <<table, pendingRows, hand, pausedRows, paused, pausedAny, sess, nextRow>> /\ wpc' # "pausedLock"
    BY <1>16 DEF InLine, Join
  <2> QED BY <2>1 DEF InLine, Ordered, Precede, Parsed
<1>17. CASE DrainNow
  <2>1. UNCHANGED <<table, pendingRows, hand, pausedRows, paused, pausedAny, sess, nextRow>> /\ wpc' # "pausedLock"
    BY <1>17 DEF InLine, DrainNow, StartDrain
  <2> QED BY <2>1 DEF InLine, Ordered, Precede, Parsed
<1>18. CASE FinishStop
  <2>1. /\ UNCHANGED <<table, hand, sess, nextRow>> /\ ~paused' /\ ~pausedAny' /\ pausedRows' = <<>> /\ pendingRows' = <<>>
    BY <1>18 DEF FinishStop, DropPendingBatches, AppendPaused, InLine
  <2>2. wpc' # "pausedLock"
    BY <1>18 DEF FinishStop, DropPendingBatches, Woken, InLine
  <2> QED BY <2>1, <2>2 DEF InLine, Ordered, Precede, Parsed
<1>19. CASE FinishReset
  <2>1. hand = <<>> /\ wpc \in {"none", "done"}
    BY <1>19 DEF FinishReset, HandEmpty, Joined, WorkerJoined
  <2>2. /\ table' = <<>> /\ hand' = <<>> /\ ~paused' /\ ~pausedAny' /\ pausedRows' = <<>> /\ pendingRows' = <<>>
        /\ wpc' = Woken(wpc)
    BY <1>19, <2>1 DEF FinishReset, DropPendingBatches
  <2>3. wpc' # "pausedLock"
    BY <2>1, <2>2 DEF Woken
  <2> QED BY <2>2, <2>3 DEF InLine, Ordered, Precede, Parsed
<1>20. CASE BeginOpen
  <2>1. CASE /\ ~paused' /\ ~pausedAny' /\ pausedRows' = <<>> /\ wpc' = "parse"
             /\ hand' = <<>> /\ pendingRows' = <<>> /\ sess' = sess + 1
             /\ table' = table \/ table' = <<>>
    BY <2>1, ArmedInLine
  <2>2. CASE UNCHANGED <<table, pendingRows, hand, pausedRows, paused, pausedAny, sess, nextRow, wpc>>
    BY <2>2 DEF InLine, Ordered, Precede, Parsed
  <2> QED BY <1>20, <2>1, <2>2 DEF BeginOpen, BeginStreaming, Arm
<1>21. ASSUME NEW op \in AllCommands, ReplaceSession(op) PROVE InLine'
  <2>1. UNCHANGED <<table, pendingRows, hand, pausedRows, paused, pausedAny, sess, nextRow>> /\ wpc' # "pausedLock"
    BY <1>21 DEF InLine, ReplaceSession, StartTeardown, RequestStop, Woken
  <2> QED BY <2>1 DEF InLine, Ordered, Precede, Parsed
<1>22. CASE StopStream
  <2>1. UNCHANGED <<table, pendingRows, hand, pausedRows, paused, pausedAny, sess, nextRow>> /\ wpc' # "pausedLock"
    BY <1>22 DEF InLine, StopStream, StartTeardown, RequestStop, Woken
  <2> QED BY <2>1 DEF InLine, Ordered, Precede, Parsed
<1>23. CASE QueueFile
  <2>1. UNCHANGED <<table, pendingRows, hand, pausedRows, paused, pausedAny, sess, nextRow>> /\ wpc' # "pausedLock"
    BY <1>23 DEF InLine, QueueFile
  <2> QED BY <2>1 DEF InLine, Ordered, Precede, Parsed
<1>24. CASE AppendFile
  <2>1. CASE /\ ~paused' /\ ~pausedAny' /\ pausedRows' = <<>> /\ wpc' = "parse"
             /\ hand' = <<>> /\ pendingRows' = <<>> /\ sess' = sess + 1
             /\ table' = table \/ table' = <<>>
    BY <2>1, ArmedInLine
  <2>2. CASE UNCHANGED <<table, pendingRows, hand, pausedRows, paused, pausedAny, sess, nextRow, wpc>>
    BY <2>2 DEF InLine, Ordered, Precede, Parsed
  <2> QED BY <1>24, <2>1, <2>2 DEF AppendFile, AppendStreaming, BeginStreaming, Arm
<1>25. CASE Pause
  BY <1>25
<1>26. CASE Resume
  BY <1>26 DEF Resume, InLine
<1>27. ASSUME NEW c \in Caps, SetRetentionCap(c) PROVE InLine'
  <2>1. UNCHANGED <<pendingRows, hand, paused, sess, nextRow, wpc, pausedRows, pausedAny>> /\ (table' = table \/ table' = LastN(table, c))
    BY <1>27 DEF SetRetentionCap, InLine
  <2>2. /\ Ordered(table')
        /\ \A i \in DOMAIN table' : \E j \in DOMAIN table : table'[i] = table[j]
    BY <2>1, LastNOrdered, LastNFrom DEF InLine, TypeOK, RowsTypeOK
  <2>3. Precede(table', pendingRows) /\ Precede(table', hand) /\ Parsed(table')
    BY <2>2 DEF InLine, Precede, Parsed
  <2> QED BY <2>1, <2>2, <2>3 DEF InLine, Ordered, Precede, Parsed
<1>28. CASE UNCHANGED vars
  <2>1. UNCHANGED <<table, pendingRows, hand, pausedRows, paused, pausedAny, sess, nextRow>> /\ wpc' # "pausedLock"
    BY <1>28 DEF InLine, vars
  <2> QED BY <2>1 DEF InLine, Ordered, Precede, Parsed
<1> QED
  BY <1>1, <1>2, <1>3, <1>4, <1>5, <1>6, <1>7, <1>8, <1>9, <1>10, <1>11, <1>12, <1>13, <1>14, <1>15, <1>16, <1>17, <1>18, <1>19, <1>20, <1>21, <1>22, <1>23, <1>24, <1>25, <1>26, <1>27, <1>28 DEF Next, Worker, Dispatch, Teardown, User

-----------------------------------------------------------------------------
LEMMA MCStep == [MCNext]_<<scenario, vars>> => [Next]_vars /\ scenario' = scenario
<1>1. ASSUME MCNext PROVE Next /\ scenario' = scenario
  <2>1. CASE FilesCommand
    BY <1>1, <2>1 DEF MCNext, FilesCommand, Next, User, AllCommands
  <2>2. CASE LiveCommand
    BY <1>1, <2>2 DEF MCNext, LiveCommand, Next, User, AllCommands
  <2> QED BY <1>1, <2>1, <2>2 DEF MCNext, Next
<1> QED BY <1>1

(* No live source is opened where files are.                               *)
LEMMA FilesOnly ==
    ASSUME [MCNext]_<<scenario, vars>>, scenario = "files", mode # "LiveTail", guiOp # "openLive"
    PROVE  ~Pause /\ mode' # "LiveTail" /\ guiOp' # "openLive"
<1> USE DEF queueVars, pauseVars, sinkVars, workerVars, modelVars, guiVars, ghostVars
<1>1. ~Pause
  BY DEF Pause
<1> SUFFICES mode' # "LiveTail" /\ guiOp' # "openLive"
  BY <1>1
<1>2. CASE Worker
  <2>1. UNCHANGED <<mode, guiOp>>
    BY <1>2 DEF Worker, ParseBatch, ParseFinish, ParseThrow, OnBatch, BufferWhilePaused, WaitEnqueue, ScheduleDrain, PostDrain, OnFinished, WorkerExit
  <2> QED BY <2>1
<1>3. CASE Dispatch \/ DrainGeneration
  <2>1. CASE DispatchDrain
    BY <2>1 DEF DispatchDrain, StartDrain
  <2>2. CASE DispatchStaleFinished
    BY <2>2 DEF DispatchStaleFinished
  <2>3. CASE DispatchFinished
    BY <2>3 DEF DispatchFinished
  <2>4. CASE ChainNextFile
    BY <2>4 DEF ChainNextFile, AppendStreaming, Arm
  <2>5. CASE DrainGeneration
    <3>1. UNCHANGED <<mode, guiOp>>
      BY <2>5 DEF DrainGeneration
    <3> QED BY <3>1
  <2> QED BY <1>3, <2>1, <2>2, <2>3, <2>4, <2>5 DEF Dispatch
<1>4. CASE Teardown
  <2>1. CASE Join
    BY <2>1 DEF Join
  <2>2. CASE DrainNow
    BY <2>2 DEF DrainNow, StartDrain
  <2>3. CASE FinishStop
    BY <2>3 DEF FinishStop
  <2>4. CASE FinishReset
    BY <2>4 DEF FinishReset
  <2>5. CASE BeginOpen
    BY <2>5 DEF BeginOpen, BeginStreaming
  <2> QED BY <1>4, <2>1, <2>2, <2>3, <2>4, <2>5 DEF Teardown
<1>5. CASE FilesCommand
  <2>1. CASE ReplaceSession("new") \/ ReplaceSession("openStatic")
    BY <2>1 DEF ReplaceSession, StartTeardown
  <2>2. CASE QueueFile
    BY <2>2 DEF QueueFile
  <2>3. CASE AppendFile
    BY <2>3 DEF AppendFile, BeginStreaming
  <2> QED BY <1>5, <2>1, <2>2, <2>3 DEF FilesCommand
<1>6. CASE UNCHANGED <<scenario, vars>>
  BY <1>6 DEF vars
<1>7. ~LiveCommand
  BY DEF LiveCommand
<1> QED BY <1>2, <1>3, <1>4, <1>5, <1>6, <1>7 DEF MCNext

LEMMA RowsStepOK == RowsInv /\ [MCNext]_<<scenario, vars>> => RowsInv'
<1> SUFFICES ASSUME RowsInv, [MCNext]_<<scenario, vars>> PROVE RowsInv'
  OBVIOUS
<1>1. [Next]_vars /\ scenario' = scenario
  BY MCStep
<1>2. Sessions'
  BY <1>1, SessionsStep DEF RowsInv
<1>3. NothingLeft' /\ NoSilentLoss'
  BY <1>1, NothingLeftStep, LossStep DEF RowsInv, Sessions, Wakeups
<1>4. PausedInOrder' /\ DropsCounted'
  BY <1>1, PausedInOrderStep, DropsCountedStep DEF RowsInv, Sessions, Wakeups
<1>5. ASSUME scenario = "files" PROVE InLine' /\ mode' # "LiveTail" /\ guiOp' # "openLive"
  <2>1. ~Pause /\ mode' # "LiveTail" /\ guiOp' # "openLive"
    BY <1>5, FilesOnly DEF RowsInv
  <2> QED BY <1>1, <1>5, <2>1, InLineStep DEF RowsInv, Sessions, Wakeups
<1> QED BY <1>1, <1>2, <1>3, <1>4, <1>5 DEF RowsInv

LEMMA RowsInit == MCInit => RowsInv
<1> SUFFICES ASSUME MCInit PROVE RowsInv
  OBVIOUS
<1> USE DEF MCInit
<1>1. Sessions
  BY InitSessions
<1>2. NothingLeft
  BY DEF Init, NothingLeft
<1>3. NoSilentLoss
  BY DEF Init, NoSilentLoss
<1>4. lost["overflow"] = {}
  BY DEF Init, NoLoss, Causes
<1>5. PausedInOrder
  BY <1>4 DEF Init, PausedInOrder, Ordered, Precede, Parsed
<1>6. DropsCounted
  BY <1>4, FS_EmptySet DEF Init, DropsCounted, PausedDropsExact
<1>7. InLine /\ mode # "LiveTail" /\ guiOp # "openLive"
  BY DEF Init, InLine, Ordered, Precede, Parsed
<1> QED BY <1>1, <1>2, <1>3, <1>5, <1>6, <1>7 DEF RowsInv

(* The rows of the session: WaitEnqueue, DrainGeneration, AppendBatch and  *)
(* the paused buffer give up a row only where it is recorded, the counter  *)
(* of the status bar counts each row of the paused overflow once, files    *)
(* are shown in their order, and Arm clears an empty queue.                *)
THEOREM EveryRowAccounted == MCSpec => RowsAccounted
<1>1. MCSpec => []RowsInv
  BY RowsInit, RowsStepOK, PTL DEF MCSpec
<1>2. RowsInv => NoSilentLoss /\ PausedDropsExact /\ FilesInOrder
  <2> SUFFICES ASSUME RowsInv PROVE FilesInOrder
    BY DEF RowsInv, DropsCounted
  <2>1. table \in Seq(Row)
    BY DEF RowsInv, Sessions, Wakeups, TypeOK, RowsTypeOK
  <2>2. ASSUME scenario = "files", NEW i \in 1 .. Len(table) - 1 PROVE Before(table[i], table[i + 1])
    <3>1. i \in DOMAIN table /\ i + 1 \in DOMAIN table /\ i < i + 1
      BY <2>1
    <3> QED BY <2>2, <3>1 DEF RowsInv, InLine, Ordered
  <2> QED BY <2>2 DEF FilesInOrder, InOrder, Before
<1>3. MCSpec => ArmFindsQueueEmpty
  <2>1. MCInit => Init
    BY DEF MCInit
  <2>2. MCSpec => Spec
    BY <2>1, MCStep, PTL DEF MCSpec, Spec
  <2> QED BY <2>2, ArmDiscardsNothing
<1> QED BY <1>1, <1>2, <1>3, PTL DEF RowsAccounted
=============================================================================
