-------------------------- MODULE TailingProducer --------------------------
(***************************************************************************)
(* TailingBytesProducer: one worker thread follows a log file by its path, *)
(* pre-fills the last lines, reads what is appended, and survives the      *)
(* rotations other programs perform on the file.                           *)
(*                                                                         *)
(* A file is an inode with a sequence of bytes; a line is a few bytes and  *)
(* a newline, each naming the file it was written to, a number no other    *)
(* line has, and its place in the line.  The logger and the rotation tool  *)
(* act between any two system calls of the worker.                         *)
(***************************************************************************)
EXTENDS Integers, Sequences, FiniteSets, SequencesExt

CONSTANTS
    MaxFiles,      \* bound: inodes that ever stand at the path
    MaxLines,      \* bound: lines the logger writes
    MaxBody,       \* bound: bytes of a line before its newline
    MaxRotations,  \* bound: rotations
    Rotations,     \* the kinds of rotation of the scenario
    InitialLines,  \* lines in the file when it is opened
    RetentionLines, \* mRetentionLines
    ReadChunk,     \* Options::readChunkBytes
    PrefillChunk,  \* Options::prefillChunkBytes
    PrefillMaxScan \* Options::prefillMaxScanBytes

AllRotations == {"rename", "truncate", "delete"}

ASSUME TailAssumption ==
    /\ MaxFiles \in Nat \ {0}
    /\ MaxLines \in Nat
    /\ MaxBody \in Nat \ {0}
    /\ MaxRotations \in Nat
    /\ Rotations \subseteq AllRotations
    /\ InitialLines \in Nat
    /\ RetentionLines \in Nat \ {0}
    /\ ReadChunk \in Nat \ {0}
    /\ PrefillChunk \in Nat \ {0}
    /\ PrefillMaxScan \in Nat

VARIABLES
    \* the file system and the logger
    content,    \* bytes of every inode
    path,       \* inode at the path, 0 when it is missing
    away,       \* inode that was moved away from the path, 0 if none
    inodes,     \* inodes created so far
    writer,     \* inode the logger has open
    body,       \* bytes of the line the logger is writing, 0 between lines
    nextLine,   \* number of the next line
    rotated,    \* rotations so far
    \* the producer
    pc,         \* where the worker is
    handle,     \* inode of mHandle, 0 when it is invalid
    offset,     \* mReadOffset
    partial,    \* mPartialLine
    ready,      \* mReadyBuffer, with the bytes Read has taken from its front
    waiting,    \* mWaiting
    status,     \* mLastReportedStatus
    rotationCount, \* mRotationCount
    didWork,    \* WorkerMain's local
    fileSize, scanPos, newlines, scanned, lineStart, \* locals of Prefill
    stop,       \* mStopRequested
    exited,     \* mWorkerExited
    \* history, read by properties only
    seen,       \* kinds of rotation so far
    start,      \* where the delivery of the file at handle began
    skipped,    \* pre-fill gave up and skipped to the end of the file
    torn,       \* the file was truncated while pre-fill ran
    openFailed  \* a re-open found no file

fsVars      == <<content, path, away, inodes, writer, body, nextLine, rotated>>
prefillVars == <<fileSize, scanPos, newlines, scanned, lineStart>>
bufferVars  == <<partial, ready>>
statusVars  == <<waiting, status, rotationCount>>
ghostVars   == <<seen, start, skipped, torn, openFailed>>

vars == <<fsVars, prefillVars, bufferVars, statusVars, ghostVars,
          pc, handle, offset, didWork, stop, exited>>

Files == 1 .. MaxFiles
Byte == [file : 0 .. MaxFiles, line : Nat, at : Nat, nl : BOOLEAN]

WorkerStates == {"start", "scan", "body", "detect", "reopen", "size", "read", "park", "exit", "exited"}

ByteOf(f, n, at, nl) == [file |-> f, line |-> n, at |-> at, nl |-> nl]

(* A line of one byte and its newline.                                     *)
LineOf(f, n) == << ByteOf(f, n, 1, FALSE), ByteOf(f, n, 2, TRUE) >>

(* The newline a stop adds to the last line.                               *)
Synthetic == ByteOf(0, 0, 0, TRUE)

-----------------------------------------------------------------------------
(* The logger and the rotation tool.                                       *)

(* One write of the logger: a byte of a line, or the newline that ends it. *)
Write ==
    /\ \/ /\ body < MaxBody
          /\ nextLine <= MaxLines
          /\ content' = [content EXCEPT ![writer] = Append(@, ByteOf(writer, nextLine, body + 1, FALSE))]
          /\ body' = body + 1
          /\ UNCHANGED nextLine
       \/ /\ body > 0
          /\ content' = [content EXCEPT ![writer] = Append(@, ByteOf(writer, nextLine, body + 1, TRUE))]
          /\ body' = 0
          /\ nextLine' = nextLine + 1
    /\ UNCHANGED <<path, away, inodes, writer, rotated>>
    /\ UNCHANGED <<prefillVars, bufferVars, statusVars, ghostVars, pc, handle, offset, didWork, stop, exited>>

(* The logger re-opens the path, between two lines.                        *)
FollowPath ==
    /\ body = 0
    /\ path # 0
    /\ writer # path
    /\ writer' = path
    /\ UNCHANGED <<content, path, away, inodes, body, nextLine, rotated>>
    /\ UNCHANGED <<prefillVars, bufferVars, statusVars, ghostVars, pc, handle, offset, didWork, stop, exited>>

Rotate(kind) ==
    /\ kind \in Rotations
    /\ rotated < MaxRotations
    /\ rotated' = rotated + 1
    /\ seen' = seen \union {kind}
    /\ UNCHANGED <<start, skipped, openFailed>>
    /\ UNCHANGED <<writer, body, nextLine>>
    /\ UNCHANGED <<prefillVars, bufferVars, statusVars, pc, handle, offset, didWork, stop, exited>>

(* Rename and create: a new file stands at the path.                       *)
RenameAndCreate ==
    /\ Rotate("rename")
    /\ path # 0
    /\ inodes < MaxFiles
    /\ inodes' = inodes + 1
    /\ path' = inodes + 1
    /\ UNCHANGED <<content, away, torn>>

(* Copy and truncate, or truncation in place, between two lines.           *)
Truncate ==
    /\ Rotate("truncate")
    /\ path # 0
    /\ body = 0
    /\ content' = [content EXCEPT ![path] = <<>>]
    /\ torn' = (torn \/ pc \in {"scan", "body"})
    /\ UNCHANGED <<path, away, inodes>>

(* The path disappears; the file lives on while somebody has it open.      *)
Delete ==
    /\ Rotate("delete")
    /\ path # 0
    /\ away' = path
    /\ path' = 0
    /\ UNCHANGED <<content, inodes, torn>>

(* The path comes back, with a new file or the one that was moved away.    *)
Reappear ==
    /\ path = 0
    /\ \/ /\ inodes < MaxFiles
          /\ inodes' = inodes + 1
          /\ path' = inodes + 1
       \/ /\ path' = away
          /\ UNCHANGED inodes
    /\ UNCHANGED <<content, away, writer, body, nextLine, rotated>>
    /\ UNCHANGED <<prefillVars, bufferVars, statusVars, ghostVars, pc, handle, offset, didWork, stop, exited>>

-----------------------------------------------------------------------------
(* The buffers.                                                            *)

(* Position of the last newline, 0 when there is none.                     *)
LastNewline(bytes) == SelectLastInSeq(bytes, LAMBDA b : b.nl)

(* AppendBytesAndSplitLocked: everything up to the last newline is ready.  *)
Split(bytes) ==
    LET all == partial \o bytes
        cut == LastNewline(all)
    IN  [complete |-> SubSeq(all, 1, cut), rest |-> SubSeq(all, cut + 1, Len(all))]

Deliver(bytes) ==
    /\ ready' = ready \o Split(bytes).complete
    /\ partial' = Split(bytes).rest

(* pread of up to n bytes at a position of the open file.                  *)
ReadAtOffset(pos, n) ==
    LET size == Len(content[handle])
        last == IF pos + n < size THEN pos + n ELSE size
    IN  SubSeq(content[handle], pos + 1, last)

-----------------------------------------------------------------------------
(* The worker: pre-fill.                                                   *)

(* Variant of StopSeen: the flag is looked at once, before pre-fill.       *)
StopSeenOnce == stop /\ pc = "start"

(* mStopRequested, as the worker looks at it.                              *)
StopSeen == stop

(* The head of WorkerMain's loop.                                          *)
LoopHead == IF StopSeen THEN "exit" ELSE "detect"

(* WorkerMain begins, and Prefill samples the size of the file.            *)
PrefillStart ==
    /\ pc = "start"
    /\ \/ /\ StopSeen \/ Len(content[handle]) = 0
          /\ pc' = LoopHead
          /\ UNCHANGED <<fileSize, scanPos>>
       \/ /\ ~StopSeen /\ Len(content[handle]) > 0
          /\ fileSize' = Len(content[handle])
          /\ scanPos' = fileSize'
          /\ pc' = "scan"
    /\ UNCHANGED <<newlines, scanned, lineStart, handle, offset, didWork, stop, exited>>
    /\ UNCHANGED <<fsVars, bufferVars, statusVars, ghostVars>>

(* Variant of TargetNewlines: one newline short.                           *)
TargetNewlinesShort == RetentionLines

(* The (N+1)-th newline from the end precedes the last N lines.            *)
TargetNewlines == RetentionLines + 1

(* Prefill returns: tail from the size it sampled; its locals are gone.    *)
LeavePrefill ==
    /\ offset' = fileSize
    /\ pc' = LoopHead
    /\ fileSize' = 0 /\ scanPos' = 0 /\ newlines' = 0 /\ scanned' = 0 /\ lineStart' = 0

(* One slice of the backward scan: stop at the newline looked for, at the  *)
(* beginning of the file, when the read fails or when the budget is spent. *)
PrefillScan ==
    LET size == IF scanPos < PrefillChunk THEN scanPos ELSE PrefillChunk
        pos == scanPos - size
        chunk == ReadAtOffset(pos, size)
        found == Cardinality({i \in DOMAIN chunk : chunk[i].nl})
        missing == TargetNewlines - newlines
        boundary == CHOOSE i \in DOMAIN chunk :
                        /\ chunk[i].nl
                        /\ Cardinality({j \in i .. Len(chunk) : chunk[j].nl}) = missing
        spent == PrefillMaxScan # 0 /\ scanned + Len(chunk) >= PrefillMaxScan
    IN  /\ pc = "scan"
        /\ \/ /\ chunk = <<>> \/ (found < missing /\ spent)
              /\ LeavePrefill
              /\ skipped' = TRUE
              /\ start' = fileSize
           \/ /\ found >= missing
              /\ lineStart' = pos + boundary
              /\ pc' = "body"
              /\ UNCHANGED <<fileSize, scanPos, newlines, scanned, offset, skipped, start>>
           \/ /\ chunk # <<>> /\ found < missing /\ ~spent
              /\ scanPos' = pos
              /\ newlines' = newlines + found
              /\ scanned' = scanned + Len(chunk)
              /\ pc' = IF pos = 0 THEN "body" ELSE "scan"
              /\ UNCHANGED <<fileSize, lineStart, offset, skipped, start>>
        /\ UNCHANGED <<handle, didWork, stop, exited, seen, torn, openFailed>>
        /\ UNCHANGED <<fsVars, bufferVars, statusVars>>

(* Read the lines that are kept.                                           *)
PrefillBody ==
    /\ pc = "body"
    /\ Deliver(ReadAtOffset(lineStart, fileSize - lineStart))
    /\ LeavePrefill
    /\ start' = lineStart
    /\ UNCHANGED <<handle, didWork, stop, exited, seen, skipped, torn, openFailed>>
    /\ UNCHANGED <<fsVars, statusVars>>

-----------------------------------------------------------------------------
(* The worker: its loop.                                                   *)

(* Variant of ReportRunning: nobody is told.                               *)
ReportRunningNever == UNCHANGED status

(* FireStatusCallbackIfChanged(Running), when the file was missing.        *)
ReportRunning == status' = IF waiting THEN "Running" ELSE status

(* DetectAndRecoverRotation, the identity of the path: (i) another file    *)
(* stands there, or one stands there again and nothing is open; (ii) none  *)
(* does: the handle is kept, the partial line is not; otherwise the same   *)
(* file is there.                                                          *)
DetectPath ==
    /\ pc = "detect"
    /\ didWork' = FALSE
    /\ \/ /\ path # 0
          /\ IF handle # 0 THEN path # handle ELSE waiting
          /\ pc' = "reopen"
          /\ UNCHANGED <<partial, waiting, status>>
       \/ /\ path = 0
          /\ waiting' = TRUE
          /\ partial' = IF waiting THEN partial ELSE <<>>
          /\ status' = IF waiting THEN status ELSE "Waiting"
          /\ pc' = "read"
       \/ /\ path # 0
          /\ IF handle # 0 THEN path = handle ELSE ~waiting
          /\ waiting' = FALSE
          /\ ReportRunning
          /\ pc' = "size"
          /\ UNCHANGED partial
    /\ UNCHANGED <<ready, rotationCount, handle, offset, stop, exited>>
    /\ UNCHANGED <<fsVars, prefillVars, ghostVars>>

(* Variants of Rewound: the position in the old file is kept; the new one  *)
(* is taken relative to it.                                                *)
RewoundNot == offset
RewoundRelative == IF handle = 0 THEN 0 ELSE Len(content[handle]) - offset

(* mReadOffset after a rotation.                                           *)
Rewound == 0

(* Variant of Discarded: the partial line survives.                        *)
DiscardedNot == partial

(* mPartialLine after a rotation.                                          *)
Discarded == <<>>

(* The re-open of branch (i), which finds whatever stands at the path now. *)
Reopen ==
    /\ pc = "reopen"
    /\ handle' = path
    /\ offset' = Rewound
    /\ partial' = Discarded
    /\ waiting' = FALSE
    /\ ReportRunning
    /\ rotationCount' = rotationCount + 1
    /\ didWork' = TRUE
    /\ start' = 0
    /\ openFailed' = (openFailed \/ path = 0)
    /\ pc' = "read"
    /\ UNCHANGED <<ready, stop, exited, seen, skipped, torn>>
    /\ UNCHANGED <<fsVars, prefillVars>>

(* Variants of Shrunk: the bound is off by one; nobody looks.              *)
ShrunkOrSame == handle # 0 /\ Len(content[handle]) <= offset
ShrunkNever == FALSE

(* The open file is shorter than what was read of it.                      *)
Shrunk == handle # 0 /\ Len(content[handle]) < offset

(* Branch (iii), copytruncate and truncation in place.                     *)
DetectSize ==
    /\ pc = "size"
    /\ \/ /\ Shrunk
          /\ offset' = Rewound
          /\ partial' = Discarded
          /\ rotationCount' = rotationCount + 1
          /\ didWork' = TRUE
          /\ start' = 0
       \/ /\ ~Shrunk
          /\ UNCHANGED <<offset, partial, rotationCount, didWork, start>>
    /\ pc' = "read"
    /\ UNCHANGED <<ready, waiting, status, handle, stop, exited>>
    /\ UNCHANGED <<seen, skipped, torn, openFailed>>
    /\ UNCHANGED <<fsVars, prefillVars>>

(* ReadMoreBytes.                                                          *)
ReadMoreBytes ==
    /\ pc = "read"
    /\ LET bytes == IF handle = 0 THEN <<>> ELSE ReadAtOffset(offset, ReadChunk)
       IN  /\ Deliver(bytes)
           /\ offset' = offset + Len(bytes)
           /\ pc' = IF didWork \/ bytes # <<>> \/ StopSeen THEN LoopHead ELSE "park"
    /\ UNCHANGED <<handle, didWork, stop, exited>>
    /\ UNCHANGED <<fsVars, prefillVars, statusVars, ghostVars>>

(* The wait ends: by a watcher event, a stop or the poll interval.         *)
Wake ==
    /\ pc = "park"
    /\ pc' = LoopHead
    /\ UNCHANGED <<handle, offset, didWork, stop, exited>>
    /\ UNCHANGED <<fsVars, prefillVars, bufferVars, statusVars, ghostVars>>

(* FlushPartialLineLocked.                                                 *)
Flushed == IF partial = <<>> THEN ready ELSE ready \o Append(partial, Synthetic)

(* The end of WorkerMain.  mRotationInProgress is set and reset within one *)
(* call of DetectAndRecoverRotation, so it is never set here.              *)
WorkerExit ==
    /\ pc = "exit"
    /\ ready' = Flushed
    /\ partial' = <<>>
    /\ handle' = 0
    /\ exited' = TRUE
    /\ pc' = "exited"
    /\ UNCHANGED <<offset, didWork, stop>>
    /\ UNCHANGED <<fsVars, prefillVars, statusVars, ghostVars>>

-----------------------------------------------------------------------------
(* Stop, by the thread that tears the session down.                        *)
Stop ==
    /\ ~stop
    /\ stop' = TRUE
    /\ UNCHANGED <<pc, handle, offset, didWork, exited>>
    /\ UNCHANGED <<fsVars, prefillVars, bufferVars, statusVars, ghostVars>>

-----------------------------------------------------------------------------
FileSystem == Write \/ FollowPath \/ RenameAndCreate \/ Truncate \/ Delete \/ Reappear

Worker ==
    \/ PrefillStart \/ PrefillScan \/ PrefillBody
    \/ DetectPath \/ Reopen \/ DetectSize \/ ReadMoreBytes
    \/ Wake \/ WorkerExit

Init ==
    /\ content = [f \in Files |-> IF f = 1 THEN FlattenSeq([n \in 1 .. InitialLines |-> LineOf(1, n)])
                                           ELSE <<>>]
    /\ path = 1 /\ away = 0 /\ inodes = 1 /\ writer = 1 /\ body = 0
    /\ nextLine = InitialLines + 1 /\ rotated = 0
    /\ pc = "start" /\ handle = 1 /\ offset = 0
    /\ partial = <<>> /\ ready = <<>>
    /\ waiting = FALSE /\ status = "Running" /\ rotationCount = 0 /\ didWork = FALSE
    /\ fileSize = 0 /\ scanPos = 0 /\ newlines = 0 /\ scanned = 0 /\ lineStart = 0
    /\ stop = FALSE /\ exited = FALSE
    /\ seen = {} /\ start = 0 /\ skipped = FALSE /\ torn = FALSE /\ openFailed = FALSE

Next == FileSystem \/ Worker \/ Stop

(* The worker is a thread whose waits are bounded by the poll interval.    *)
(* Nobody else need act.                                                   *)
Spec == Init /\ [][Next]_vars /\ WF_vars(Worker)

-----------------------------------------------------------------------------
(* Properties.                                                             *)

(* Every variable has its type: mReadOffset in particular never goes below *)
(* zero, whatever the size of the file a rotation left.                    *)
TypeOK ==
    /\ content \in [Files -> Seq(Byte)]
    /\ path \in 0 .. MaxFiles /\ away \in 0 .. MaxFiles /\ inodes \in Files /\ writer \in Files
    /\ body \in 0 .. MaxBody /\ nextLine \in Nat /\ rotated \in 0 .. MaxRotations
    /\ pc \in WorkerStates /\ handle \in 0 .. MaxFiles /\ offset \in Nat
    /\ partial \in Seq(Byte) /\ ready \in Seq(Byte)
    /\ waiting \in BOOLEAN /\ status \in {"Running", "Waiting"} /\ rotationCount \in Nat
    /\ didWork \in BOOLEAN /\ stop \in BOOLEAN /\ exited \in BOOLEAN
    /\ fileSize \in Nat /\ scanPos \in Nat /\ newlines \in Nat /\ scanned \in Nat /\ lineStart \in Nat
    /\ seen \subseteq AllRotations /\ start \in Nat
    /\ skipped \in BOOLEAN /\ torn \in BOOLEAN /\ openFailed \in BOOLEAN

Delivered(f) == SelectSeq(ready, LAMBDA b : b.file = f)

(* Across rename-and-create rotations nothing is lost, repeated or torn in *)
(* the file being followed: the bytes delivered from it and the partial    *)
(* line are exactly the bytes between where its delivery began and         *)
(* mReadOffset.                                                            *)
FollowsExactly ==
    seen \subseteq {"rename"} /\ handle # 0 /\ pc \notin {"start", "scan", "body"} =>
        /\ offset <= Len(content[handle])
        /\ Delivered(handle) \o partial = SubSeq(content[handle], start + 1, offset)

(* The byte at i of the queue stands where its line has it: the first byte *)
(* of a line follows a newline, any other the byte before it.              *)
InPlace(i) ==
    LET before == IF i = 1 THEN Synthetic ELSE ready[i - 1]
    IN  CASE ready[i] = Synthetic -> ~before.nl
          [] ready[i].at = 1      -> before.nl
          [] OTHER -> before = ByteOf(ready[i].file, ready[i].line, ready[i].at - 1, FALSE)

(* The parser sees whole lines only, whatever is renamed.                  *)
WholeLines ==
    seen \subseteq {"rename"} /\ ~skipped => \A i \in DOMAIN ready : InPlace(i)

(* No rotation makes the producer deliver a line twice or out of order,    *)
(* unless the file is truncated while pre-fill runs.                       *)
NoRepeats ==
    ~torn =>
        \A i \in 1 .. Len(ready) - 1 :
            LET a == ready[i] b == ready[i + 1]
            IN  \/ b = Synthetic
                \/ a.file < b.file
                \/ a.file = b.file /\ a.line < b.line
                \/ a.file = b.file /\ a.line = b.line /\ a.at < b.at

CountLines(bytes) == Cardinality({i \in DOMAIN bytes : bytes[i].nl})

(* Pre-fill of a file nobody truncates delivers its last mRetentionLines   *)
(* lines, or all when it has fewer, however the backward scan was sliced.  *)
PrefillIsTail ==
    [][pc = "body" /\ pc' # "body" /\ ~torn =>
         LET lines == CountLines(SubSeq(content[handle], 1, fileSize))
         IN  CountLines(ready') = IF lines < RetentionLines THEN lines ELSE RetentionLines]_vars

(* The status the GUI was told is the one of the last look at the path,    *)
(* and the producer counts no rotation that did not happen.                *)
StatusAndCountHonest ==
    /\ (status = "Waiting") <=> waiting
    /\ rotationCount <= rotated

(* A stop ends the worker and leaves no partial line behind.               *)
StopEnds == stop ~> (exited /\ partial = <<>>)

CaughtUp == handle = path /\ offset = Len(content[path])

(* However the file was rotated, the worker ends up following the file at  *)
(* the path to its end, unless a re-open failed.                           *)
CatchesUp == <>[](stop \/ openFailed \/ path = 0 \/ CaughtUp)

(* What reaches the parser is the file: nothing lost, repeated, reordered  *)
(* or torn by rotations at any point of the worker's cycle, with the       *)
(* status and the rotation count it reports.                               *)
DeliversTheFile == TypeOK /\ FollowsExactly /\ WholeLines /\ NoRepeats /\ StatusAndCountHonest

(* The worker reaches the end of the file at the path, or the stop.        *)
EndsCaughtUp == StopEnds /\ CatchesUp
====
