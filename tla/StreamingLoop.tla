--------------------------- MODULE StreamingLoop ---------------------------
(***************************************************************************)
(* RunStreamingParseLoop: lines arrive from a producer, a record is held   *)
(* back while continuation lines may follow, for at most a maximum age,    *)
(* and AutoDetectParser may have read the first lines already.             *)
(***************************************************************************)
EXTENDS Ingest

VARIABLES
    arrived,        \* lines the producer has
    inputClosed,    \* the producer is at its end
    carried,        \* lines read: the carry reaches to here
    scanned,        \* lines processed
    torn,           \* the last line of the input has no newline
    rec,            \* the pending record, its dropped continuations
    orphans,        \* the current run of orphaned continuation lines
    header,         \* the line a CSV header was read from
    aged,           \* a record was committed by its age
    pc              \* "peek", "scan" or "read"
streamVars == <<ingestVars, arrived, inputClosed, carried, scanned, torn, rec, orphans, header, aged, pc>>

NoRec == [id |-> 0, text |-> <<>>, dropped |-> {}]

StreamInit ==
    /\ IngestInit
    /\ keys = IF format = "Regex" /\ usable THEN SchemaKeys ELSE <<>>
    /\ seen = KeyBaseline(keys)
    /\ arrived = 0 /\ inputClosed = FALSE
    /\ carried = 0 /\ scanned = 0
    /\ torn \in BOOLEAN
    /\ rec = NoRec /\ orphans = {} /\ header = 0 /\ aged = FALSE
    /\ pc \in {"peek", "read"}

Complete == IF torn /\ carried = Len(file) /\ carried > 0 THEN carried - 1 ELSE carried

-----------------------------------------------------------------------------
(* One line *)

KeepOrphanRun(b) == b

FlushOrphanRun(b) == [b EXCEPT !.errors = @ \cup orphans]

(* commitPending: the record becomes a row, what could not be joined to it *)
(* an error.                                                               *)
CommitPending(b, r) ==
    IF r = NoRec THEN b
    ELSE [b EXCEPT !.rows = Append(@, [id |-> r.id, text |-> r.text]), !.errors = @ \cup r.dropped]

CanAcceptContinuation(r) == file[r.id] = "head"

(* The four decoders; a CSV decoder takes the first line it can read as a   *)
(* header.                                                                 *)
JsonDecodeCompact(i) == IF Emits(i) THEN "Emit" ELSE "Error"
LogfmtDecodeCompact(i) == IF Continues(i) THEN "Continue" ELSE IF Emits(i) THEN "Emit" ELSE "Error"
RegexDecodeCompact(i) == IF Continues(i) THEN "Continue" ELSE IF Emits(i) THEN "Emit" ELSE "Error"
CsvDecodeCompact(i) ==
    IF header = 0 THEN (IF file[i] = "bad" THEN "Error" ELSE "Skip") ELSE IF Emits(i) THEN "Emit" ELSE "Error"

DecodeCompact(i) ==
    CASE file[i] = "blank" -> "Blank"
      [] file[i] # "blank" /\ format = "Json" -> JsonDecodeCompact(i)
      [] file[i] # "blank" /\ format = "Logfmt" -> LogfmtDecodeCompact(i)
      [] file[i] # "blank" /\ format = "Csv" -> CsvDecodeCompact(i)
      [] file[i] # "blank" /\ format = "Regex" -> RegexDecodeCompact(i)

ExtendRec(i) ==
    IF CanAcceptContinuation(rec) THEN [rec EXCEPT !.text = Append(@, i)]
    ELSE [rec EXCEPT !.dropped = @ \cup {i}]

(* processLine: what it leaves of the pending batch and record.  *)
ProcessLine(i) ==
    LET d == DecodeCompact(i)
        flushed == FlushOrphanRun(pending)
        same == [batch |-> flushed, rec |-> rec, orphans |-> {}, header |-> header, keys |-> keys]
    IN CASE d = "Blank" -> same
         [] d = "Error" -> [same EXCEPT !.batch.errors = @ \cup {i}]
         [] d = "Skip" -> [same EXCEPT !.header = i, !.keys = SchemaKeys]
         [] d = "Continue" /\ rec # NoRec -> [same EXCEPT !.rec = ExtendRec(i)]
         [] d = "Continue" /\ rec = NoRec -> [same EXCEPT !.batch = pending, !.orphans = orphans \cup {i}]
         [] d = "Emit" -> [same EXCEPT !.batch = CommitPending(flushed, rec),
                                       !.rec = [id |-> i, text |-> <<i>>, dropped |-> {}],
                                       !.keys = GetOrInsert(keys, KeyOf(i))]

-----------------------------------------------------------------------------
(* Actions *)

(* The producer and its source.  *)
Arrive ==
    /\ arrived < Len(file) /\ ~inputClosed
    /\ arrived' = arrived + 1
    /\ UNCHANGED <<ingestVars, inputClosed, carried, scanned, torn, rec, orphans, header, aged, pc>>

CloseInput ==
    /\ arrived = Len(file) /\ ~inputClosed
    /\ inputClosed' = TRUE
    /\ UNCHANGED <<ingestVars, arrived, carried, scanned, torn, rec, orphans, header, aged, pc>>

Live == usable /\ sink.ended = "no"

(* The probes of the parsers, given the lines that are not blank.  *)
LineLooksLikeLogfmt(k) == k \in {"head", "num"}
LogfmtIsValidBytes(ls) == ls # <<>> /\ LineLooksLikeLogfmt(Head(ls))
JsonIsValidBytes(ls) == ls # <<>> /\ Head(ls) \in {"head", "num"}
CsvIsValidBytes(ls) == Len(ls) >= 2 /\ \A j \in 1..2 : ls[j] \in {"head", "num"}
ProbeAutoDetectTemplates(ls) == Len(SelectSeq(ls, LAMBDA k : k \in {"head", "num"})) >= 2

(* TryDetectFormatFromBytes on the first n lines; JSON is the fallback.  *)
DetectFormatFromBytes(n) ==
    LET ls == SelectSeq(SubSeq(file, 1, n), LAMBDA k : k # "blank")
        valid == CASE format = "Json" -> JsonIsValidBytes(ls)
                   [] format = "Logfmt" -> LogfmtIsValidBytes(ls)
                   [] format = "Regex" -> ProbeAutoDetectTemplates(ls)
                   [] format = "Csv" -> CsvIsValidBytes(ls)
    IN IF valid THEN format ELSE "Json"

(* DrainPeek reads until a format is found, the budget or the time is used *)
(* up; what it read becomes the carry of the parser it resolves to.        *)
DrainPeek ==
    /\ pc = "peek" /\ Live
    /\ \E n \in 0..arrived :
          /\ carried' = n
          /\ format' = IF n = 0 THEN "Json" ELSE DetectFormatFromBytes(n)
          /\ keys' = IF format' = "Regex" THEN SchemaKeys ELSE <<>>
          /\ seen' = KeyBaseline(keys')
    /\ pc' = IF stop THEN "read" ELSE "scan"
    /\ UNCHANGED <<file, usable, pending, stop, sink, arrived, inputClosed, scanned, torn, rec, orphans, header, aged>>

ReadSome ==
    /\ pc = "read" /\ Live /\ ~stop
    /\ carried < arrived
    /\ \E n \in (carried + 1)..arrived : carried' = n
    /\ pc' = "scan"
    /\ UNCHANGED <<ingestVars, arrived, inputClosed, scanned, torn, rec, orphans, header, aged>>

ScanLine ==
    /\ pc = "scan" /\ ~stop
    /\ scanned < Complete
    /\ LET done == ProcessLine(scanned + 1)
       IN /\ pending' = done.batch
          /\ rec' = done.rec
          /\ orphans' = done.orphans
          /\ header' = done.header
          /\ keys' = done.keys
    /\ scanned' = scanned + 1
    /\ UNCHANGED <<file, format, usable, seen, stop, sink, arrived, inputClosed, carried, torn, aged, pc>>

ScanDone ==
    /\ pc = "scan"
    /\ stop \/ scanned = Complete
    /\ TryFlush(pending, keys)
    /\ pc' = "read"
    /\ UNCHANGED <<file, format, usable, keys, stop, arrived, inputClosed, carried, scanned, torn, rec, orphans, header, aged>>

(* Nothing to read: a record past its age is committed.  *)
AgeOut(b, r) == CommitPending(b, r)

WaitForBytes ==
    /\ pc = "read" /\ Live /\ ~stop
    /\ carried = arrived /\ ~inputClosed
    /\ \/ /\ rec # NoRec
          /\ rec' = NoRec /\ aged' = TRUE
          /\ TryFlush(AgeOut(pending, rec), keys)
       \/ /\ TryFlush(pending, keys)
          /\ UNCHANGED <<rec, aged>>
    /\ UNCHANGED <<file, format, usable, keys, stop, arrived, inputClosed, carried, scanned, torn, orphans, header, pc>>

(* The end of the input, or a stop: a line without newline is processed,   *)
(* then orphans and the pending record are flushed.                        *)
FinishStream ==
    /\ pc = "read" /\ Live
    /\ stop \/ (carried = arrived /\ inputClosed)
    /\ LET tail == IF scanned < carried /\ ~stop THEN ProcessLine(scanned + 1)
                   ELSE [batch |-> pending, rec |-> rec, orphans |-> orphans, header |-> header, keys |-> keys]
           flushed == [tail.batch EXCEPT !.errors = @ \cup tail.orphans]
       IN /\ FinishParse(CommitPending(flushed, tail.rec), tail.keys, stop)
          /\ keys' = tail.keys
          /\ header' = tail.header
    /\ rec' = NoRec /\ orphans' = {}
    /\ scanned' = carried
    /\ UNCHANGED <<file, format, usable, stop, arrived, inputClosed, carried, torn, aged, pc>>

EmitStreamErrorAndFinish ==
    /\ ~usable /\ sink.ended = "no"
    /\ FinishParse([NoBatch EXCEPT !.errors = Lines], keys, FALSE)
    /\ UNCHANGED <<file, format, usable, keys, stop, arrived, inputClosed, carried, scanned, torn, rec, orphans, header, aged, pc>>

StreamStep ==
    DrainPeek \/ ReadSome \/ ScanLine \/ ScanDone \/ WaitForBytes \/ FinishStream \/ EmitStreamErrorAndFinish

StreamNext ==
    \/ StreamStep \/ Arrive \/ CloseInput
    \/ RequestStop /\ UNCHANGED <<arrived, inputClosed, carried, scanned, torn, rec, orphans, header, aged, pc>>
=============================================================================
