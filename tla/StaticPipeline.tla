--------------------------- MODULE StaticPipeline ---------------------------
(***************************************************************************)
(* RunStaticParserPipeline: stage A cuts the file into batches of whole    *)
(* lines, stage B decodes them in parallel, stage C takes them in order,   *)
(* joins a record whose continuation lines lie in the next batch, and      *)
(* feeds the coalescer.                                                    *)
(***************************************************************************)
EXTENDS Ingest

CONSTANT MaxTokens      \* batches in flight

ASSUME TokensAssumption == MaxTokens \in Nat \ {0}

VARIABLES
    cuts,       \* the last line of every batch
    sent,       \* batches stage A has cut
    decoded,    \* batches stage B has decoded
    taken,      \* batches stage C has taken
    nextLine,   \* nextLineNumber of stage C
    held,       \* the open last record of the batches taken so far
    coalesce    \* the sink prefers coalesced batches
staticVars == <<ingestVars, cuts, sent, decoded, taken, nextLine, held, coalesce>>

NoHeld == [row |-> [id |-> 0, text |-> <<>>], offsets |-> <<>>, head |-> 0, last |-> 0]

(* The header of a CSV file is its first line that is not blank.  *)
HeaderLine == SelectInSeq(file, LAMBDA k : k # "blank")
IsHeader(i) == format = "Csv" /\ i = HeaderLine
ParseHeaderLine == HeaderLine # 0 => file[HeaderLine] # "bad"

StaticInit ==
    /\ IngestInit
    /\ cuts \in {c \in SUBSET Lines : Len(file) \in c \/ file = <<>>}
    /\ sent = 0 /\ decoded = {} /\ taken = 0
    /\ nextLine = 1
    /\ held = NoHeld
    /\ coalesce \in BOOLEAN
    /\ keys = IF \/ format = "Csv" /\ HeaderLine # 0 /\ ParseHeaderLine
                 \/ format = "Regex" /\ usable
              THEN SchemaKeys ELSE <<>>
    /\ seen = KeyBaseline(keys)

Batches == Cardinality(cuts)
LastOf(b) == CHOOSE c \in cuts : Cardinality({d \in cuts : d <= c}) = b
FirstOf(b) == IF b = 1 THEN 1 ELSE LastOf(b - 1) + 1
BatchLines(b) == [r \in 1..(LastOf(b) - FirstOf(b) + 1) |-> FirstOf(b) + r - 1]

-----------------------------------------------------------------------------
(* Stage B *)

EmptyParsed ==
    [rows |-> <<>>, offsets |-> <<>>, lead |-> <<>>, leadCount |-> 0, blanks |-> 0,
     spans |-> {}, errors |-> {}, head |-> 0, last |-> 0, total |-> 0]

SpanOf(p) == IF p.last > p.head THEN {[head |-> p.head, last |-> p.last]} ELSE {}

(* Line numbers are relative to the batch, texts are positions in the      *)
(* file.  A blank line before the first record belongs to a held record    *)
(* only when a continuation follows.                                       *)
BlankLine(p) == IF p.rows = <<>> THEN [p EXCEPT !.blanks = @ + 1] ELSE p

Continuation(p, i) ==
    IF p.rows = <<>>
    THEN [p EXCEPT !.lead = Append(@, i), !.leadCount = @ + p.blanks + 1, !.blanks = 0]
    ELSE IF file[Head(Last(p.rows).text)] = "head"
    THEN [p EXCEPT !.rows[Len(p.rows)].text = Append(@, i), !.last = p.total]
    ELSE [p EXCEPT !.errors = @ \cup {i}]

Record(p, i) ==
    [p EXCEPT !.rows = Append(@, [id |-> p.total, text |-> <<i>>]),
              !.spans = IF p.rows # <<>> THEN @ \cup SpanOf(p) ELSE @,
              !.head = p.total, !.last = p.total, !.blanks = 0]

RecordOrError(p, i) == IF Emits(i) THEN Record(p, i) ELSE [p EXCEPT !.errors = @ \cup {i}]

DecodeJsonLine(p, i) == IF file[i] = "blank" THEN p ELSE RecordOrError(p, i)

DecodeCsvLine(p, i) == IF file[i] = "blank" \/ IsHeader(i) THEN p ELSE RecordOrError(p, i)

DecodeMultilineLine(p, i) ==
    CASE file[i] = "blank" -> BlankLine(p)
      [] Continues(i) -> Continuation(p, i)
      [] OTHER -> RecordOrError(p, i)

DecodeLine(acc, i) ==
    LET p == [acc EXCEPT !.total = @ + 1, !.offsets = Append(@, i)]
    IN CASE format = "Json" -> DecodeJsonLine(p, i)
         [] format = "Csv" -> DecodeCsvLine(p, i)
         [] OTHER -> DecodeMultilineLine(p, i)

DecodeBatch(b) == FoldLeft(DecodeLine, EmptyParsed, BatchLines(b))

-----------------------------------------------------------------------------
(* Stage C *)

(* SpliceCrossBatchContinuation: only a text field can be extended.  *)
SpliceCrossBatchContinuation(h, lead) ==
    IF file[Head(h.row.text)] = "head" THEN [ok |-> TRUE, row |-> [h.row EXCEPT !.text = @ \o lead]]
    ELSE [ok |-> FALSE, row |-> h.row]

SplicedTextOnly(h, p, delta) ==
    IF h = NoHeld \/ p.lead = <<>> THEN h
    ELSE [h EXCEPT !.row = SpliceCrossBatchContinuation(h, p.lead).row, !.last = delta + p.leadCount]

SplicedKeepsSpan(h, p, delta) ==
    IF h = NoHeld \/ p.lead = <<>> THEN h
    ELSE [h EXCEPT !.row = SpliceCrossBatchContinuation(h, p.lead).row,
                   !.offsets = @ \o SubSeq(p.offsets, 1, p.leadCount)]

(* The held record takes the leading continuations and their offsets.  *)
Spliced(h, p, delta) ==
    IF h = NoHeld \/ p.lead = <<>> THEN h
    ELSE [h EXCEPT !.row = SpliceCrossBatchContinuation(h, p.lead).row,
                   !.offsets = @ \o SubSeq(p.offsets, 1, p.leadCount),
                   !.last = delta + p.leadCount]

Lost(h, p) ==
    IF p.lead = <<>> THEN {}
    ELSE IF h # NoHeld /\ SpliceCrossBatchContinuation(h, p.lead).ok THEN {}
    ELSE Range(p.lead)

ShiftedFirst(rows, delta) == [i \in DOMAIN rows |-> IF i = 1 THEN [rows[i] EXCEPT !.id = @ + delta] ELSE rows[i]]

Shifted(rows, delta) == [i \in DOMAIN rows |-> [rows[i] EXCEPT !.id = @ + delta]]

HeldRowOnly(h) ==
    IF h = NoHeld THEN NoBatch
    ELSE [rows |-> <<h.row>>, offsets |-> <<>>, spans |-> SpanOf(h), errors |-> {}]

HeldBatch(h) ==
    IF h = NoHeld THEN NoBatch
    ELSE [rows |-> <<h.row>>, offsets |-> h.offsets, spans |-> SpanOf(h), errors |-> {}]

OpenTail(p) == Multiline /\ p.rows # <<>>

NoTail(p, rest, delta) == NoHeld

(* The last record of a batch is held back until the next batch shows      *)
(* whether it goes on.                                                     *)
NewHeld(p, rest, delta) ==
    IF ~OpenTail(p) THEN NoHeld
    ELSE [row |-> Last(Shifted(p.rows, delta)), offsets |-> <<Last(rest)>>,
          head |-> delta + p.head, last |-> delta + p.last]

(* The part of a batch that goes to the coalescer, the sealed record first. *)
Fresh(p, rest, delta) ==
    [rows |-> IF OpenTail(p) THEN Front(Shifted(p.rows, delta)) ELSE Shifted(p.rows, delta),
     offsets |-> IF OpenTail(p) THEN Front(rest) ELSE rest,
     spans |-> {[head |-> s.head + delta, last |-> s.last + delta] : s \in p.spans},
     errors |-> p.errors]

StageCOutput(p, delta) ==
    LET h == Spliced(held, p, delta)
        drop == IF held # NoHeld /\ p.lead # <<>> THEN p.leadCount ELSE 0
        rest == SubSeq(p.offsets, drop + 1, Len(p.offsets))
        fresh == Fresh(p, rest, delta)
        reported == [fresh EXCEPT !.errors = @ \cup Lost(held, p)]
    IN IF p.rows # <<>>
       THEN [batch |-> Joined(HeldBatch(h), reported), held |-> NewHeld(p, rest, delta)]
       ELSE [batch |-> reported, held |-> h]

-----------------------------------------------------------------------------
(* Actions *)

Running == usable /\ sink.ended = "no" /\ (format = "Csv" => ParseHeaderLine)

StageA ==
    /\ Running /\ ~stop
    /\ sent < Batches /\ sent - taken < MaxTokens
    /\ sent' = sent + 1
    /\ UNCHANGED <<ingestVars, cuts, decoded, taken, nextLine, held, coalesce>>

(* A decoder interns the keys of its batch as it meets them.  *)
StageBIntern(b, i) ==
    /\ Running
    /\ b \in 1..sent \ decoded
    /\ i \in Range(BatchLines(b)) /\ Emits(i) /\ ~IsHeader(i)
    /\ KeyOf(i) \notin Range(keys)
    /\ keys' = GetOrInsert(keys, KeyOf(i))
    /\ UNCHANGED <<file, format, usable, seen, pending, stop, sink,
                   cuts, sent, decoded, taken, nextLine, held, coalesce>>

StageB(b) ==
    /\ Running
    /\ b \in 1..sent \ decoded
    /\ \A i \in Range(BatchLines(b)) : Emits(i) /\ ~IsHeader(i) => KeyOf(i) \in Range(keys)
    /\ decoded' = decoded \cup {b}
    /\ UNCHANGED <<ingestVars, cuts, sent, taken, nextLine, held, coalesce>>

StageC ==
    /\ Running
    /\ taken + 1 \in decoded
    /\ taken' = taken + 1
    /\ LET p == DecodeBatch(taken + 1)
           out == StageCOutput(p, nextLine - 1)
       IN /\ held' = out.held
          /\ nextLine' = nextLine + p.total
          /\ IF coalesce THEN TryFlush(Joined(pending, out.batch), keys)
             ELSE /\ sink' = OnBatch(sink, out.batch, DrainNewKeysInto(keys, seen))
                  /\ seen' = Len(keys)
                  /\ UNCHANGED pending
    /\ UNCHANGED <<file, format, usable, keys, stop, cuts, sent, decoded, coalesce>>

Drained == taken = sent /\ (stop \/ sent = Batches)

(* The pipeline has drained: the held record is sealed by the end.  *)
FinishStatic ==
    /\ Running /\ Drained
    /\ FinishParse(Joined(pending, HeldBatch(held)), keys, stop)
    /\ held' = NoHeld
    /\ UNCHANGED <<file, format, usable, keys, stop, cuts, sent, decoded, taken, nextLine, coalesce>>

(* A header that does not parse, or a pattern that does not compile, is    *)
(* the one error of the parse.                                             *)
EmitErrorAndFinish ==
    /\ sink.ended = "no"
    /\ ~usable \/ (format = "Csv" /\ ~ParseHeaderLine)
    /\ FinishParse([NoBatch EXCEPT !.errors = Lines], keys, FALSE)
    /\ UNCHANGED <<file, format, usable, keys, stop, cuts, sent, decoded, taken, nextLine, held, coalesce>>

StaticStep ==
    \/ StageA \/ StageC \/ FinishStatic \/ EmitErrorAndFinish
    \/ \E b \in 1..Batches : StageB(b) \/ \E i \in Lines : StageBIntern(b, i)

StaticNext ==
    \/ StaticStep
    \/ RequestStop /\ UNCHANGED <<cuts, sent, decoded, taken, nextLine, held, coalesce>>

-----------------------------------------------------------------------------
(* Properties *)

(* When a span is registered the offset behind its last line is known      *)
(* (the assertions of LogFile::RegisterMultiLineRecord).                   *)
SpansResolve == \A s \in sink.spans : s.head < s.last /\ s.last <= Len(sink.offsets)

(* A batch without a record ends with the continuation of an earlier one,  *)
(* and no line that does not parse stands before a batch's continuations.  *)
Tidy ==
    \A b \in 2..Batches :
        LET p == DecodeBatch(b) IN
        (p.rows = <<>> => p.leadCount = p.total) /\ (p.lead # <<>> => p.errors = {})

(* The offsets arrive in the order of the file, one per line, so that      *)
(* LogFile::GetLine finds the text of a row; stated for the cuts that are  *)
(* Tidy, see OffsetsInOrder.                                               *)
OffsetsAligned == Tidy => \A i \in DOMAIN sink.offsets : sink.offsets[i] = i

(* LogFile::GetLine.  *)
GetLine(id) ==
    LET span == {s \in sink.spans : s.head = id}
        stopAt == IF span = {} THEN id ELSE (CHOOSE s \in span : TRUE).last
        from == IF id = 1 THEN 0 ELSE sink.offsets[id - 1]
    IN (from + 1)..sink.offsets[stopAt]

(* The text that is read back for a row contains the lines of the row and  *)
(* of no other.                                                            *)
RawTextIsRecord ==
    cuts # {} /\ Tidy /\ sink.ended # "no" =>
        \A i \in DOMAIN sink.rows :
            /\ Range(sink.rows[i].text) \subseteq GetLine(sink.rows[i].id)
            /\ \A j \in DOMAIN sink.rows \ {i} : Range(sink.rows[j].text) \cap GetLine(sink.rows[i].id) = {}

(* What the code says of the offsets: one per physical line and in source  *)
(* order.                                                                  *)
OffsetsInOrder == \A i \in DOMAIN sink.offsets : sink.offsets[i] = i
=============================================================================
