------------------------------- MODULE Ingest -------------------------------
(***************************************************************************)
(* What the static pipeline and the streaming loop share: the lines of an  *)
(* input as the parsers classify them, the key index, the coalescer and    *)
(* the sink.  A line is its kind: "head" starts a record whose last field  *)
(* is text, "num" one whose last field is not, "cont" is indented, "bad"   *)
(* matches nothing.                                                        *)
(***************************************************************************)
EXTENDS Naturals, Sequences, FiniteSets, SequencesExt

CONSTANTS Inputs,       \* sequences of kinds
          Formats,      \* a subset of {"Json", "Logfmt", "Csv", "Regex"}
          FlushLines    \* rows that make the coalescer flush

ASSUME IngestAssumption ==
    /\ Inputs \subseteq Seq({"head", "num", "cont", "blank", "bad"})
    /\ Formats \subseteq {"Json", "Logfmt", "Csv", "Regex"}
    /\ FlushLines \in Nat \ {0}

VARIABLES
    file, format,
    usable,     \* a regex pattern compiles and has named groups
    keys,       \* KeyIndex: the keys in the order of their interning
    seen,       \* BatchCoalescer::mPrevKeyCount
    pending,    \* BatchCoalescer::mPending
    stop,       \* the stop token
    sink        \* everything the sink was given
ingestVars == <<file, format, usable, keys, seen, pending, stop, sink>>

Lines == 1..Len(file)
Content == {i \in Lines : file[i] # "blank"}

-----------------------------------------------------------------------------
(* Parsers *)

Multiline == format \in {"Logfmt", "Regex"}
FieldsOf == [head |-> TRUE, num |-> TRUE, cont |-> FALSE, blank |-> FALSE, bad |-> FALSE]

(* ParseJsonLine, ParseLogfmtLine, ParseCsvLine and MatchLineAndEmit: a    *)
(* line is a record or an error.                                           *)
ParseJsonLine(i) == FieldsOf[file[i]]
ParseLogfmtLine(i) == FieldsOf[file[i]]
ParseCsvLine(i) == FieldsOf[file[i]]
MatchLineAndEmit(i) == FieldsOf[file[i]]

Emits(i) ==
    CASE format = "Json" -> ParseJsonLine(i)
      [] format = "Logfmt" -> ParseLogfmtLine(i)
      [] format = "Csv" -> ParseCsvLine(i)
      [] format = "Regex" -> MatchLineAndEmit(i)

Continues(i) == Multiline /\ file[i] = "cont"

(* Keys: JSON and logfmt intern what a record names, CSV its header's      *)
(* columns, a regex its named groups before any line is read.              *)
SchemaKeys == <<"c0", "c1">>
KeyOf(i) ==
    IF format \in {"Csv", "Regex"} THEN SchemaKeys[1 + (i % 2)]
    ELSE IF i % 2 = 0 THEN "k0" ELSE "k1"

GetOrInsert(index, k) == IF k \in Range(index) THEN index ELSE Append(index, k)

-----------------------------------------------------------------------------
(* The coalescer and the sink *)

NoBatch == [rows |-> <<>>, offsets |-> <<>>, spans |-> {}, errors |-> {}]
EmptySink == [rows |-> <<>>, offsets |-> <<>>, spans |-> {}, errors |-> {},
              announced |-> <<>>, ended |-> "no"]

BaselineAfterIntern(interned) == Len(interned)

(* The coalescer diffs keys against the count before the schema's keys.  *)
KeyBaseline(interned) == 0

IngestInit ==
    /\ file \in Inputs
    /\ format \in Formats
    /\ usable \in BOOLEAN /\ (format # "Regex" => usable)
    /\ pending = NoBatch
    /\ stop = FALSE
    /\ sink = EmptySink

DrainNewKeysInto(index, count) == SubSeq(index, count + 1, Len(index))

(* OnBatch: rows, then offsets, then the spans that refer to them.  *)
OnBatch(s, batch, newKeys) ==
    [s EXCEPT !.rows = @ \o batch.rows, !.offsets = @ \o batch.offsets,
              !.spans = @ \cup batch.spans, !.errors = @ \cup batch.errors,
              !.announced = @ \o newKeys]

Joined(a, b) ==
    [rows |-> a.rows \o b.rows, offsets |-> a.offsets \o b.offsets,
     spans |-> a.spans \cup b.spans, errors |-> a.errors \cup b.errors]

HasContent(batch, index) == batch.rows # <<>> \/ batch.errors # {} \/ Len(index) > seen

(* TryFlush(false): the interval may have passed at any time.  *)
TryFlush(batch, index) ==
    \/ /\ Len(batch.rows) < FlushLines \/ ~HasContent(batch, index)
       /\ pending' = batch
       /\ UNCHANGED <<seen, sink>>
    \/ /\ HasContent(batch, index)
       /\ sink' = OnBatch(sink, batch, DrainNewKeysInto(index, seen))
       /\ seen' = Len(index)
       /\ pending' = NoBatch

(* Finish always gives the sink a last batch, then OnFinished.  *)
FinishParse(batch, index, cancelled) ==
    /\ sink' = [OnBatch(sink, batch, DrainNewKeysInto(index, seen)) EXCEPT
                   !.ended = IF cancelled THEN "cancelled" ELSE "finished"]
    /\ seen' = Len(index)
    /\ pending' = NoBatch

RequestStop ==
    /\ ~stop /\ sink.ended = "no"
    /\ stop' = TRUE
    /\ UNCHANGED <<file, format, usable, keys, seen, pending, sink>>

-----------------------------------------------------------------------------
(* Properties *)

Texts == FlattenSeq([i \in DOMAIN sink.rows |-> sink.rows[i].text])

(* Every key a row carries was announced with or before the row's batch,   *)
(* so LogTable has a column for it, although parallel decoders intern keys *)
(* long before the batch they belong to is delivered.                      *)
KeysAnnounced == \A i \in DOMAIN sink.rows : KeyOf(sink.rows[i].id) \in Range(sink.announced)

(* The records of an input by definition: a record line with, where the     *)
(* format has them, the continuation lines up to the next record.          *)
RecordAt(i, first) ==
    LET joins(j) == j > i /\ Continues(j) /\ \A k \in (i + 1)..j : ~Emits(k) \/ k < first
    IN [id |-> i,
        text |-> <<i>> \o (IF file[i] = "head" THEN SetToSortSeq({j \in Lines : joins(j)}, LAMBDA a, b : a < b)
                           ELSE <<>>)]
Records(first) ==
    LET ids == SetToSortSeq({i \in Lines : i >= first /\ Emits(i)}, LAMBDA a, b : a < b)
    IN [n \in DOMAIN ids |-> RecordAt(ids[n], first)]

(* A row is identified by the line its text begins with: the shift of      *)
(* relative line numbers (ShiftLineId) agrees with the batches before.     *)
RowsKnowTheirLine == \A i \in DOMAIN sink.rows : sink.rows[i].id = Head(sink.rows[i].text)
=============================================================================
