----------------------------- MODULE MCPipeline -----------------------------
(* Every input of a few lines, either as a file cut into batches in every  *)
(* way or as a stream whose lines arrive at any time.                      *)
EXTENDS StaticPipeline, StreamingLoop

CONSTANTS Length, Kinds, Scenarios
VARIABLE scenario

vars == <<scenario, staticVars, streamVars>>
MCInputs == {<<>>} \cup [1..(Length - 1) -> Kinds] \cup [1..Length -> Kinds \ {"num"}]

staticOnly == <<cuts, sent, decoded, taken, nextLine, held, coalesce>>
streamOnly == <<arrived, inputClosed, carried, scanned, torn, rec, orphans, header, aged, pc>>

Init ==
    \/ /\ scenario = "static" /\ scenario \in Scenarios
       /\ StaticInit
       /\ arrived = 0 /\ inputClosed = FALSE /\ carried = 0 /\ scanned = 0 /\ torn = FALSE
       /\ rec = NoRec /\ orphans = {} /\ header = 0 /\ aged = FALSE /\ pc = "read"
    \/ /\ scenario = "stream" /\ scenario \in Scenarios
       /\ StreamInit
       /\ cuts = {} /\ sent = 0 /\ decoded = {} /\ taken = 0 /\ nextLine = 1
       /\ held = NoHeld /\ coalesce = TRUE

Next ==
    \/ scenario = "static" /\ StaticNext /\ UNCHANGED <<scenario, streamOnly>>
    \/ scenario = "stream" /\ StreamNext /\ UNCHANGED <<scenario, staticOnly>>
    \/ sink.ended # "no" /\ UNCHANGED vars     \* any other state without a step is a deadlock

Spec == Init /\ [][Next]_vars

(* A parse that ran to its end gave the sink exactly the records of its    *)
(* input, whichever way it was cut or arrived; a record that aged out may  *)
(* have lost its last lines to errors.                                     *)
RowsAreRecords ==
    sink.ended = "finished" /\ usable /\ ~aged =>
        \/ sink.rows = Records(1 + (IF format # "Csv" THEN 0 ELSE IF scenario = "static" THEN HeaderLine ELSE header))
        \/ format = "Csv" /\ sink.errors = Lines

(* Whatever the batches and their delays, the rows are the records, and    *)
(* what a row refers to is there: its keys, its line, the offsets and the  *)
(* span from which LogFile::GetLine reads its text back.                   *)
RowsResolve ==
    /\ RowsAreRecords /\ KeysAnnounced /\ RowsKnowTheirLine
    /\ SpansResolve /\ OffsetsAligned /\ RawTextIsRecord

(* Both parses implement OrderedIngest, for every cut of a file and every  *)
(* order of the decoders, for every arrival of a stream: a continuation    *)
(* that comes after its record aged out is reported and not lost, and what *)
(* the format detection read ahead is parsed first.                        *)
Ingestion == INSTANCE OrderedIngest WITH
    content <- Content \ (IF scenario = "stream" THEN {header} ELSE IF format = "Csv" THEN {HeaderLine} ELSE {}),
    shown <- Texts, reported <- sink.errors, ended <- sink.ended
ImplementsOrderedIngest == Ingestion!Spec
=============================================================================
