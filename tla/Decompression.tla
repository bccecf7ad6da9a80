---------------------------- MODULE Decompression ----------------------------
(***************************************************************************)
(* DecompressingByteSource: a compressed log is decoded into a temporary   *)
(* file before it is parsed.  The four decoders read the archive in        *)
(* chunks, call the codec with one output buffer at a time and poll the    *)
(* stop token before every call.                                           *)
(*                                                                         *)
(* An archive is a sequence of input units.  A unit expands to `out`       *)
(* output units, the trailer (`last`) ends a member or frame, a damaged    *)
(* unit is refused by the codec.  Output units are numbered through the    *)
(* whole archive; number `nl` is the first line feed (0: there is none).   *)
(***************************************************************************)
EXTENDS Naturals, SequencesExt

CONSTANTS
    Archives,   \* records [codec, units, nl]
    Chunk,      \* CHUNK_SIZE of the input buffer
    OutBuf,     \* CHUNK_SIZE of the output buffer
    Cap,        \* maxDecompressedBytes
    MaxHeader   \* maxDiscardedFirstLineBytes

ASSUME DecompressionAssumption == {Chunk, OutBuf, Cap, MaxHeader} \subseteq Nat \ {0}

VARIABLES
    job,     \* the archive and whether its first line is discarded
    pc,      \* "idle", "read", "decode", "check", "flush", "held", "failed"
    dec,     \* input position, end of the chunk, output the codec holds back, its last answer
    temp,    \* content of the temporary file; {} when there is none
    header,  \* mDiscardedFirstLine and firstLineComplete
    stop,    \* StopToken
    cause,   \* why the constructor threw
    owners   \* the objects whose destructor removes the file

decVars == <<job, pc, dec, temp, header, stop, cause, owners>>

Fresh(codec) == [at |-> 1, end |-> 0, eof |-> FALSE, pend |-> <<>>,
                 ret |-> IF codec = "zstd" THEN "member" ELSE "ok"]
NoJob == [codec |-> "none", units |-> <<>>, nl |-> 0, discard |-> FALSE]

DecInit ==
    /\ job = NoJob /\ pc = "idle" /\ dec = Fresh("none") /\ temp = {} /\ stop = FALSE
    /\ header = [line |-> <<>>, complete |-> TRUE] /\ cause = "none" /\ owners = {}

Produced(units, n) == FoldLeft(LAMBDA acc, u : acc + u.out, 0, SubSeq(units, 1, n))
Outputs(units, i) == [k \in 1..units[i].out |-> Produced(units, i - 1) + k]

-----------------------------------------------------------------------------
(* The codec libraries: input is consumed while the output buffer has room; *)
(* a trailer is consumed once all the output before it fits the buffer, and *)
(* if it fits exactly the library may ask for another call first (zstd      *)
(* keeps the last byte of a frame hostage).                                 *)
RECURSIVE Feed(_, _, _, _, _)
Feed(units, at, end, acc, eager) ==
    LET stay == [at |-> at, acc |-> acc, ret |-> "ok"]
    IN IF at > end THEN stay
       ELSE CASE units[at].bad -> IF Len(acc) < OutBuf THEN [stay EXCEPT !.ret = "error"] ELSE stay
              [] units[at].last -> IF Len(acc) < OutBuf \/ (Len(acc) = OutBuf /\ eager)
                                   THEN [at |-> at + 1, acc |-> acc, ret |-> "member"] ELSE stay
              [] OTHER -> IF Len(acc) < OutBuf THEN Feed(units, at + 1, end, acc \o Outputs(units, at), eager) ELSE stay

Call(units, d, eager) ==
    LET fed == Feed(units, d.at, d.end, d.pend, eager)
        n   == IF Len(fed.acc) < OutBuf THEN Len(fed.acc) ELSE OutBuf
    IN [at |-> fed.at, ret |-> fed.ret, emitted |-> SubSeq(fed.acc, 1, n), pend |-> SubSeq(fed.acc, n + 1, Len(fed.acc))]

-----------------------------------------------------------------------------
(* catch (...): ReleaseTempFile, then the exception goes on. *)
Throw(why) == pc' = "failed" /\ cause' = why /\ owners' = {} /\ temp' = {}

(* The constructor up to the choice of a decoder.  An empty or uncompressed *)
(* file is used where it is.                                                *)
Open(a, discard) ==
    /\ job' = [codec |-> a.codec, units |-> a.units, nl |-> a.nl, discard |-> discard]
    /\ dec' = Fresh(a.codec)
    /\ header' = [line |-> <<>>, complete |-> ~discard]
    /\ \/ /\ discard /\ (a.units = <<>> \/ a.codec # "zstd")
          /\ Throw("invalid")
       \/ /\ ~discard /\ (a.units = <<>> \/ a.codec = "none")
          /\ pc' = "held" /\ owners' = {"self"} /\ UNCHANGED <<temp, cause>>
       \/ /\ a.units # <<>> /\ a.codec # "none" /\ (discard => a.codec = "zstd")
          /\ \/ pc' = "read" /\ temp' = {<<>>} /\ owners' = {"self"} /\ UNCHANGED cause
             \/ Throw("disk")                    \* no exclusive file after MAX_ATTEMPTS
    /\ UNCHANGED stop

EofOnFullChunk(d) ==
    LET left == Len(job.units) - d.end
        got  == IF left < Chunk THEN left ELSE Chunk
    IN [d EXCEPT !.end = d.end + got, !.eof = TRUE]
(* in.read fills the input buffer or meets the end of the file. *)
NextChunk(d) ==
    LET left == Len(job.units) - d.end
        got  == IF left < Chunk THEN left ELSE Chunk
    IN [d EXCEPT !.end = d.end + got, !.eof = got < Chunk]

Read ==
    /\ pc = "read"
    /\ dec' = NextChunk(dec)
    /\ IF stop /\ job.codec # "zstd" THEN Throw("cancelled")
       ELSE /\ pc' = IF dec'.end = dec.end /\ job.codec # "xz" THEN "check" ELSE "decode"
            /\ UNCHANGED <<temp, cause, owners>>
    /\ UNCHANGED <<job, header, stop>>

StripHeader(h, bytes) ==
    LET nl == SelectInSeq(bytes, LAMBDA b : b = job.nl)
    IN IF h.complete THEN [h |-> h, rest |-> bytes]
       ELSE IF nl = 0 THEN [h |-> [h EXCEPT !.line = @ \o bytes], rest |-> <<>>]
       ELSE [h |-> [line |-> h.line \o SubSeq(bytes, 1, nl - 1), complete |-> TRUE],
             rest |-> SubSeq(bytes, nl + 1, Len(bytes))]

(* WriteOutput: the bytes are written, then the cap is checked. *)
Decoded(emitted, next) ==
    LET s    == StripHeader(header, emitted)
        file == (CHOOSE t \in temp : TRUE) \o s.rest
    IN \/ /\ Len(s.h.line) > MaxHeader
          /\ Throw("header") /\ UNCHANGED header
       \/ /\ Len(s.h.line) <= MaxHeader /\ header' = s.h
          /\ \/ Len(file) > Cap /\ Throw("cap")
             \/ s.rest # <<>> /\ Throw("disk")                          \* short write
             \/ Len(file) <= Cap /\ temp' = {file} /\ pc' = next /\ UNCHANGED <<cause, owners>>

Leave(d) == IF d.eof THEN "check" ELSE "read"

(* One turn of the inner loop of DecodeGzip and DecodeBzip2: a finished      *)
(* member with input left starts the next one.                              *)
TurnGzip(eager) ==
    LET c == Call(job.units, dec, eager)
        d == [dec EXCEPT !.at = c.at, !.pend = c.pend, !.ret = c.ret]
    IN IF dec.ret = "member" /\ dec.at > dec.end
       THEN pc' = Leave(dec) /\ UNCHANGED <<dec, temp, header, cause, owners>>
       ELSE IF stop THEN Throw("cancelled") /\ UNCHANGED <<dec, header>>
       ELSE /\ dec' = d
            /\ IF c.ret = "error" THEN Throw("data") /\ UNCHANGED header
               ELSE Decoded(c.emitted, IF Len(c.emitted) < OutBuf /\ d.at > d.end THEN Leave(d) ELSE "decode")

(* DecodeBzip2 has the same loop around BZ2_bzDecompress.                  *)
TurnBzip2(eager) == TurnGzip(eager)

(* One turn of DecodeZstd, which calls the codec while the chunk has input. *)
TurnZstd(eager) ==
    LET c == Call(job.units, dec, eager)
        d == [dec EXCEPT !.at = c.at, !.pend = c.pend, !.ret = c.ret]
    IN IF dec.at > dec.end
       THEN pc' = Leave(dec) /\ UNCHANGED <<dec, temp, header, cause, owners>>
       ELSE IF stop THEN Throw("cancelled") /\ UNCHANGED <<dec, header>>
       ELSE /\ dec' = d
            /\ IF c.ret = "error" THEN Throw("data") /\ UNCHANGED header ELSE Decoded(c.emitted, "decode")

(* One turn of DecodeXz.  liblzma joins the streams; after LZMA_FINISH it    *)
(* ends behind a trailer and gives LZMA_BUF_ERROR anywhere else.            *)
TurnXz(eager) ==
    LET c     == Call(job.units, dec, eager)
        ret   == IF c.ret = "ok" /\ c.at = dec.at /\ c.emitted = <<>> /\ dec.ret = "member" THEN "member" ELSE c.ret
        done  == dec.eof /\ c.at > dec.end /\ c.pend = <<>> /\ ret = "member"
        stuck == dec.eof /\ c.at > dec.end /\ c.emitted = <<>> /\ ret # "member"
    IN IF dec.at > dec.end /\ ~dec.eof
       THEN pc' = "read" /\ UNCHANGED <<dec, temp, header, cause, owners>>
       ELSE IF stop THEN Throw("cancelled") /\ UNCHANGED <<dec, header>>
       ELSE /\ dec' = [dec EXCEPT !.at = c.at, !.pend = c.pend, !.ret = ret]
            /\ IF c.ret = "error" THEN Throw("data") /\ UNCHANGED header
               ELSE IF stuck THEN Throw("truncated") /\ UNCHANGED header
               ELSE Decoded(c.emitted, IF done THEN "flush" ELSE "decode")

Decode ==
    /\ pc = "decode"
    /\ \E eager \in BOOLEAN :
         CASE job.codec = "xz" -> TurnXz(eager) [] job.codec = "zstd" -> TurnZstd(eager)
           [] job.codec = "bzip2" -> TurnBzip2(eager) [] OTHER -> TurnGzip(eager)
    /\ UNCHANGED <<job, stop>>

EndUnchecked == pc = "check" /\ pc' = "flush" /\ UNCHANGED <<temp, cause, owners, job, dec, header, stop>>
(* The archive has been read: it must end behind a trailer and, where the   *)
(* first line is metadata, have had one.                                    *)
CheckEnd ==
    /\ pc = "check"
    /\ IF dec.ret # "member" THEN Throw("truncated")
       ELSE IF ~header.complete THEN Throw("header")
       ELSE pc' = "flush" /\ UNCHANGED <<temp, cause, owners>>
    /\ UNCHANGED <<job, dec, header, stop>>

Flush ==
    /\ pc = "flush"
    /\ (pc' = "held" /\ UNCHANGED <<temp, cause, owners>>) \/ Throw("disk")
    /\ UNCHANGED <<job, dec, header, stop>>

RequestStop == pc \notin {"idle", "held", "failed"} /\ stop' = TRUE /\ UNCHANGED <<job, pc, dec, temp, header, cause, owners>>

MoveKeepsOwner == pc = "held" /\ owners = {"self"} /\ owners' = {"self", "moved"} /\ UNCHANGED <<job, pc, dec, temp, header, stop, cause>>
(* The move constructor and assignment take the file over. *)
Move == pc = "held" /\ owners = {"self"} /\ owners' = {"moved"} /\ UNCHANGED <<job, pc, dec, temp, header, stop, cause>>

(* The destructor of an object that owns the file removes it. *)
Destroy(o) ==
    /\ pc = "held" /\ owners' = owners \ {o}
    /\ temp' = IF o \in owners THEN {} ELSE temp
    /\ UNCHANGED <<job, pc, dec, header, stop, cause>>

DecNext ==
    \/ pc = "idle" /\ \E a \in Archives, discard \in BOOLEAN : Open(a, discard)
    \/ Read \/ Decode \/ CheckEnd \/ Flush \/ RequestStop \/ Move
    \/ \E o \in {"self", "moved"} : Destroy(o)

DecSpec == DecInit /\ [][DecNext]_decVars

-----------------------------------------------------------------------------
Total == Produced(job.units, Len(job.units))
Whole == job.units # <<>> /\ Last(job.units).last /\ \A i \in DOMAIN job.units : ~job.units[i].bad

(* An archive is handed to the parser only if it is whole, and then as      *)
(* exactly what it expands to, less the metadata line: no output is lost    *)
(* where a buffer runs full, where a chunk ends or where a member follows   *)
(* another.                                                                 *)
DecodedExactly ==
    (pc = "held" /\ temp # {}) =>
        /\ Whole
        /\ temp = {[k \in 1..(Total - (IF job.discard THEN job.nl ELSE 0)) |-> k + (IF job.discard THEN job.nl ELSE 0)]}
        /\ job.discard => header.line = [k \in 1..(job.nl - 1) |-> k]

(* A whole archive is refused only for a reason of its own: the user        *)
(* cancelled, the disk or the cap was reached, or the metadata line is bad. *)
RefusedForCause ==
    pc = "failed" =>
        CASE cause = "truncated" -> ~Whole
          [] cause = "data" -> \E i \in DOMAIN job.units : job.units[i].bad
          [] cause = "cancelled" -> stop
          [] cause = "cap" -> Total > Cap
          [] cause = "header" -> job.discard /\ (job.nl = 0 \/ job.nl > MaxHeader \/ job.nl > Total)
          [] OTHER -> TRUE

(* The temporary file exists exactly as long as one object is there to      *)
(* remove it: no exception, cancellation or move leaves one behind.         *)
TempFileOwned ==
    /\ temp # {} => owners # {} /\ pc \notin {"idle", "failed"}
    /\ Cardinality(owners) <= 1
    /\ owners # {} /\ job.units # <<>> /\ job.codec # "none" => temp # {}

(* A compressed file is opened whole or refused with cause, and either way *)
(* its temporary file has exactly one owner.                               *)
WholeOrRefused == DecodedExactly /\ RefusedForCause /\ TempFileOwned
=============================================================================
