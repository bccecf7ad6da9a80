---------------------------- MODULE SessionBundle ----------------------------
(***************************************************************************)
(* Export of a session as one file and its reopening.  WriteSessionBundle  *)
(* stages the bundle next to its destination, syncs it and renames it over *)
(* the destination; several sessions may export to the same place, the     *)
(* user may cancel, a write may fail and the machine may lose power.       *)
(*                                                                         *)
(* A file is a sequence of items <<w, i>>: item 0 of export w is the       *)
(* metadata line, items 1..n its rows and item n + 1 the end of the zstd   *)
(* frame.  `synced` items of it have reached the disk.                     *)
(***************************************************************************)
EXTENDS Naturals, SequencesExt

CONSTANTS
    Writers,     \* sessions that export
    Tables,      \* their rows (records [src, line]) and anchors (the same records)
    Names,       \* staging names MakeStagingTempPath may draw
    MaxAttempts, \* MAX_ATTEMPTS
    Interval,    \* PROGRESS_INTERVAL_ROWS
    MaxRows,     \* SESSION_BUNDLE_MAX_ROWS
    MaxExports,  \* bound: exports
    MaxLosses    \* bound: power losses and kills

ASSUME BundleAssumption ==
    /\ Writers \subseteq DOMAIN Tables /\ "dest" \notin Names
    /\ "old" \in DOMAIN Tables /\ \A w \in DOMAIN Tables : Tables[w].rows \in Seq(Range(Tables[w].rows))
    /\ {MaxAttempts, Interval, MaxRows} \subseteq Nat \ {0} /\ {MaxExports, MaxLosses} \subseteq Nat

VARIABLES
    onDisk,   \* content of the destination and of the staging files; {} if absent
    past,    \* contents of the destination a power loss may bring back
    writer,  \* the export of a session
    view,    \* the session that opened the destination
    exports, losses

bundleVars == <<onDisk, past, writer, view, exports, losses>>

Paths == {"dest"} \cup Names
IdleWriter == [pc |-> "idle", name |-> "dest", next |-> 0, tries |-> 0, stop |-> FALSE]
Rows(w) == Tables[w].rows
Bundle(w) == [k \in 1..(Len(Rows(w)) + 2) |-> <<w, k - 1>>]
NoView == [by |-> "none", anchors |-> {}]

BundleInit ==
    /\ onDisk \in {[p \in Paths |-> IF p = "dest" THEN d ELSE {}] : d \in {{}, {[data |-> Bundle("old"), synced |-> Len(Bundle("old"))]}}}
    /\ past = {onDisk["dest"]}
    /\ writer = [w \in Writers |-> IdleWriter] /\ view = NoView /\ exports = 0 /\ losses = 0

-----------------------------------------------------------------------------
(* PopulateAnchorMatches and RemapAnchors: an anchor moves to the dense row *)
(* number of the one row with its locator and line; without a row, with two *)
(* or with no locator it is dropped.                                        *)
Matches(w, a) == {i \in DOMAIN Rows(w) : a.src # "" /\ Rows(w)[i] = a}
FirstMatch(w) == {(CHOOSE i \in Matches(w, a) : TRUE) - 1 : a \in {b \in Tables[w].anchors : Matches(w, b) # {}}}
RemapAnchors(w) == {(CHOOSE i \in Matches(w, a) : TRUE) - 1 : a \in {b \in Tables[w].anchors : Cardinality(Matches(w, b)) = 1}}

Sync(f) == [f EXCEPT !.synced = Len(f.data)]
Only(s) == CHOOSE x \in s : TRUE
StagedBy(w) == Only(onDisk[writer[w].name])

(* catch (...): the staging file is removed. *)
Fail(w) ==
    /\ onDisk' = [onDisk EXCEPT ![writer[w].name] = IF writer[w].name = "dest" THEN @ ELSE {}]
    /\ writer' = [writer EXCEPT ![w] = IdleWriter]
    /\ UNCHANGED past

BeginAsyncBundleExport(w) ==
    /\ writer[w].pc = "idle" /\ exports < MaxExports /\ Rows(w) # <<>>
    /\ exports' = exports + 1
    /\ writer' = [writer EXCEPT ![w].pc = IF Len(Rows(w)) > MaxRows THEN "idle" ELSE "stage"]
    /\ UNCHANGED <<onDisk, past, view, losses>>

OpenShared(w, name) ==
    /\ writer[w].pc = "stage"
    /\ onDisk' = [onDisk EXCEPT ![name] = {[data |-> <<>>, synced |-> 0]}]
    /\ writer' = [writer EXCEPT ![w].pc = "write", ![w].name = name]
    /\ UNCHANGED <<past, view, exports, losses>>
(* OpenStagingFileWithRetry: O_EXCL refuses a name that is taken. *)
OpenStagingFileWithRetry(w, name) ==
    /\ writer[w].pc = "stage"
    /\ \/ /\ onDisk[name] = {}
          /\ onDisk' = [onDisk EXCEPT ![name] = {[data |-> <<>>, synced |-> 0]}]
          /\ writer' = [writer EXCEPT ![w].pc = "write", ![w].name = name]
          /\ UNCHANGED past
       \/ /\ onDisk[name] # {} /\ writer[w].tries + 1 < MaxAttempts
          /\ writer' = [writer EXCEPT ![w].tries = @ + 1]
          /\ UNCHANGED <<onDisk, past>>
       \/ /\ onDisk[name] # {} /\ writer[w].tries + 1 = MaxAttempts
          /\ Fail(w)
    /\ UNCHANGED <<view, exports, losses>>

(* The metadata line, then the rows; the token is polled every Interval     *)
(* rows and before the frame is finished.                                   *)
Polls(w) == LET next == writer[w].next IN next > 0 /\ ((next - 1) % Interval = 0 \/ next > Len(Rows(w)))
WriteItem(w) ==
    /\ writer[w].pc = "write"
    /\ \/ Fail(w)                                             \* short write, or cancelled
       \/ /\ ~(Polls(w) /\ writer[w].stop)
          /\ onDisk' = [onDisk EXCEPT ![writer[w].name] = {[StagedBy(w) EXCEPT !.data = Append(@, <<w, writer[w].next>>)]}]
          /\ writer' = [writer EXCEPT ![w].next = @ + 1, ![w].pc = IF writer[w].next > Len(Rows(w)) THEN "close" ELSE "write"]
          /\ UNCHANGED past
    /\ UNCHANGED <<view, exports, losses>>

CloseUnsynced(w) ==
    /\ writer[w].pc = "close" /\ writer' = [writer EXCEPT ![w].pc = "replace"]
    /\ UNCHANGED <<onDisk, past, view, exports, losses>>
(* FileHandle::Close: fflush and fsync, before the rename. *)
Close(w) ==
    /\ writer[w].pc = "close"
    /\ \/ Fail(w)
       \/ /\ onDisk' = [onDisk EXCEPT ![writer[w].name] = {Sync(StagedBy(w))}]
          /\ writer' = [writer EXCEPT ![w].pc = "replace"] /\ UNCHANGED past
    /\ UNCHANGED <<view, exports, losses>>

(* The directory is not synced: until it is written back a power loss may   *)
(* bring an older destination back.                                         *)
ReplaceAtomically(w) ==
    /\ writer[w].pc = "replace"
    /\ \/ Fail(w)
       \/ /\ onDisk' = [onDisk EXCEPT !["dest"] = onDisk[writer[w].name], ![writer[w].name] = {}]
          /\ past' = past \cup {onDisk[writer[w].name]}
          /\ writer' = [writer EXCEPT ![w] = IdleWriter]
    /\ UNCHANGED <<view, exports, losses>>

CancelExport(w) ==
    /\ writer[w].pc # "idle" /\ ~writer[w].stop /\ writer' = [writer EXCEPT ![w].stop = TRUE]
    /\ UNCHANGED <<onDisk, past, view, exports, losses>>

Writeback == past' = {onDisk["dest"]} /\ past # past' /\ UNCHANGED <<onDisk, writer, view, exports, losses>>

(* A killed process leaves its staging file; a power loss also cuts what    *)
(* was not synced.                                                          *)
Kill ==
    /\ losses < MaxLosses /\ losses' = losses + 1
    /\ writer' = [w \in Writers |-> IdleWriter] /\ view' = NoView
    /\ UNCHANGED <<onDisk, past, exports>>

(* Staging files that were left are never read, so their cut is not shown.  *)
Survives(d) == IF d = {} THEN {{}}
               ELSE LET f == Only(d) IN {{[data |-> SubSeq(f.data, 1, n), synced |-> n]} : n \in f.synced..Len(f.data)}
PowerLoss ==
    /\ losses < MaxLosses /\ losses' = losses + 1
    /\ \E d \in past : \E c \in Survives(d) : onDisk' = [onDisk EXCEPT !["dest"] = c]
    /\ past' = {onDisk'["dest"]}
    /\ writer' = [w \in Writers |-> IdleWriter] /\ view' = NoView
    /\ UNCHANGED exports

(* The destination is opened: the decoder refuses a frame without its end,  *)
(* and the configuration of the metadata line is applied to an empty        *)
(* session that was armed for this bundle.                                  *)
OpenBundle(armed) ==
    /\ onDisk["dest"] # {} /\ view = NoView
    /\ LET f == Only(onDisk["dest"])
           w == f.data[1][1]
       IN /\ f.data # <<>> /\ f.data = Bundle(w)
          /\ view' = [by |-> w, anchors |-> IF armed THEN RemapAnchors(w) ELSE {}]
    /\ UNCHANGED <<onDisk, past, writer, exports, losses>>

BundleNext ==
    \/ \E w \in Writers : \/ BeginAsyncBundleExport(w) \/ WriteItem(w) \/ Close(w) \/ ReplaceAtomically(w) \/ CancelExport(w)
                          \/ \E name \in Names : OpenStagingFileWithRetry(w, name)
    \/ Writeback \/ Kill \/ PowerLoss \/ OpenBundle(TRUE) \/ OpenBundle(FALSE)

BundleSpec == BundleInit /\ [][BundleNext]_bundleVars

-----------------------------------------------------------------------------
(* Whatever is interrupted, cancelled or lost, the destination is absent,   *)
(* the file that was there, or one whole export: never a mixture or a part. *)
DestinationWhole == \A f \in onDisk["dest"] : \E w \in Writers \cup {"old"} : f.data = Bundle(w)

(* An export removes its staging file whichever way it ends, and no two     *)
(* exports share one; only a killed process leaves one behind.              *)
StagingFilesOwned ==
    /\ \A w1, w2 \in Writers : writer[w1].name # "dest" /\ writer[w1].name = writer[w2].name => w1 = w2
    /\ losses = 0 => \A p \in Names : onDisk[p] # {} => \E w \in Writers : writer[w].name = p

(* Reopened, a bundle has its anchors on the records that had them: every   *)
(* anchor is on an anchored record, and a record that its locator and line  *)
(* identify keeps its anchor.                                               *)
AnchorsFollowRecords ==
    view.by # "none" =>
        /\ \A i \in view.anchors : Rows(view.by)[i + 1] \in Tables[view.by].anchors
        /\ view.anchors # {} => \A a \in Tables[view.by].anchors :
             Cardinality(Matches(view.by, a)) = 1 <=> \E i \in view.anchors : Rows(view.by)[i + 1] = a

(* A bundle that is on disk is one session's, whole, also after a crash or *)
(* beside another export, and reopens with the anchors where they were.    *)
BundleReopensAsSaved == DestinationWhole /\ StagingFilesOwned /\ AnchorsFollowRecords
=============================================================================
