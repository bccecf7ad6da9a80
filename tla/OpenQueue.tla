----------------------------- MODULE OpenQueue -----------------------------
(***************************************************************************)
(* The open queue of the main window: every tab (LogSession) has a queue   *)
(* of files, at most one parser worker, at most one decompression, and     *)
(* perhaps an export that reads its table without a lock.  The handlers    *)
(* below run on the GUI thread; the workers of a tab complete at any time, *)
(* whichever tab is active.  A handler that shows a modal dialog runs a    *)
(* nested event loop: the user can do nothing else, but completions and    *)
(* files forwarded by a second launch still arrive.                        *)
(*                                                                         *)
(* A handler is a function from session record to session record.          *)
(***************************************************************************)
EXTENDS Naturals, Sequences, SequencesExt

CONSTANTS
    Sessions,       \* the tabs the window may host
    First,          \* the tab the window opens with
    Files,          \* the paths that can be opened
    Missing,        \* those that cannot be opened
    Compressed,     \* those with a compression magic
    Damaged,        \* compressed ones whose decompression fails
    Bundles,        \* compressed ones that are session bundles
    Siblings,       \* Siblings[f]: rotated companions of f, oldest first
    Batches,        \* the sequences of files one open request may name
    NoFile,
    MaxAsks,        \* bound on the user's requests
    ForwardInDialog \* whether a second launch may arrive during a dialog

ASSUME OpenQueueAssumption ==
    /\ First \in Sessions /\ NoFile \notin Files
    /\ Missing \subseteq Files \ Compressed /\ Compressed \subseteq Files
    /\ Damaged \subseteq Compressed /\ Bundles \subseteq Compressed
    /\ Siblings \in [Files -> Seq(Files)]
    /\ Batches \subseteq Seq(Files)
    /\ MaxAsks \in Nat /\ ForwardInDialog \in BOOLEAN

VARIABLES ses, active, dialog, closed, asks,
          given         \* the tabs whose content this step may discard
queueVars == <<ses, active, dialog, closed, asks, given>>

OrNone == Files \cup {NoFile}
NoSource == [kind |-> "none", locs |-> <<>>]
FileSource(locs) == [kind |-> "File", locs |-> locs]

(* The members of a session the open queue reads and writes. *)
Session ==
    [life: {"unused", "hosted", "closed"}, mode: {"Idle", "Static", "LiveTail"},
     src: [kind: {"none", "File", "Stream"}, locs: Seq(Files)],
     rows: SUBSET Files, worker: OrNone, clash: BOOLEAN, queue: Seq(Files), unzip: OrNone,
     openErrors: SUBSET Files, unzipErrors: SUBSET Files, exporting: BOOLEAN,
     promo: OrNone, posted: BOOLEAN,
     undo: [files: Seq(Files), tail: BOOLEAN], published: BOOLEAN,
     disowned: BOOLEAN]     \* a configuration replaced the source under the rows

NoUndo == [files |-> <<>>, tail |-> FALSE]

NewLogSession(life) ==
    [life |-> life, mode |-> "Idle", src |-> NoSource, rows |-> {}, worker |-> NoFile,
     clash |-> FALSE, queue |-> <<>>, unzip |-> NoFile, openErrors |-> {}, unzipErrors |-> {},
     exporting |-> FALSE, promo |-> NoFile,
     posted |-> FALSE, undo |-> NoUndo, published |-> FALSE, disowned |-> FALSE]

NoPlan == [queue |-> <<>>, undo |-> NoUndo]
NoDialog == [kind |-> "none", plan |-> NoPlan, tab |-> First]

QueueInit ==
    /\ ses = [s \in Sessions |-> NewLogSession(IF s = First THEN "hosted" ELSE "unused")]
    /\ active = First
    /\ dialog = NoDialog
    /\ closed = FALSE
    /\ asks = 0
    /\ given = {}

IsSessionActive(r) == r.mode # "Idle"
IsStreamingActive(r) == r.worker # NoFile
InFlight(r) == IsStreamingActive(r) \/ r.unzip # NoFile

-----------------------------------------------------------------------------
(* Starting and ending the work of one session *)

(* BeginStreaming clears the table, AppendStreaming keeps it; both assert  *)
(* that no worker runs, and a release build without the assertion would    *)
(* let two workers feed one sink.                                          *)
BeginStreaming(r, f) ==
    [r EXCEPT !.worker = f, !.rows = {}, !.disowned = FALSE, !.clash = @ \/ IsStreamingActive(r)]
AppendStreaming(r, f) ==
    [r EXCEPT !.worker = f, !.clash = @ \/ IsStreamingActive(r)]

WithLocatorOfFirst(src, f) == IF src.locs = <<>> THEN [src EXCEPT !.locs = <<f>>] ELSE src

WithLocator(src, f) ==
    IF f \in Range(src.locs) THEN src ELSE [src EXCEPT !.locs = Append(@, f)]

ContinueAlwaysBegins(r, f) ==
    BeginStreaming([r EXCEPT !.src = IF @.kind = "File" THEN WithLocator(@, f) ELSE FileSource(<<f>>),
                             !.mode = "Static"], f)

(* A file that opened becomes the source of an idle session, and one more  *)
(* locator of an active one whose source is a set of files.                *)
ContinueOpenAfterPrepared(r, f) ==
    IF ~IsSessionActive(r)
    THEN BeginStreaming([r EXCEPT !.src = FileSource(<<f>>), !.mode = "Static"], f)
    ELSE AppendStreaming([r EXCEPT !.src = IF @.kind = "File" THEN WithLocator(@, f) ELSE @], f)

(* The promotion of a loaded prefix to a live tail of the newest file.  *)
ContinueLiveTailAfterPrefix(r) ==
    LET p == r.promo
        taken == [r EXCEPT !.promo = NoFile]
        armed == [taken EXCEPT !.mode = "LiveTail",
                               !.src = IF @.kind = "File" THEN WithLocator(@, p) ELSE FileSource(<<p>>)]
    IN CASE p = NoFile -> r
         [] p \in Missing -> [taken EXCEPT !.mode = IF r.rows # {} THEN "Static" ELSE "Idle"]
         [] OTHER -> IF IsStreamingActive(r) \/ r.rows # {} THEN AppendStreaming(armed, p)
                     ELSE BeginStreaming(armed, p)

ShowErrors(r) == [r EXCEPT !.openErrors = {}, !.unzipErrors = {}]

StreamFirstAgain(r) ==
    LET q == r.queue IN
    IF q = <<>> THEN ShowErrors(r)
    ELSE IF Head(q) \in Compressed THEN [r EXCEPT !.unzip = Head(q)] ELSE ContinueOpenAfterPrepared(r, Head(q))

(* Files are taken from the queue until one starts a decompression or a    *)
(* parser; the ones that fail to open leave an error behind.  When none    *)
(* starts and no session was active, the errors are shown and a pending    *)
(* live tail is started.                                                   *)
StreamNextPendingFile(r) ==
    LET q == r.queue
        start == SelectInSeq(q, LAMBDA f : f \notin Missing)
        tried == IF start = 0 THEN Range(q) ELSE {q[i] : i \in 1..(start - 1)}
        after == [r EXCEPT !.queue = IF start = 0 THEN <<>> ELSE SubSeq(q, start + 1, Len(q)),
                           !.openErrors = @ \cup tried]
    IN CASE start = 0 /\ IsSessionActive(r) -> after
         [] start = 0 /\ ~IsSessionActive(r) -> ShowErrors(ContinueLiveTailAfterPrefix(after))
         [] start # 0 /\ q[start] \in Compressed -> [after EXCEPT !.unzip = q[start]]
         [] OTHER -> ContinueOpenAfterPrepared(after, q[start])

CancelInFlightDecompressionFor(r) ==
    [r EXCEPT !.unzip = NoFile, !.unzipErrors = {}]

CancelInFlightExportFor(r) == [r EXCEPT !.exporting = FALSE]

(* AutoSaveSessionSnapshot names the session in the list of open windows   *)
(* when it is asked to publish and the source is a set of files.           *)
AutoSaveSessionSnapshot(r, mode) ==
    [r EXCEPT !.published = @ \/ (r.src.kind = "File" /\ mode # "LiveTail")]

(* The end of a parser.  A success goes on with the queue, any other end   *)
(* drops it; a pending live tail is started by a posted call; otherwise    *)
(* the session is idle again, its errors are shown and it is saved.        *)
OnStreamingFinished(r, result) ==
    LET ended == [r EXCEPT !.worker = NoFile]
        next == IF result = "Success" /\ r.queue # <<>> THEN StreamNextPendingFile(ended)
                ELSE [ended EXCEPT !.queue = <<>>]
        idle == ShowErrors([next EXCEPT !.mode = "Idle"])
    IN CASE InFlight(next) -> next
         [] ~InFlight(next) /\ next.promo # NoFile -> [next EXCEPT !.posted = TRUE]
         [] OTHER -> IF result = "Success" THEN AutoSaveSessionSnapshot(idle, next.mode) ELSE idle

(* The end of a chain of files whose last one was compressed.  *)
FinalizeAfterDecompressionIfChainTerminal(r) ==
    CASE InFlight(r) -> r
      [] ~InFlight(r) /\ ~IsSessionActive(r) -> ShowErrors(r)
      [] OTHER -> AutoSaveSessionSnapshot(ShowErrors([r EXCEPT !.mode = "Idle"]), r.mode)

FinishedWithoutChain(r, outcome) ==
    [r EXCEPT !.unzip = NoFile,
              !.unzipErrors = IF outcome = "error" THEN @ \cup {r.unzip} ELSE @]

OnDecompressionFinishedFor(r, outcome) ==
    LET f == r.unzip
        ended == [r EXCEPT !.unzip = NoFile]
        skipped == [ended EXCEPT !.unzipErrors = IF outcome = "error" THEN @ \cup {f} ELSE @]
    IN IF outcome = "ok" THEN ContinueOpenAfterPrepared(ended, f)
       ELSE FinalizeAfterDecompressionIfChainTerminal(StreamNextPendingFile(skipped))

-----------------------------------------------------------------------------
(* What the requests do to the session they reach *)

(* LogModel::Reset: the table is emptied and the parser stopped; unless a  *)
(* session switch is in progress the end of the parser is handled as a     *)
(* cancellation.                                                           *)
ResetModel(r, switching) ==
    LET empty == [r EXCEPT !.rows = {}, !.disowned = FALSE]
    IN CASE ~IsStreamingActive(r) -> empty
         [] IsStreamingActive(r) /\ switching -> [empty EXCEPT !.worker = NoFile]
         [] OTHER -> OnStreamingFinished(empty, "Cancelled")

(* DetachAutoSaveUuid, ClearPendingLiveTailPromotion and                   *)
(* ClearRotationExpansionUndoState.                                        *)
Detached(r) ==
    [r EXCEPT !.promo = NoFile, !.undo = NoUndo, !.published = FALSE]

CancelInFlight(r) == CancelInFlightDecompressionFor(CancelInFlightExportFor(r))

StartWithoutExportCancel(r, files, destructive) ==
    IF destructive \/ ~InFlight(r)
    THEN StreamNextPendingFile([r EXCEPT !.queue = files, !.mode = IF r.rows # {} THEN "Static" ELSE @])
    ELSE [r EXCEPT !.queue = @ \o files]

StartBesideDecompression(r, files, destructive) ==
    IF IsStreamingActive(r) THEN [r EXCEPT !.queue = @ \o files]
    ELSE StreamNextPendingFile([CancelInFlightExportFor(r) EXCEPT !.queue = files])

(* StartStreamingOpenQueue past its veto.  *)
StartStreamingOpenQueue(r, files, destructive) ==
    LET quiet == CancelInFlightExportFor(r)
        wiped == [Detached(ResetModel(CancelInFlightDecompressionFor(quiet), FALSE))
                     EXCEPT !.src = NoSource, !.mode = "Idle"]
        kept == IF ~IsSessionActive(r) /\ r.rows # {} THEN [quiet EXCEPT !.mode = "Static"] ELSE quiet
    IN IF ~destructive /\ InFlight(r) THEN [quiet EXCEPT !.queue = @ \o files]
       ELSE StreamNextPendingFile([(IF destructive THEN wiped ELSE kept) EXCEPT
                     !.queue = files, !.openErrors = {}, !.unzipErrors = {}])

(* The paths of a list that S has, in their order; each once if asked.     *)
Listed(paths, S, once) ==
    FoldLeft(LAMBDA acc, f : IF f \notin S \/ (once /\ f \in Range(acc)) THEN acc ELSE Append(acc, f),
             <<>>, paths)

(* ExpandLogPathsWithRotationSiblings: rotated companions come before the  *)
(* file they belong to; a path that is loaded or named twice is left out;  *)
(* bundles are not expanded and come last.                                 *)
ExpandLogPathsWithRotationSiblings(files, loaded) ==
    LET logs == Listed(files, Files \ Bundles, FALSE)
        all == FlattenSeq([i \in DOMAIN logs |-> Append(Siblings[logs[i]], logs[i])])
    IN IF logs = <<>> THEN files
       ELSE Listed(all, Files \ loaded, TRUE) \o Listed(files, Bundles, FALSE)

(* DispatchMixedOpenInput for log files, up to its call of                 *)
(* StartStreamingOpenQueue: what is queued and what an undo would open     *)
(* again.  A lone bundle is not expanded.                                  *)
DispatchMixedOpenInput(r, files, replace) ==
    LET loaded == IF replace THEN {} ELSE Range(r.src.locs)
        all == ExpandLogPathsWithRotationSiblings(files, loaded)
    IN [queue |-> all,
        undo |-> IF Range(all) \subseteq Range(files) THEN NoUndo ELSE [files |-> files, tail |-> FALSE]]

(* The offer to undo is made after the call, even when it was vetoed.  *)
OfferUndo(r, plan) == IF plan.undo = NoUndo THEN r ELSE [r EXCEPT !.undo = plan.undo]

Dispatched(r, plan, destructive) ==
    OfferUndo(StartStreamingOpenQueue(r, plan.queue, destructive), plan)

(* OpenLogStreamFromPath: the session is wiped under a switch guard; the   *)
(* older segments load first and the newest is tailed when they are done.  *)
OpenLogStreamFromPath(r, f, expand) ==
    LET wiped == Detached(ResetModel(CancelInFlight([r EXCEPT !.queue = <<>>]), TRUE))
        prefix == IF expand THEN Siblings[f] ELSE <<>>
    IN CASE prefix # <<>> ->
              StreamNextPendingFile([wiped EXCEPT
                  !.queue = prefix, !.openErrors = {}, !.unzipErrors = {}, !.promo = f,
                  !.undo = [files |-> <<f>>, tail |-> TRUE], !.mode = "Idle", !.src = NoSource])
         [] prefix = <<>> /\ f \in Missing -> wiped
         [] OTHER -> BeginStreaming([wiped EXCEPT !.src = FileSource(<<f>>), !.mode = "LiveTail"], f)

(* OpenStdinStreamFromProducer and OpenNetworkStream: the same, with a     *)
(* source that is not a file.                                              *)
OpenStdinStreamFromProducer(r, f) ==
    LET wiped == Detached(ResetModel(CancelInFlight([r EXCEPT !.queue = <<>>]), TRUE))
    IN BeginStreaming([wiped EXCEPT !.src = [kind |-> "Stream", locs |-> <<f>>], !.mode = "LiveTail"], f)

NewSessionRecord(r) ==
    [Detached(ResetModel(CancelInFlight(r), TRUE)) EXCEPT
        !.src = NoSource, !.mode = "Idle", !.queue = <<>>, !.openErrors = {}, !.unzipErrors = {}]

(* A configuration dropped alone replaces the source and keeps the rows.  *)
TryLoadAsConfiguration(r) ==
    [r EXCEPT !.src = NoSource, !.undo = NoUndo, !.published = FALSE,
              !.disowned = @ \/ r.rows # {} \/ IsSessionActive(r)]

-----------------------------------------------------------------------------
(* Actions *)

Hosted == {s \in Sessions : ses[s].life = "hosted"}

(* A posted call runs before the window system or a socket is asked for    *)
(* the next event, so a request never finds one outstanding.               *)
AtEventLoop == ~closed /\ \A s \in Sessions : ~ses[s].posted

UserFree == AtEventLoop /\ dialog = NoDialog

Ask ==
    /\ asks < MaxAsks
    /\ asks' = asks + 1

(* EnsureFreshActiveTab: a tab with neither source nor rows is reused.  *)
IsEmptyTab(s) == ses[s].src = NoSource /\ ses[s].rows = {}
FreshTab(s) ==
    IF IsEmptyTab(active) THEN s = active ELSE ses[s].life = "unused"

InFreshTab(s, opened) ==
    /\ FreshTab(s)
    /\ active' = s
    /\ ses' = [ses EXCEPT ![s] = opened]
TabOf(s) == [ses[s] EXCEPT !.life = "hosted"]

(* File > Open or a drop onto the window.  *)
AppendFiles ==
    /\ UserFree /\ Ask
    /\ ses[active].mode # "LiveTail"
    /\ \E files \in Batches :
          ses' = [ses EXCEPT ![active] = Dispatched(@, DispatchMixedOpenInput(@, files, FALSE), FALSE)]
    /\ given' = {}
    /\ UNCHANGED <<active, dialog, closed>>

(* With the Shift key, or into a live session, an open discards the        *)
(* session: PrepareSessionClose may save it silently, veto or ask.         *)
ReplaceFiles ==
    /\ UserFree /\ Ask
    /\ \E files \in Batches, replace \in BOOLEAN :
          /\ replace \/ ses[active].mode = "LiveTail"
          /\ LET plan == DispatchMixedOpenInput(ses[active], files, replace)
             IN \/ /\ ses' = [ses EXCEPT ![active] = Dispatched(@, plan, TRUE)]
                   /\ dialog' = dialog
                \/ /\ ses' = [ses EXCEPT ![active] = OfferUndo(@, plan)]
                   /\ dialog' = dialog
                \/ /\ dialog' = [kind |-> "replace", plan |-> plan, tab |-> active]
                   /\ UNCHANGED ses
    /\ given' = {active}
    /\ UNCHANGED <<active, closed>>

(* The answer to the prompt: what follows works on the session that is     *)
(* active when the dialog returns.                                         *)
PromptAnswered ==
    /\ dialog.kind = "replace"
    /\ given' = {dialog.tab}
    /\ dialog' = NoDialog
    /\ \/ ses' = [ses EXCEPT ![active] = OfferUndo(@, dialog.plan)]
       \/ ses' = [ses EXCEPT ![active] = Dispatched(@, dialog.plan, TRUE)]
    /\ UNCHANGED <<active, closed, asks>>

(* Files forwarded by a second launch, or by the desktop.  *)
OpenFilesForCli ==
    /\ AtEventLoop /\ Ask
    /\ dialog = NoDialog \/ ForwardInDialog
    /\ \E files \in Batches, s \in Sessions :
          InFreshTab(s, Dispatched(TabOf(s), DispatchMixedOpenInput(TabOf(s), files, FALSE), FALSE))
    /\ given' = {}
    /\ UNCHANGED <<dialog, closed>>

OpenLogStream ==
    /\ UserFree /\ Ask
    /\ \E f \in Files \ Compressed, s \in Sessions :
          InFreshTab(s, OpenLogStreamFromPath(TabOf(s), f, TRUE))
    /\ given' = {}
    /\ UNCHANGED <<dialog, closed>>

OpenStdinStream ==
    /\ UserFree /\ Ask
    /\ \E f \in Files \ (Compressed \cup Missing), s \in Sessions :
          InFreshTab(s, OpenStdinStreamFromProducer(TabOf(s), f))
    /\ given' = {}
    /\ UNCHANGED <<dialog, closed>>

(* The expansion is undone by opening the original input again, as it was. *)
UndoRotationExpansion ==
    /\ UserFree /\ Ask
    /\ ses[active].undo # NoUndo
    /\ LET undo == ses[active].undo
           r == [ses[active] EXCEPT !.undo = NoUndo]
       IN ses' = [ses EXCEPT ![active] =
                    IF undo.tail THEN OpenLogStreamFromPath(r, Head(undo.files), FALSE)
                    ELSE StartStreamingOpenQueue(r, undo.files, TRUE)]
    /\ given' = {active}
    /\ UNCHANGED <<active, dialog, closed>>

NewSession ==
    /\ UserFree /\ Ask
    /\ ses' = [ses EXCEPT ![active] = NewSessionRecord(@)]
    /\ given' = {active}
    /\ UNCHANGED <<active, dialog, closed>>

LoadConfiguration ==
    /\ UserFree /\ Ask
    /\ ses' = [ses EXCEPT ![active] = TryLoadAsConfiguration(@)]
    /\ given' = {}
    /\ UNCHANGED <<active, dialog, closed>>

(* StopAndKeepRows; the action is enabled for live sessions only.  *)
StopStream ==
    /\ UserFree
    /\ ses[active].mode = "LiveTail" /\ IsStreamingActive(ses[active])
    /\ ses' = [ses EXCEPT ![active] = OnStreamingFinished(@, "Cancelled")]
    /\ given' = {}
    /\ UNCHANGED <<active, dialog, closed, asks>>

OnActiveTabChanged(s) ==
    /\ UserFree
    /\ s \in Hosted \ {active}
    /\ active' = s
    /\ given' = {}
    /\ UNCHANGED <<ses, dialog, closed, asks>>

CloseKeepsIndex(s) ==
    /\ UserFree
    /\ s \in Hosted /\ Hosted # {s}
    /\ ses' = [ses EXCEPT ![s] = NewLogSession("closed")]
    /\ given' = {s}
    /\ UNCHANGED <<active, dialog, closed, asks>>

(* Everything of the tab is cancelled and its completions disconnected.  *)
CloseTabAtIndex(s) ==
    /\ UserFree
    /\ s \in Hosted /\ Hosted # {s}
    /\ ses' = [ses EXCEPT ![s] = NewLogSession("closed")]
    /\ active' = IF s = active THEN CHOOSE t \in Hosted \ {s} : TRUE ELSE active
    /\ given' = {s}
    /\ UNCHANGED <<dialog, closed, asks>>

(* The window closes: the workers of the active tab are cancelled, the     *)
(* others only asked to stop; every session is detached, and the window    *)
(* lives on, hidden, until the application ends.                           *)
CloseEvent ==
    /\ UserFree
    /\ closed' = TRUE
    /\ ses' = [s \in Sessions |->
                  IF ses[s].life # "hosted" THEN ses[s]
                  ELSE [(IF s = active THEN CancelInFlight(ses[s]) ELSE ses[s]) EXCEPT
                           !.published = FALSE, !.src = NoSource, !.mode = "Idle"]]
    /\ given' = Hosted
    /\ UNCHANGED <<active, dialog, asks>>

-----------------------------------------------------------------------------
(* Exports *)

CanExport(r) == r.rows # {} /\ ~r.exporting /\ ~InFlight(r)

(* ExportFilteredRows checks the session, then runs the export dialog.  *)
ExportFilteredRows ==
    /\ UserFree
    /\ CanExport(ses[active])
    /\ dialog' = [kind |-> "export", plan |-> NoPlan, tab |-> active]
    /\ given' = {}
    /\ UNCHANGED <<ses, active, closed, asks>>

(* BeginAsyncExport starts on the session that is active by then; nothing  *)
(* is exported when it has no rows or the destination cannot be opened.    *)
BeginAsyncExport ==
    /\ dialog.kind = "export"
    /\ dialog' = NoDialog
    /\ \/ UNCHANGED ses
       \/ /\ ses[active].rows # {}
          /\ ses' = [ses EXCEPT ![active].exporting = TRUE]
    /\ given' = {}
    /\ UNCHANGED <<active, closed, asks>>

OnExportFinishedFor(s) ==
    /\ ses[s].exporting
    /\ ses' = [ses EXCEPT ![s].exporting = FALSE]
    /\ given' = {}
    /\ UNCHANGED <<active, dialog, closed, asks>>

-----------------------------------------------------------------------------
(* The workers *)

(* A parser's first batch; an empty file never has one.  *)
AppendBatch(s) ==
    /\ IsStreamingActive(ses[s]) /\ ses[s].worker \notin ses[s].rows
    /\ ses' = [ses EXCEPT ![s].rows = @ \cup {ses[s].worker}]
    /\ given' = {}
    /\ UNCHANGED <<active, dialog, closed, asks>>

(* A parser ends by itself at the end of a file or of a pipe; the tail of  *)
(* a file only when it is stopped.                                         *)
CompleteStreaming(s) ==
    /\ IsStreamingActive(ses[s])
    /\ ses[s].mode = "LiveTail" => ses[s].src.kind = "Stream"
    /\ ses' = [ses EXCEPT ![s] = OnStreamingFinished(@, "Success")]
    /\ given' = {}
    /\ UNCHANGED <<active, dialog, closed, asks>>

Outcomes(s) ==
    (IF ses[s].unzip \in Damaged THEN {"error"} ELSE {"ok"}) \cup {"cancelled"}

(* It is cancelled by the button of the progress dialog, and by a close.  *)
CompleteDecompression(s, outcome) ==
    /\ ses[s].unzip # NoFile
    /\ outcome \in Outcomes(s)
    /\ ses' = [ses EXCEPT ![s] = OnDecompressionFinishedFor(@, outcome)]
    /\ given' = {}
    /\ UNCHANGED <<active, dialog, closed, asks>>

(* The posted call of ContinueLiveTailAfterPrefix.  *)
PromoteToLiveTail(s) ==
    /\ ses[s].posted
    /\ ses' = [ses EXCEPT ![s] = ContinueLiveTailAfterPrefix([@ EXCEPT !.posted = FALSE])]
    /\ given' = {}
    /\ UNCHANGED <<active, dialog, closed, asks>>

Completes(s) ==
    \/ CompleteStreaming(s)
    \/ \E o \in {"ok", "error", "cancelled"} : CompleteDecompression(s, o)
    \/ PromoteToLiveTail(s)
    \/ OnExportFinishedFor(s)

QueueNext ==
    \/ AppendFiles \/ ReplaceFiles \/ PromptAnswered \/ OpenFilesForCli
    \/ OpenLogStream \/ OpenStdinStream \/ UndoRotationExpansion \/ NewSession
    \/ LoadConfiguration \/ StopStream \/ CloseEvent
    \/ ExportFilteredRows \/ BeginAsyncExport
    \/ \E s \in Sessions : OnActiveTabChanged(s) \/ CloseTabAtIndex(s) \/ AppendBatch(s) \/ Completes(s)

QueueSpec == QueueInit /\ [][QueueNext]_queueVars

(* Worker threads run and the event loop delivers what they post.  *)
QueueFairness == \A s \in Sessions : WF_queueVars(Completes(s))

-----------------------------------------------------------------------------
(* Properties *)

(* Every member of a session, the active tab and the dialog have their     *)
(* types, and the active tab is hosted.                                    *)
QueueTypeOK ==
    /\ ses \in [Sessions -> Session]
    /\ ses[active].life = "hosted"
    /\ dialog.kind \in {"none", "replace", "export"} /\ closed \in BOOLEAN
    /\ asks \in 0..MaxAsks /\ given \subseteq Sessions

(* A file waits in the queue of an open window only while a parser or a    *)
(* decompression of that tab runs whose end will take it: no open request  *)
(* is forgotten (StreamNextPendingFile has no other caller).               *)
NoStrandedQueue ==
    ~closed => \A s \in Hosted : ses[s].queue # <<>> => InFlight(ses[s])

(* No path starts a second parser on a table whose parser runs, whichever  *)
(* completions, appends and promotions meet (the watcher assertions of     *)
(* LogModel::BeginStreaming and AppendStreaming).                          *)
OneWorker == \A s \in Sessions : ~ses[s].clash

(* The locators of a file session name every file whose rows it shows, so  *)
(* the snapshot that is saved reopens what was on the screen.  A            *)
(* configuration dropped onto rows takes their source away: those sessions *)
(* are left out.                                                           *)
LocatorsCoverRows ==
    ~closed => \A s \in Hosted :
        ses[s].src.kind = "File" /\ ~ses[s].disowned => ses[s].rows \subseteq Range(ses[s].src.locs)

(* An export reads the table without a lock: while it runs, no parser and  *)
(* no decompression of its session does (StartStreamingOpenQueue cancels   *)
(* it first, ExportFilteredRows refuses to start it).                      *)
ExportReadsStableTable ==
    \A s \in Hosted : ses[s].exporting => ~InFlight(ses[s])

(* Every file the user asked for is waiting for a job that will take it,   *)
(* or its rows are named by the locators that are saved.                   *)
OpenRequestsKept == QueueTypeOK /\ NoStrandedQueue /\ LocatorsCoverRows

(* A table has one user at a time: one parser, or one export and none.     *)
OneActorPerTable == OneWorker /\ ExportReadsStableTable

(* Rows leave a table only by a step the user gave that tab up for: an     *)
(* append, a forwarded open or a completion never takes the row-clearing   *)
(* BeginStreaming path over the rows of earlier files.                     *)
AppendKeepsRows ==
    [][\A s \in Sessions :
          closed \/ s \in given' \/ ses[s].rows \subseteq ses'[s].rows]_queueVars

(* Every load comes to an end: under fair workers, once the user's         *)
(* requests stop, no decompression, no posted promotion and no static      *)
(* parser is left (the chain OnStreamingFinished - StreamNextPendingFile - *)
(* OnDecompressionFinishedFor terminates).                                 *)
EveryLoadSettles ==
    <>[](\A s \in Sessions :
            /\ ses[s].unzip = NoFile /\ ~ses[s].posted
            /\ IsStreamingActive(ses[s]) => ses[s].mode = "LiveTail")

(* What the code says of a live tail whose older segments load first: it   *)
(* is started "after any terminal prefix result", so it is pending only    *)
(* while something runs that ends in it.                                   *)
TailPromoted ==
    ~closed => \A s \in Hosted : ses[s].promo # NoFile => InFlight(ses[s]) \/ ses[s].posted

(* What the code says of files that could not be opened: their errors are  *)
(* shown when the queue has drained, so none waits while nothing runs.     *)
ErrorsSurfaced ==
    \A s \in Hosted : ses[s].openErrors # {} => InFlight(ses[s]) \/ ses[s].posted

(* What the code says of a window that closes: none of its tabs is named   *)
(* in the list of open windows afterwards.                                 *)
ClosedPublishesNothing == closed => \A s \in Sessions : ~ses[s].published
=============================================================================
