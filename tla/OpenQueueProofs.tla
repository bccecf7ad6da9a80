-------------------------- MODULE OpenQueueProofs --------------------------
(***************************************************************************)
(* Proofs that a table of the main window has one user at a time, that     *)
(* rows leave it only where the user gave its tab up, and that no open     *)
(* request is forgotten and no row left without its locator.               *)
(***************************************************************************)
EXTENDS OpenQueue, SequenceTheorems, WellFoundedInduction, TLAPS

Fields == {"life", "mode", "src", "rows", "worker", "clash", "queue", "unzip", "openErrors", "unzipErrors",
           "exporting", "promo", "posted", "undo", "published", "disowned"}

IsSession(r) == DOMAIN r = Fields /\ r = [x \in Fields |-> r[x]]

Idle(r) == r.worker = NoFile /\ r.unzip = NoFile

(* The posted call of the session will start a live tail.                  *)
TailDue(r) == r.posted /\ r.promo # NoFile

(* One job at a time, and none when the tail starts.                       *)
OneJob(r) ==
    /\ IsSession(r) /\ ~r.clash
    /\ r.worker = NoFile \/ r.unzip = NoFile
    /\ TailDue(r) => Idle(r)

(* A session at work is active, so what it opens next is appended.         *)
AtWorkActive(r) ==
    /\ r.worker # NoFile => r.mode # "Idle"
    /\ r.unzip # NoFile /\ r.rows # {} => r.mode # "Idle"

ExportAlone(r) == r.exporting => Idle(r) /\ ~TailDue(r)

-----------------------------------------------------------------------------

(* What a session about to start a job is.                                 *)
Ready(r) == IsSession(r) /\ ~r.clash /\ Idle(r) /\ ~TailDue(r)

(* A step that starts at most one job, as one row of appends: the tail     *)
(* stays as due as it was and the export as it ran.                        *)
Starts(r, t) ==
    /\ IsSession(t) /\ ~t.clash /\ (t.worker = NoFile \/ t.unzip = NoFile)
    /\ t.life = r.life /\ t.posted = r.posted /\ t.exporting = r.exporting /\ t.promo \in {r.promo, NoFile}

(* It keeps the rows there are, and is active while it works on them.      *)
Appends(r, t) == (r.rows # {} => r.mode # "Idle") => AtWorkActive(t) /\ r.rows \subseteq t.rows

LEMMA PreparedStarts ==
    ASSUME NEW r, NEW f, Ready(r)
    PROVE  Starts(r, ContinueOpenAfterPrepared(r, f)) /\ Appends(r, ContinueOpenAfterPrepared(r, f))
<1> USE DEF Ready, IsSession, Fields, Idle, BeginStreaming, AppendStreaming, IsStreamingActive,
            ContinueOpenAfterPrepared, IsSessionActive
<1>1. Starts(r, ContinueOpenAfterPrepared(r, f))
  BY DEF Starts
<1>2. Appends(r, ContinueOpenAfterPrepared(r, f))
  BY DEF Appends, AtWorkActive
<1> QED BY <1>1, <1>2

LEMMA TailStarts ==
    ASSUME NEW r, Ready(r)
    PROVE  LET t == ContinueLiveTailAfterPrefix(r)
           IN  Starts(r, t) /\ AtWorkActive(t) /\ r.rows \subseteq t.rows
<1> DEFINE p == r.promo
           taken == [r EXCEPT !.promo = NoFile]
           armed == [taken EXCEPT !.mode = "LiveTail",
                                  !.src = IF @.kind = "File" THEN WithLocator(@, p) ELSE FileSource(<<p>>)]
           t == ContinueLiveTailAfterPrefix(r)
<1> SUFFICES Starts(r, t) /\ AtWorkActive(t) /\ r.rows \subseteq t.rows
  OBVIOUS
<1>1. \/ t = r
      \/ t = [taken EXCEPT !.mode = IF r.rows # {} THEN "Static" ELSE "Idle"]
      \/ t = AppendStreaming(armed, p)
      \/ t = BeginStreaming(armed, p) /\ r.rows = {}
  BY DEF ContinueLiveTailAfterPrefix
<1>2. /\ IsSession(taken) /\ ~taken.clash /\ Idle(taken) /\ taken.life = r.life /\ taken.rows = r.rows
      /\ taken.posted = r.posted /\ taken.exporting = r.exporting /\ taken.promo = NoFile
  BY DEF Ready, IsSession, Fields, Idle
<1>3. /\ IsSession(armed) /\ ~armed.clash /\ Idle(armed) /\ armed.life = r.life /\ armed.rows = r.rows /\ armed.mode = "LiveTail"
      /\ armed.posted = r.posted /\ armed.exporting = r.exporting /\ armed.promo = NoFile
  BY DEF Ready, IsSession, Fields, Idle
<1> HIDE DEF t, taken, armed, p
<1>4. CASE t = r
  BY <1>4 DEF Ready, Starts, AtWorkActive, Idle
<1>5. CASE t = [taken EXCEPT !.mode = IF r.rows # {} THEN "Static" ELSE "Idle"]
  BY <1>2, <1>5 DEF Starts, AtWorkActive, Idle, IsSession, Fields
<1>6. CASE t = AppendStreaming(armed, p)
  BY <1>3, <1>6 DEF Starts, AtWorkActive, Idle, IsSession, Fields, AppendStreaming, IsStreamingActive
<1>7. CASE t = BeginStreaming(armed, p) /\ r.rows = {}
  BY <1>3, <1>7 DEF Starts, AtWorkActive, Idle, IsSession, Fields, BeginStreaming, IsStreamingActive
<1> QED BY <1>1, <1>4, <1>5, <1>6, <1>7

LEMMA NoTailNoStep ==
    ASSUME NEW r, r.promo = NoFile PROVE ContinueLiveTailAfterPrefix(r) = r
BY OpenQueueAssumption DEF ContinueLiveTailAfterPrefix

LEMMA StreamNextStarts ==
    ASSUME NEW r, Ready(r)
    PROVE  Starts(r, StreamNextPendingFile(r)) /\ Appends(r, StreamNextPendingFile(r))
<1> DEFINE q == r.queue
           start == SelectInSeq(q, LAMBDA f : f \notin Missing)
           tried == IF start = 0 THEN Range(q) ELSE {q[i] : i \in 1..(start - 1)}
           after == [r EXCEPT !.queue = IF start = 0 THEN <<>> ELSE SubSeq(q, start + 1, Len(q)),
                              !.openErrors = @ \cup tried]
           t == StreamNextPendingFile(r)
<1> SUFFICES Starts(r, t) /\ Appends(r, t)
  OBVIOUS
<1>1. \/ t = after \/ t = ShowErrors(ContinueLiveTailAfterPrefix(after))
      \/ t = [after EXCEPT !.unzip = q[start]] \/ t = ContinueOpenAfterPrepared(after, q[start])
  BY DEF StreamNextPendingFile
<1>2. /\ Ready(after) /\ after.life = r.life /\ after.rows = r.rows /\ after.mode = r.mode
      /\ after.posted = r.posted /\ after.exporting = r.exporting /\ after.promo = r.promo
  BY DEF Ready, IsSession, Fields, Idle, TailDue
<1> HIDE DEF after, t, q, start
<1>3. CASE t = after
  BY <1>2, <1>3 DEF Ready, Starts, Appends, AtWorkActive, Idle
<1>4. CASE t = ShowErrors(ContinueLiveTailAfterPrefix(after))
  <2> DEFINE u == ContinueLiveTailAfterPrefix(after)
  <2>1. Starts(after, u) /\ AtWorkActive(u) /\ after.rows \subseteq u.rows
    BY <1>2, TailStarts
  <2>2. t = ShowErrors(u) /\ IsSession(u)
    BY <1>4, <2>1 DEF Starts
  <2> HIDE DEF u
  <2>3. /\ IsSession(t) /\ t.clash = u.clash /\ t.worker = u.worker /\ t.unzip = u.unzip /\ t.mode = u.mode
        /\ t.posted = u.posted /\ t.exporting = u.exporting /\ t.promo = u.promo /\ t.rows = u.rows /\ t.life = u.life
    BY <2>2 DEF IsSession, Fields, ShowErrors
  <2> QED BY <1>2, <2>1, <2>3 DEF Starts, Appends, AtWorkActive
<1>5. CASE t = [after EXCEPT !.unzip = q[start]]
  BY <1>2, <1>5 DEF Ready, Starts, Appends, AtWorkActive, Idle, IsSession, Fields
<1>6. CASE t = ContinueOpenAfterPrepared(after, q[start])
  BY <1>2, <1>6, PreparedStarts DEF Starts, Appends
<1> QED BY <1>1, <1>3, <1>4, <1>5, <1>6

-----------------------------------------------------------------------------
(* What a handler keeps of the session it is given.                        *)
Good(r, t) ==
    /\ OneJob(t) /\ t.life = r.life
    /\ ExportAlone(r) => ExportAlone(t)
    /\ AtWorkActive(r) => AtWorkActive(t)

Keeps(r, t) == AtWorkActive(r) => r.rows \subseteq t.rows

LEMMA FinishedGood ==
    ASSUME NEW r, NEW result, OneJob(r), r.worker # NoFile
    PROVE  Good(r, OnStreamingFinished(r, result)) /\ Keeps(r, OnStreamingFinished(r, result))
<1> DEFINE ended == [r EXCEPT !.worker = NoFile]
           next == IF result = "Success" /\ r.queue # <<>> THEN StreamNextPendingFile(ended)
                   ELSE [ended EXCEPT !.queue = <<>>]
           idle == ShowErrors([next EXCEPT !.mode = "Idle"])
           t == OnStreamingFinished(r, result)
<1> SUFFICES Good(r, t) /\ Keeps(r, t)
  OBVIOUS
<1>1. \/ t = next /\ InFlight(next)
      \/ t = [next EXCEPT !.posted = TRUE] /\ ~InFlight(next)
      \/ t \in {idle, AutoSaveSessionSnapshot(idle, next.mode)} /\ ~InFlight(next) /\ next.promo = NoFile
  BY DEF OnStreamingFinished
<1>2. Ready(ended) /\ ended.rows = r.rows /\ ended.mode = r.mode /\ ended.life = r.life /\ ended.exporting = r.exporting
  BY DEF OneJob, Ready, IsSession, Fields, Idle, TailDue
<1>3. Starts(ended, next) /\ Appends(ended, next)
  <2>1. CASE next = StreamNextPendingFile(ended)
    BY <1>2, <2>1, StreamNextStarts
  <2>2. CASE next = [ended EXCEPT !.queue = <<>>]
    <3> HIDE DEF ended, next
    <3> QED BY <1>2, <2>2 DEF Ready, Starts, Appends, AtWorkActive, IsSession, Fields, Idle
  <2> QED BY <2>1, <2>2
<1>4. AtWorkActive(r) => AtWorkActive(next) /\ r.rows \subseteq next.rows
  <2> HIDE DEF ended, next
  <2> QED BY <1>2, <1>3 DEF Appends, AtWorkActive
<1>5. ~ExportAlone(r) \/ ~r.exporting
  BY DEF ExportAlone, Idle
<1>6. ~TailDue(ended)
  BY <1>2 DEF Ready
<1> HIDE DEF ended, next, t
<1>7. CASE t = next /\ InFlight(next)
  BY <1>2, <1>3, <1>4, <1>5, <1>6, <1>7 DEF Starts, Good, Keeps, OneJob, TailDue, ExportAlone
<1>8. CASE t = [next EXCEPT !.posted = TRUE] /\ ~InFlight(next)
  <2>1. /\ IsSession(t) /\ t.life = next.life /\ t.clash = next.clash /\ t.worker = NoFile /\ t.unzip = NoFile
        /\ t.exporting = next.exporting /\ t.rows = next.rows
    BY <1>3, <1>8 DEF Starts, IsSession, Fields, InFlight, IsStreamingActive
  <2> QED BY <1>2, <1>3, <1>4, <1>5, <2>1 DEF Starts, Good, Keeps, OneJob, ExportAlone, Idle, AtWorkActive
<1>9. CASE t \in {idle, AutoSaveSessionSnapshot(idle, next.mode)} /\ ~InFlight(next) /\ next.promo = NoFile
  <2>1. /\ IsSession(t) /\ t.life = next.life /\ t.clash = next.clash /\ t.worker = NoFile /\ t.unzip = NoFile
        /\ t.exporting = next.exporting /\ t.rows = next.rows
    BY <1>3, <1>9 DEF Starts, IsSession, Fields, InFlight, IsStreamingActive, ShowErrors, AutoSaveSessionSnapshot
  <2> QED BY <1>2, <1>3, <1>4, <1>5, <2>1 DEF Starts, Good, Keeps, OneJob, ExportAlone, Idle, AtWorkActive
<1> QED BY <1>1, <1>7, <1>8, <1>9

LEMMA UnzippedGood ==
    ASSUME NEW r, NEW outcome, OneJob(r), r.unzip # NoFile
    PROVE  Good(r, OnDecompressionFinishedFor(r, outcome)) /\ Keeps(r, OnDecompressionFinishedFor(r, outcome))
<1> DEFINE f == r.unzip
           ended == [r EXCEPT !.unzip = NoFile]
           skipped == [ended EXCEPT !.unzipErrors = IF outcome = "error" THEN @ \cup {f} ELSE @]
           next == StreamNextPendingFile(skipped)
           t == OnDecompressionFinishedFor(r, outcome)
<1> SUFFICES Good(r, t) /\ Keeps(r, t)
  OBVIOUS
<1>1. t = ContinueOpenAfterPrepared(ended, f) \/ t = FinalizeAfterDecompressionIfChainTerminal(next)
  BY DEF OnDecompressionFinishedFor
<1>2. Ready(ended) /\ ended.rows = r.rows /\ ended.mode = r.mode /\ ended.life = r.life /\ ended.exporting = r.exporting
  BY DEF OneJob, Ready, IsSession, Fields, Idle, TailDue
<1>3. Ready(skipped) /\ skipped.rows = r.rows /\ skipped.mode = r.mode /\ skipped.life = r.life /\ skipped.exporting = r.exporting
  BY DEF OneJob, Ready, IsSession, Fields, Idle, TailDue
<1>4. ~ExportAlone(r) \/ ~r.exporting
  BY DEF ExportAlone, Idle
<1>5. AtWorkActive(r) => (r.rows # {} => r.mode # "Idle")
  BY DEF AtWorkActive
<1> HIDE DEF ended, skipped, t, f, next
<1>6. CASE t = ContinueOpenAfterPrepared(ended, f)
  <2>1. Starts(ended, t) /\ Appends(ended, t)
    BY <1>2, <1>6, PreparedStarts
  <2> QED BY <1>2, <1>4, <1>5, <2>1 DEF Starts, Appends, Good, Keeps, OneJob, Ready, TailDue, ExportAlone
<1>7. CASE t = FinalizeAfterDecompressionIfChainTerminal(next)
  <2>1. Starts(skipped, next) /\ Appends(skipped, next)
    BY <1>3, StreamNextStarts DEF next
  <2>2. /\ IsSession(t) /\ t.life = next.life /\ t.clash = next.clash /\ t.worker = next.worker /\ t.unzip = next.unzip
        /\ t.exporting = next.exporting /\ t.rows = next.rows /\ t.posted = next.posted /\ t.promo = next.promo
        /\ t.mode = next.mode \/ Idle(t)
    <3>1. CASE InFlight(next)
      BY <1>7, <2>1, <3>1 DEF FinalizeAfterDecompressionIfChainTerminal, Starts
    <3>2. CASE ~InFlight(next) /\ ~IsSessionActive(next)
      BY <1>7, <2>1, <3>2 DEF FinalizeAfterDecompressionIfChainTerminal, Starts, IsSession, Fields, ShowErrors
    <3>3. CASE ~InFlight(next) /\ IsSessionActive(next)
      <4>1. t = AutoSaveSessionSnapshot(ShowErrors([next EXCEPT !.mode = "Idle"]), next.mode)
        BY <1>7, <3>3 DEF FinalizeAfterDecompressionIfChainTerminal
      <4> QED BY <2>1, <3>3, <4>1 DEF Starts, IsSession, Fields, ShowErrors, AutoSaveSessionSnapshot, Idle, InFlight, IsStreamingActive
    <3> QED BY <3>1, <3>2, <3>3
  <2> QED BY <1>3, <1>4, <1>5, <2>1, <2>2 DEF Starts, Appends, Good, Keeps, OneJob, Ready, TailDue, ExportAlone, AtWorkActive, Idle
<1> QED BY <1>1, <1>6, <1>7

LEMMA PromotedGood ==
    ASSUME NEW r, OneJob(r), r.posted
    PROVE  LET t == ContinueLiveTailAfterPrefix([r EXCEPT !.posted = FALSE])
           IN  Good(r, t) /\ Keeps(r, t)
<1> DEFINE taken == [r EXCEPT !.posted = FALSE]
           t == ContinueLiveTailAfterPrefix(taken)
<1> SUFFICES Good(r, t) /\ Keeps(r, t)
  OBVIOUS
<1>1. /\ IsSession(taken) /\ ~taken.clash /\ ~taken.posted /\ taken.worker = r.worker /\ taken.unzip = r.unzip
      /\ taken.life = r.life /\ taken.exporting = r.exporting /\ taken.rows = r.rows /\ taken.promo = r.promo
      /\ taken.mode = r.mode
  BY DEF OneJob, IsSession, Fields
<1>2. CASE r.promo = NoFile
  <2> HIDE DEF taken
  <2>1. t = taken
    BY <1>1, <1>2, NoTailNoStep
  <2> HIDE DEF t
  <2> QED BY <1>1, <1>2, <2>1 DEF Good, Keeps, OneJob, TailDue, ExportAlone, AtWorkActive, Idle
<1>3. CASE r.promo # NoFile
  <2>1. Ready(taken)
    BY <1>1, <1>3 DEF Ready, OneJob, TailDue, Idle
  <2>2. Starts(taken, t) /\ AtWorkActive(t) /\ taken.rows \subseteq t.rows
    BY <2>1, TailStarts
  <2> HIDE DEF taken, t
  <2> QED BY <1>1, <1>3, <2>2 DEF Starts, Good, Keeps, OneJob, TailDue, ExportAlone
<1> QED BY <1>2, <1>3

LEMMA ResetIdle ==
    ASSUME NEW r, NEW switching \in BOOLEAN, IsSession(r), ~r.clash, r.unzip = NoFile
    PROVE  LET t == ResetModel(r, switching)
           IN  IsSession(t) /\ ~t.clash /\ Idle(t) /\ t.rows = {} /\ t.exporting = r.exporting /\ t.life = r.life
               /\ (switching => t.posted = r.posted)
<1> DEFINE empty == [r EXCEPT !.rows = {}, !.disowned = FALSE]
           t == ResetModel(r, switching)
<1>1. IsSession(empty) /\ ~empty.clash /\ empty.unzip = NoFile /\ empty.worker = r.worker /\ empty.rows = {}
      /\ empty.exporting = r.exporting /\ empty.life = r.life /\ empty.posted = r.posted
  BY DEF IsSession, Fields
<1>2. CASE ~IsStreamingActive(r)
  BY <1>1, <1>2 DEF ResetModel, Idle, IsStreamingActive
<1>3. CASE IsStreamingActive(r) /\ switching
  <2>1. t = [empty EXCEPT !.worker = NoFile]
    BY <1>3 DEF ResetModel
  <2> HIDE DEF empty, t
  <2> QED BY <1>1, <1>3, <2>1 DEF Idle, IsSession, Fields, t
<1>4. CASE IsStreamingActive(r) /\ ~switching
  <2>1. t = OnStreamingFinished(empty, "Cancelled")
    BY <1>4 DEF ResetModel
  <2> HIDE DEF empty
  <2> DEFINE next == [[empty EXCEPT !.worker = NoFile] EXCEPT !.queue = <<>>]
             idle == ShowErrors([next EXCEPT !.mode = "Idle"])
  <2>2. /\ IsSession(next) /\ ~next.clash /\ Idle(next) /\ ~InFlight(next) /\ next.rows = {}
        /\ next.exporting = r.exporting /\ next.life = r.life
    BY <1>1 DEF IsSession, Fields, Idle, InFlight, IsStreamingActive
  <2>3. t = [next EXCEPT !.posted = TRUE] \/ t = idle
    BY <2>1, <2>2 DEF OnStreamingFinished
  <2> HIDE DEF next, t
  <2> QED BY <1>4, <2>2, <2>3 DEF IsSession, Fields, Idle, ShowErrors, t
<1> QED BY <1>2, <1>3, <1>4

(* A session that was quieted: no job, no export, no tail due.             *)
Wiped(r, t) == Ready(t) /\ ~t.exporting /\ t.rows = {} /\ t.life = r.life

LEMMA StartKept ==
    ASSUME NEW r, NEW files, OneJob(r), ~r.posted
    PROVE  LET t == StartStreamingOpenQueue(r, files, FALSE)
           IN  Good(r, t) /\ Keeps(r, t)
<1> DEFINE quiet == CancelInFlightExportFor(r)
           queued == [quiet EXCEPT !.queue = @ \o files]
           kept == IF ~IsSessionActive(r) /\ r.rows # {} THEN [quiet EXCEPT !.mode = "Static"] ELSE quiet
           armed == [kept EXCEPT !.queue = files, !.openErrors = {}, !.unzipErrors = {}]
           t == StartStreamingOpenQueue(r, files, FALSE)
<1> SUFFICES Good(r, t) /\ Keeps(r, t)
  OBVIOUS
<1>1. CASE InFlight(r)
  <2>1. t = queued
    BY <1>1 DEF StartStreamingOpenQueue
  <2>2. /\ IsSession(queued) /\ queued.clash = r.clash /\ queued.worker = r.worker /\ queued.unzip = r.unzip
        /\ queued.life = r.life /\ queued.rows = r.rows /\ queued.mode = r.mode /\ ~queued.posted /\ ~queued.exporting
    BY DEF OneJob, IsSession, Fields, CancelInFlightExportFor
  <2> HIDE DEF t, queued
  <2> QED BY <2>1, <2>2 DEF Good, Keeps, OneJob, TailDue, ExportAlone, AtWorkActive
<1>2. CASE ~InFlight(r)
  <2>1. t = StreamNextPendingFile(armed)
    BY <1>2 DEF StartStreamingOpenQueue
  <2>2. /\ IsSession(kept) /\ kept.clash = r.clash /\ kept.worker = NoFile /\ kept.unzip = NoFile
        /\ kept.life = r.life /\ kept.rows = r.rows /\ (kept.rows # {} => kept.mode # "Idle") /\ ~kept.posted /\ ~kept.exporting
    BY <1>2 DEF OneJob, IsSession, Fields, CancelInFlightExportFor, InFlight, IsStreamingActive, IsSessionActive
  <2> HIDE DEF kept
  <2>3. /\ Ready(armed) /\ armed.life = r.life /\ armed.rows = r.rows /\ (armed.rows # {} => armed.mode # "Idle")
        /\ ~armed.posted /\ ~armed.exporting
    BY <2>2 DEF Ready, OneJob, Idle, TailDue, IsSession, Fields
  <2>4. Starts(armed, t) /\ Appends(armed, t)
    BY <2>1, <2>3, StreamNextStarts
  <2> HIDE DEF armed, t
  <2> QED BY <2>3, <2>4 DEF Starts, Appends, Good, Keeps, OneJob, TailDue, ExportAlone
<1> QED BY <1>1, <1>2

LEMMA StartFresh ==
    ASSUME NEW r, NEW files, OneJob(r)
    PROVE  LET t == StartStreamingOpenQueue(r, files, TRUE)
           IN  OneJob(t) /\ ~t.exporting /\ AtWorkActive(t) /\ t.life = r.life
<1> DEFINE quiet == CancelInFlightDecompressionFor(CancelInFlightExportFor(r))
           reset == ResetModel(quiet, FALSE)
           wiped == [Detached(reset) EXCEPT !.src = NoSource, !.mode = "Idle"]
           armed == [wiped EXCEPT !.queue = files, !.openErrors = {}, !.unzipErrors = {}]
           t == StartStreamingOpenQueue(r, files, TRUE)
<1>1. t = StreamNextPendingFile(armed)
  BY DEF StartStreamingOpenQueue
<1>2. IsSession(quiet) /\ ~quiet.clash /\ quiet.unzip = NoFile /\ quiet.life = r.life /\ ~quiet.exporting
  BY DEF OneJob, IsSession, Fields, CancelInFlightExportFor, CancelInFlightDecompressionFor
<1>3. IsSession(reset) /\ ~reset.clash /\ Idle(reset) /\ reset.rows = {} /\ ~reset.exporting /\ reset.life = r.life
  <2> HIDE DEF quiet
  <2> QED BY <1>2, ResetIdle
<1> HIDE DEF reset
<1>4. /\ IsSession(wiped) /\ ~wiped.clash /\ Idle(wiped) /\ wiped.rows = {} /\ ~wiped.exporting /\ wiped.life = r.life
      /\ wiped.promo = NoFile
  BY <1>3 DEF Idle, IsSession, Fields, Detached
<1> HIDE DEF wiped
<1>5. Wiped(r, armed)
  BY <1>4 DEF Wiped, Ready, Idle, TailDue, IsSession, Fields
<1>6. Starts(armed, t) /\ Appends(armed, t)
  BY <1>1, <1>5, StreamNextStarts DEF Wiped
<1> HIDE DEF armed, t
<1>7. OneJob(t) /\ ~t.exporting /\ AtWorkActive(t) /\ t.life = r.life
  BY <1>5, <1>6 DEF Wiped, Ready, Starts, Appends, OneJob, TailDue
<1> QED BY <1>7 DEF t

LEMMA OfferAlike ==
    ASSUME NEW t, NEW plan, IsSession(t)
    PROVE  LET u == OfferUndo(t, plan)
           IN  /\ IsSession(u) /\ u.life = t.life /\ u.clash = t.clash /\ u.worker = t.worker /\ u.unzip = t.unzip
               /\ u.exporting = t.exporting /\ u.promo = t.promo /\ u.posted = t.posted /\ u.rows = t.rows
               /\ u.mode = t.mode
BY DEF OfferUndo, IsSession, Fields

LEMMA DispatchedKept ==
    ASSUME NEW r, NEW plan, OneJob(r), ~r.posted
    PROVE  LET u == Dispatched(r, plan, FALSE)
           IN  Good(r, u) /\ Keeps(r, u)
<1> DEFINE t == StartStreamingOpenQueue(r, plan.queue, FALSE)
           u == OfferUndo(t, plan)
<1>1. Good(r, t) /\ Keeps(r, t)
  BY StartKept
<1> HIDE DEF t
<1>2. /\ IsSession(u) /\ u.life = t.life /\ u.clash = t.clash /\ u.worker = t.worker /\ u.unzip = t.unzip
      /\ u.exporting = t.exporting /\ u.promo = t.promo /\ u.posted = t.posted /\ u.rows = t.rows
      /\ u.mode = t.mode
  BY <1>1, OfferAlike DEF Good, OneJob
<1>3. u = Dispatched(r, plan, FALSE)
  BY DEF Dispatched, t
<1> HIDE DEF u
<1> QED BY <1>1, <1>2, <1>3 DEF Good, Keeps, OneJob, TailDue, ExportAlone, AtWorkActive, Idle

LEMMA DispatchedFresh ==
    ASSUME NEW r, NEW plan, OneJob(r)
    PROVE  LET u == Dispatched(r, plan, TRUE)
           IN  OneJob(u) /\ ~u.exporting /\ AtWorkActive(u) /\ u.life = r.life
<1> DEFINE t == StartStreamingOpenQueue(r, plan.queue, TRUE)
           u == OfferUndo(t, plan)
<1>1. OneJob(t) /\ ~t.exporting /\ AtWorkActive(t) /\ t.life = r.life
  BY StartFresh
<1> HIDE DEF t
<1>2. /\ IsSession(u) /\ u.life = t.life /\ u.clash = t.clash /\ u.worker = t.worker /\ u.unzip = t.unzip
      /\ u.exporting = t.exporting /\ u.promo = t.promo /\ u.posted = t.posted /\ u.rows = t.rows
      /\ u.mode = t.mode
  BY <1>1, OfferAlike DEF OneJob
<1>3. u = Dispatched(r, plan, TRUE)
  BY DEF Dispatched, t
<1> HIDE DEF u
<1> QED BY <1>1, <1>2, <1>3 DEF OneJob, TailDue, AtWorkActive, Idle

(* OpenLogStreamFromPath, OpenNetworkStream and OpenStdinStream quiet the  *)
(* session the same way, under the guard of a session switch.              *)
LEMMA SwitchWiped ==
    ASSUME NEW r, OneJob(r), ~r.posted
    PROVE  LET t == Detached(ResetModel(CancelInFlight([r EXCEPT !.queue = <<>>]), TRUE))
           IN  Wiped(r, t) /\ ~t.posted
<1> DEFINE quiet == CancelInFlight([r EXCEPT !.queue = <<>>])
           reset == ResetModel(quiet, TRUE)
<1>1. /\ IsSession(quiet) /\ ~quiet.clash /\ quiet.unzip = NoFile /\ quiet.life = r.life /\ ~quiet.exporting
      /\ ~quiet.posted
  BY DEF OneJob, IsSession, Fields, CancelInFlight, CancelInFlightExportFor, CancelInFlightDecompressionFor
<1> HIDE DEF quiet
<1>2. IsSession(reset) /\ ~reset.clash /\ Idle(reset) /\ reset.rows = {} /\ ~reset.exporting /\ reset.life = r.life /\ ~reset.posted
  BY <1>1, ResetIdle
<1> HIDE DEF reset
<1>3. Wiped(r, Detached(reset)) /\ ~Detached(reset).posted
  BY <1>2 DEF Wiped, Ready, Idle, TailDue, Detached, IsSession, Fields
<1> QED BY <1>3 DEF reset, quiet

LEMMA TailFresh ==
    ASSUME NEW r, NEW f, NEW expand, OneJob(r), ~r.posted
    PROVE  LET t == OpenLogStreamFromPath(r, f, expand)
           IN  OneJob(t) /\ ~t.exporting /\ AtWorkActive(t) /\ t.life = r.life
<1> DEFINE wiped == Detached(ResetModel(CancelInFlight([r EXCEPT !.queue = <<>>]), TRUE))
           prefix == IF expand THEN Siblings[f] ELSE <<>>
           chained == [wiped EXCEPT
                         !.queue = prefix, !.openErrors = {}, !.unzipErrors = {}, !.promo = f,
                         !.undo = [files |-> <<f>>, tail |-> TRUE], !.mode = "Idle", !.src = NoSource]
           live == [wiped EXCEPT !.src = FileSource(<<f>>), !.mode = "LiveTail"]
           t == OpenLogStreamFromPath(r, f, expand)
<1>1. t = StreamNextPendingFile(chained) \/ t = wiped \/ t = BeginStreaming(live, f)
  BY DEF OpenLogStreamFromPath
<1>2. Wiped(r, wiped) /\ ~wiped.posted
  BY SwitchWiped
<1> HIDE DEF wiped
<1>3. Wiped(r, chained) /\ ~chained.posted
  BY <1>2 DEF Wiped, Ready, Idle, TailDue, IsSession, Fields
<1>4. Wiped(r, live) /\ live.mode = "LiveTail"
  BY <1>2 DEF Wiped, Ready, Idle, TailDue, IsSession, Fields
<1> HIDE DEF chained, live
<1> SUFFICES OneJob(t) /\ ~t.exporting /\ AtWorkActive(t) /\ t.life = r.life
  OBVIOUS
<1> HIDE DEF t
<1>5. CASE t = StreamNextPendingFile(chained)
  <2>1. Starts(chained, t) /\ Appends(chained, t)
    BY <1>3, <1>5, StreamNextStarts DEF Wiped
  <2> QED BY <1>3, <2>1 DEF Wiped, Starts, Appends, OneJob, TailDue
<1>6. CASE t = wiped
  BY <1>2, <1>6 DEF Wiped, Ready, OneJob, AtWorkActive, Idle
<1>7. CASE t = BeginStreaming(live, f)
  BY <1>4, <1>7 DEF Wiped, Ready, OneJob, AtWorkActive, Idle, TailDue, IsSession, Fields, BeginStreaming, IsStreamingActive
<1> QED BY <1>1, <1>5, <1>6, <1>7

LEMMA StdinFresh ==
    ASSUME NEW r, NEW f, OneJob(r), ~r.posted
    PROVE  LET t == OpenStdinStreamFromProducer(r, f)
           IN  OneJob(t) /\ ~t.exporting /\ AtWorkActive(t) /\ t.life = r.life
<1> DEFINE wiped == Detached(ResetModel(CancelInFlight([r EXCEPT !.queue = <<>>]), TRUE))
           live == [wiped EXCEPT !.src = [kind |-> "Stream", locs |-> <<f>>], !.mode = "LiveTail"]
           t == OpenStdinStreamFromProducer(r, f)
<1>1. t = BeginStreaming(live, f)
  BY DEF OpenStdinStreamFromProducer
<1>2. Wiped(r, wiped)
  BY SwitchWiped
<1> HIDE DEF wiped
<1>3. Wiped(r, live) /\ live.mode = "LiveTail"
  BY <1>2 DEF Wiped, Ready, Idle, TailDue, IsSession, Fields
<1> HIDE DEF live
<1>4. OneJob(t) /\ ~t.exporting /\ AtWorkActive(t) /\ t.life = r.life
  <2> HIDE DEF t
  <2> QED BY <1>1, <1>3 DEF Wiped, Ready, OneJob, AtWorkActive, Idle, TailDue, IsSession, Fields, BeginStreaming, IsStreamingActive
<1> QED BY <1>4

LEMMA NewFresh ==
    ASSUME NEW r, OneJob(r)
    PROVE  LET t == NewSessionRecord(r)
           IN  OneJob(t) /\ ~t.exporting /\ AtWorkActive(t) /\ t.life = r.life
<1> DEFINE quiet == CancelInFlight(r)
           reset == ResetModel(quiet, TRUE)
           t == NewSessionRecord(r)
<1>1. IsSession(quiet) /\ ~quiet.clash /\ quiet.unzip = NoFile /\ quiet.life = r.life /\ ~quiet.exporting
  BY DEF OneJob, IsSession, Fields, CancelInFlight, CancelInFlightExportFor, CancelInFlightDecompressionFor
<1>2. IsSession(reset) /\ ~reset.clash /\ Idle(reset) /\ reset.rows = {} /\ ~reset.exporting /\ reset.life = r.life
  <2> HIDE DEF quiet
  <2> QED BY <1>1, ResetIdle
<1>3. t = [Detached(reset) EXCEPT
        !.src = NoSource, !.mode = "Idle", !.queue = <<>>, !.openErrors = {}, !.unzipErrors = {}]
  BY DEF NewSessionRecord
<1> SUFFICES OneJob(t) /\ ~t.exporting /\ AtWorkActive(t) /\ t.life = r.life
  OBVIOUS
<1> HIDE DEF reset, t
<1> QED BY <1>2, <1>3 DEF OneJob, TailDue, Idle, AtWorkActive, IsSession, Fields, Detached

LEMMA ConfigurationGood ==
    ASSUME NEW r, OneJob(r)
    PROVE  Good(r, TryLoadAsConfiguration(r)) /\ Keeps(r, TryLoadAsConfiguration(r))
<1> DEFINE t == TryLoadAsConfiguration(r)
<1>1. /\ IsSession(t) /\ t.life = r.life /\ t.clash = r.clash /\ t.worker = r.worker /\ t.unzip = r.unzip
      /\ t.exporting = r.exporting /\ t.promo = r.promo /\ t.posted = r.posted /\ t.rows = r.rows /\ t.mode = r.mode
  BY DEF TryLoadAsConfiguration, OneJob, IsSession, Fields
<1> HIDE DEF t
<1>2. Good(r, t) /\ Keeps(r, t)
  BY <1>1 DEF Good, Keeps, OneJob, TailDue, Idle, ExportAlone, AtWorkActive
<1> QED BY <1>2 DEF t

-----------------------------------------------------------------------------
(* The window.                                                             *)

TabsInv ==
    /\ DOMAIN ses = Sessions /\ ses = [s \in Sessions |-> ses[s]]
    /\ active \in Sessions /\ ses[active].life = "hosted"
    /\ \A s \in Sessions : OneJob(ses[s])
    /\ \A s \in Sessions : ses[s].life = "unused" => ses[s] = NewLogSession("unused")

WorkInv == ~closed => \A s \in Sessions : AtWorkActive(ses[s])

ExportInv == \A s \in Sessions : ExportAlone(ses[s])

(* The tab a dialog was opened for is still the active one, and still does *)
(* nothing when its rows are about to be exported.                         *)
DialogInv ==
    /\ dialog.kind = "replace" => dialog.tab = active
    /\ dialog.kind = "export" => Idle(ses[active]) /\ ~ses[active].posted

QueueInv == TabsInv /\ WorkInv /\ (~ForwardInDialog => ExportInv /\ DialogInv)

(* What one step may take from the tables.                                 *)
RowsKept == \A s \in Sessions : closed \/ s \in given' \/ ses[s].rows \subseteq ses'[s].rows

(* What the theorems need of a step.                                       *)
SafeStep == QueueInv' /\ (~ForwardInDialog => RowsKept)

(* A step that changes one tab.                                            *)
LEMMA OneTab ==
    ASSUME QueueInv, NEW x \in Sessions, NEW t, ses' = [ses EXCEPT ![x] = t],
           OneJob(t), t.life = "hosted" \/ (t.life = ses[x].life /\ t.life # "unused"),
           active' = active \/ (active' = x /\ t.life = "hosted"),
           closed' = closed, ~closed => AtWorkActive(t),
           ~ForwardInDialog => ExportAlone(t) /\ DialogInv',
           ~ForwardInDialog => closed \/ x \in given' \/ ses[x].rows \subseteq t.rows
    PROVE  SafeStep
<1>1. ses'[x] = t /\ \A s \in Sessions \ {x} : ses'[s] = ses[s]
  BY DEF QueueInv, TabsInv
<1>2. DOMAIN ses' = Sessions /\ ses' = [s \in Sessions |-> ses'[s]]
  BY DEF QueueInv, TabsInv
<1>3. active' \in Sessions /\ ses'[active'].life = "hosted"
  BY <1>1 DEF QueueInv, TabsInv
<1>4. \A s \in Sessions : OneJob(ses'[s]) /\ (ses'[s].life = "unused" => ses'[s] = NewLogSession("unused"))
  BY <1>1 DEF QueueInv, TabsInv
<1>5. WorkInv'
  BY <1>1 DEF QueueInv, WorkInv
<1>6. ~ForwardInDialog => ExportInv' /\ RowsKept
  BY <1>1 DEF QueueInv, ExportInv, RowsKept
<1> QED BY <1>2, <1>3, <1>4, <1>5, <1>6 DEF SafeStep, QueueInv, TabsInv

(* The handlers of the user's requests, with no dialog open afterwards.    *)
LEMMA FreshTabStep ==
    ASSUME QueueInv, NEW x \in Sessions, NEW t, ses' = [ses EXCEPT ![x] = t],
           OneJob(t), ~t.exporting, AtWorkActive(t), t.life = "hosted",
           active' = active \/ active' = x, UNCHANGED closed, dialog' = NoDialog,
           x \in given' \/ ses[x].rows \subseteq t.rows
    PROVE  SafeStep
<1>1. DialogInv' /\ ExportAlone(t)
  BY DEF DialogInv, NoDialog, ExportAlone
<1> QED BY <1>1, OneTab

LEMMA ActiveTab ==
    ASSUME QueueInv
    PROVE  /\ active \in Sessions /\ ses[active].life = "hosted" /\ OneJob(ses[active])
           /\ ~closed => AtWorkActive(ses[active])
           /\ ~ForwardInDialog => ExportAlone(ses[active])
           /\ UserFree => ~closed /\ ~ses[active].posted /\ dialog = NoDialog
BY DEF QueueInv, TabsInv, WorkInv, ExportInv, UserFree, AtEventLoop

(* The tab a request for a fresh one gets.                                 *)
LEMMA FreshTabGiven ==
    ASSUME QueueInv, AtEventLoop, NEW s \in Sessions, FreshTab(s)
    PROVE  /\ OneJob(TabOf(s)) /\ ~TabOf(s).posted /\ TabOf(s).life = "hosted" /\ ses[s].rows = {}
           /\ AtWorkActive(TabOf(s)) /\ (~ForwardInDialog => ExportAlone(TabOf(s)))
<1>1. OneJob(ses[s]) /\ ~ses[s].posted
  BY DEF QueueInv, TabsInv, AtEventLoop
<1>2. /\ OneJob(TabOf(s)) /\ ~TabOf(s).posted /\ TabOf(s).life = "hosted"
      /\ AtWorkActive(ses[s]) => AtWorkActive(TabOf(s))
      /\ ExportAlone(ses[s]) => ExportAlone(TabOf(s))
  BY <1>1 DEF TabOf, OneJob, IsSession, Fields, TailDue, Idle, AtWorkActive, ExportAlone
<1>3. ses[s].rows = {}
  <2>1. CASE IsEmptyTab(active)
    BY <2>1 DEF FreshTab, IsEmptyTab
  <2>2. CASE ~IsEmptyTab(active)
    BY <2>2 DEF FreshTab, QueueInv, TabsInv, NewLogSession
  <2> QED BY <2>1, <2>2
<1> QED BY <1>2, <1>3 DEF QueueInv, WorkInv, ExportInv, AtEventLoop

LEMMA ClosedTab ==
    ASSUME QueueInv, NEW x \in Sessions, CloseTabAtIndex(x) PROVE SafeStep
<1>1. /\ x \in Hosted /\ Hosted # {x} /\ ses' = [ses EXCEPT ![x] = NewLogSession("closed")] /\ given' = {x}
      /\ UNCHANGED closed /\ dialog' = NoDialog
      /\ active' = IF x = active THEN CHOOSE t \in Hosted \ {x} : TRUE ELSE active
  BY DEF CloseTabAtIndex, UserFree
<1>2. OneJob(NewLogSession("closed")) /\ AtWorkActive(NewLogSession("closed")) /\ ExportAlone(NewLogSession("closed"))
      /\ NewLogSession("closed").life = "closed"
  BY DEF NewLogSession, OneJob, IsSession, Fields, TailDue, Idle, AtWorkActive, ExportAlone
<1>3. active' \in Hosted \ {x}
  BY <1>1, ActiveTab DEF Hosted
<1>4. ses'[x] = NewLogSession("closed") /\ \A s \in Sessions \ {x} : ses'[s] = ses[s]
  BY <1>1 DEF QueueInv, TabsInv
<1>5. TabsInv'
  <2>1. DOMAIN ses' = Sessions /\ ses' = [s \in Sessions |-> ses'[s]]
    BY <1>1 DEF QueueInv, TabsInv
  <2> QED BY <1>2, <1>3, <1>4, <2>1 DEF QueueInv, TabsInv, Hosted
<1>6. WorkInv' /\ (~ForwardInDialog => ExportInv' /\ DialogInv')
  BY <1>1, <1>2, <1>4 DEF QueueInv, WorkInv, ExportInv, DialogInv, NoDialog
<1>7. RowsKept
  BY <1>1, <1>4 DEF RowsKept
<1> QED BY <1>5, <1>6, <1>7 DEF SafeStep, QueueInv

LEMMA ClosedWindow ==
    ASSUME QueueInv, CloseEvent PROVE SafeStep
<1> DEFINE quiet(s) == IF s = active THEN CancelInFlight(ses[s]) ELSE ses[s]
           left(s) == IF ses[s].life # "hosted" THEN ses[s]
                      ELSE [quiet(s) EXCEPT !.published = FALSE, !.src = NoSource, !.mode = "Idle"]
<1>1. closed' /\ given' = Hosted /\ ses' = [s \in Sessions |-> left(s)] /\ active' = active /\ dialog' = NoDialog
  BY DEF CloseEvent, UserFree
<1>2. ASSUME NEW s \in Sessions
      PROVE  /\ OneJob(left(s)) /\ left(s).life = ses[s].life /\ (ExportAlone(ses[s]) => ExportAlone(left(s)))
             /\ ses[s].life = "unused" => left(s) = ses[s]
             /\ s \notin Hosted => left(s) = ses[s]
  <2>1. OneJob(ses[s])
    BY DEF QueueInv, TabsInv
  <2>2. /\ IsSession(quiet(s)) /\ ~quiet(s).clash /\ quiet(s).worker = ses[s].worker /\ quiet(s).unzip \in {NoFile, ses[s].unzip}
        /\ quiet(s).posted = ses[s].posted /\ quiet(s).promo = ses[s].promo /\ quiet(s).life = ses[s].life
        /\ quiet(s).exporting => ses[s].exporting
    BY <2>1 DEF OneJob, IsSession, Fields, CancelInFlight, CancelInFlightExportFor, CancelInFlightDecompressionFor
  <2>3. CASE ses[s].life # "hosted"
    BY <2>1, <2>3
  <2>4. CASE ses[s].life = "hosted"
    <3> HIDE DEF quiet
    <3> QED BY <2>1, <2>2, <2>4 DEF OneJob, IsSession, Fields, TailDue, Idle, ExportAlone, Hosted
  <2> QED BY <2>3, <2>4
<1> HIDE DEF left
<1>3. TabsInv'
  BY <1>1, <1>2 DEF QueueInv, TabsInv
<1>4. WorkInv' /\ (~ForwardInDialog => ExportInv' /\ DialogInv')
  BY <1>1, <1>2 DEF QueueInv, WorkInv, ExportInv, DialogInv, NoDialog
<1>5. RowsKept
  BY <1>1, <1>2 DEF RowsKept
<1> QED BY <1>3, <1>4, <1>5 DEF SafeStep, QueueInv

(* The offer to undo changes nothing a job depends on.                     *)
LEMMA OfferedStep ==
    ASSUME QueueInv, NEW plan, ses' = [ses EXCEPT ![active] = OfferUndo(ses[active], plan)],
           UNCHANGED <<active, closed>>, dialog' = NoDialog \/ (UserFree /\ dialog' = dialog)
    PROVE  SafeStep
<1> DEFINE r == ses[active]
           t == OfferUndo(r, plan)
<1>1. /\ IsSession(t) /\ t.life = r.life /\ t.clash = r.clash /\ t.worker = r.worker /\ t.unzip = r.unzip
      /\ t.exporting = r.exporting /\ t.promo = r.promo /\ t.posted = r.posted /\ t.rows = r.rows
      /\ t.mode = r.mode
  BY ActiveTab, OfferAlike DEF OneJob
<1> HIDE DEF t
<1>2. OneJob(t) /\ (ExportAlone(r) => ExportAlone(t)) /\ (AtWorkActive(r) => AtWorkActive(t)) /\ t.life = "hosted"
  BY <1>1, ActiveTab DEF OneJob, TailDue, Idle, AtWorkActive, ExportAlone
<1>3. DialogInv'
  BY DEF UserFree, DialogInv, NoDialog
<1> QED BY <1>1, <1>2, <1>3, ActiveTab, OneTab DEF t

(* A completion comes to any tab, but to none a dialog was opened for with *)
(* nothing running.                                                        *)
LEMMA CompletionStep ==
    ASSUME QueueInv, NEW x \in Sessions, NEW t, ses' = [ses EXCEPT ![x] = t],
           ses[x].worker # NoFile \/ ses[x].unzip # NoFile \/ ses[x].posted,
           Good(ses[x], t), Keeps(ses[x], t), UNCHANGED <<active, dialog, closed>>
    PROVE  SafeStep
<1>1. OneJob(ses[x]) /\ (~closed => AtWorkActive(ses[x])) /\ (~ForwardInDialog => ExportAlone(ses[x]) /\ DialogInv)
  BY DEF QueueInv, TabsInv, WorkInv, ExportInv
<1>2. ses[x].life # "unused"
  BY DEF QueueInv, TabsInv, NewLogSession
<1>3. ~ForwardInDialog => DialogInv'
  <2>1. CASE x = active
    BY <1>1, <2>1 DEF DialogInv, Idle
  <2>2. CASE x # active
    <3>1. ses'[active] = ses[active]
      BY <2>2 DEF QueueInv, TabsInv
    <3> QED BY <1>1, <3>1 DEF DialogInv, Idle
  <2> QED BY <2>1, <2>2
<1> QED BY <1>1, <1>2, <1>3, OneTab DEF Good, Keeps

LEMMA WorkerStep ==
    ASSUME QueueInv, NEW s \in Sessions, AppendBatch(s) \/ Completes(s) PROVE SafeStep
<1> DEFINE r == ses[s]
<1>1. OneJob(r)
  BY DEF QueueInv, TabsInv
<1>2. CASE AppendBatch(s)
  <2> DEFINE t == [r EXCEPT !.rows = @ \cup {r.worker}]
  <2>1. ses' = [ses EXCEPT ![s] = t] /\ r.worker # NoFile /\ UNCHANGED <<active, dialog, closed>>
    BY <1>2 DEF AppendBatch, IsStreamingActive
  <2>2. Good(r, t) /\ Keeps(r, t)
    <3> HIDE DEF r
    <3> QED BY <1>1, <2>1 DEF Good, Keeps, OneJob, IsSession, Fields, TailDue, Idle, ExportAlone, AtWorkActive
  <2> HIDE DEF t
  <2> QED BY <2>1, <2>2, CompletionStep
<1>3. CASE CompleteStreaming(s)
  <2>1. ses' = [ses EXCEPT ![s] = OnStreamingFinished(r, "Success")] /\ r.worker # NoFile /\ UNCHANGED <<active, dialog, closed>>
    BY <1>3 DEF CompleteStreaming, IsStreamingActive
  <2> QED BY <1>1, <2>1, FinishedGood, CompletionStep
<1>4. ASSUME NEW o, CompleteDecompression(s, o) PROVE SafeStep
  <2>1. ses' = [ses EXCEPT ![s] = OnDecompressionFinishedFor(r, o)] /\ r.unzip # NoFile /\ UNCHANGED <<active, dialog, closed>>
    BY <1>4 DEF CompleteDecompression
  <2> QED BY <1>1, <2>1, UnzippedGood, CompletionStep
<1>5. CASE PromoteToLiveTail(s)
  <2>1. /\ ses' = [ses EXCEPT ![s] = ContinueLiveTailAfterPrefix([r EXCEPT !.posted = FALSE])]
        /\ r.posted /\ UNCHANGED <<active, dialog, closed>>
    BY <1>5 DEF PromoteToLiveTail
  <2> QED BY <1>1, <2>1, PromotedGood, CompletionStep
<1>6. CASE OnExportFinishedFor(s)
  <2> DEFINE t == [r EXCEPT !.exporting = FALSE]
  <2>1. ses' = [ses EXCEPT ![s] = t] /\ r.exporting /\ UNCHANGED <<active, dialog, closed>>
    BY <1>6 DEF OnExportFinishedFor
  <2>2. /\ Good(r, t) /\ Keeps(r, t) /\ t.worker = r.worker /\ t.unzip = r.unzip /\ t.posted = r.posted
    <3> HIDE DEF r
    <3> QED BY <1>1, <2>1 DEF Good, Keeps, OneJob, IsSession, Fields, TailDue, Idle, ExportAlone, AtWorkActive
  <2>3. (~closed => AtWorkActive(r)) /\ (~ForwardInDialog => ExportAlone(r) /\ DialogInv)
    BY DEF QueueInv, WorkInv, ExportInv
  <2>4. r.life # "unused"
    BY <2>1 DEF QueueInv, TabsInv, NewLogSession
  <2> HIDE DEF t
  <2>5. ~ForwardInDialog => DialogInv'
    <3>1. ses'[active] = ses[active] \/ (s = active /\ ses'[active] = t)
      BY <2>1 DEF QueueInv, TabsInv
    <3> QED BY <2>1, <2>2, <2>3, <3>1 DEF DialogInv, Idle
  <2> QED BY <2>1, <2>2, <2>3, <2>4, <2>5, OneTab DEF Good, Keeps
<1> QED BY <1>2, <1>3, <1>4, <1>5, <1>6 DEF Completes

LEMMA QueueStep ==
    ASSUME QueueInv, [QueueNext]_queueVars PROVE SafeStep
<1> DEFINE r == ses[active]
<1>1. CASE AppendFiles
  <2>1. PICK files \in Batches :
          ses' = [ses EXCEPT ![active] = Dispatched(r, DispatchMixedOpenInput(r, files, FALSE), FALSE)]
    BY <1>1 DEF AppendFiles
  <2> DEFINE t == Dispatched(r, DispatchMixedOpenInput(r, files, FALSE), FALSE)
  <2>2. UNCHANGED <<active, dialog, closed>> /\ UserFree
    BY <1>1 DEF AppendFiles
  <2>3. Good(r, t) /\ Keeps(r, t)
    BY <2>2, ActiveTab, DispatchedKept
  <2> HIDE DEF t
  <2>4. DialogInv'
    BY <2>2 DEF UserFree, DialogInv, NoDialog
  <2> QED BY <2>1, <2>2, <2>3, <2>4, ActiveTab, OneTab DEF Good, Keeps, t
<1>2. CASE ReplaceFiles
  <2>1. PICK files \in Batches, replace \in BOOLEAN :
          LET plan == DispatchMixedOpenInput(r, files, replace)
          IN \/ ses' = [ses EXCEPT ![active] = Dispatched(r, plan, TRUE)] /\ dialog' = dialog
             \/ ses' = [ses EXCEPT ![active] = OfferUndo(r, plan)] /\ dialog' = dialog
             \/ dialog' = [kind |-> "replace", plan |-> plan, tab |-> active] /\ UNCHANGED ses
    BY <1>2 DEF ReplaceFiles
  <2> DEFINE plan == DispatchMixedOpenInput(r, files, replace)
  <2>2. UNCHANGED <<active, closed>> /\ given' = {active} /\ UserFree
    BY <1>2 DEF ReplaceFiles
  <2> HIDE DEF plan
  <2>3. CASE ses' = [ses EXCEPT ![active] = Dispatched(r, plan, TRUE)] /\ dialog' = dialog
    BY <2>2, <2>3, ActiveTab, DispatchedFresh, FreshTabStep
  <2>4. CASE ses' = [ses EXCEPT ![active] = OfferUndo(r, plan)] /\ dialog' = dialog
    BY <2>2, <2>4, ActiveTab, OfferedStep
  <2>5. CASE dialog' = [kind |-> "replace", plan |-> plan, tab |-> active] /\ UNCHANGED ses
    BY <2>2, <2>5 DEF QueueInv, TabsInv, WorkInv, ExportInv, DialogInv, SafeStep, RowsKept
  <2> QED BY <2>1, <2>3, <2>4, <2>5 DEF plan
<1>3. CASE PromptAnswered
  <2>1. /\ dialog.kind = "replace" /\ given' = {dialog.tab} /\ dialog' = NoDialog /\ UNCHANGED <<active, closed>>
        /\ \/ ses' = [ses EXCEPT ![active] = OfferUndo(r, dialog.plan)]
           \/ ses' = [ses EXCEPT ![active] = Dispatched(r, dialog.plan, TRUE)]
    BY <1>3 DEF PromptAnswered
  <2>2. ~ForwardInDialog => active \in given'
    BY <2>1 DEF QueueInv, DialogInv
  <2>3. CASE ses' = [ses EXCEPT ![active] = OfferUndo(r, dialog.plan)]
    BY <2>1, <2>3, ActiveTab, OfferedStep
  <2>4. CASE ses' = [ses EXCEPT ![active] = Dispatched(r, dialog.plan, TRUE)]
    <3> DEFINE t == Dispatched(r, dialog.plan, TRUE)
    <3>1. OneJob(t) /\ ~t.exporting /\ AtWorkActive(t) /\ t.life = r.life
      BY ActiveTab, DispatchedFresh
    <3> HIDE DEF t
    <3>2. DialogInv' /\ ExportAlone(t)
      BY <2>1, <3>1 DEF DialogInv, NoDialog, ExportAlone
    <3> QED BY <2>1, <2>2, <2>4, <3>1, <3>2, ActiveTab, OneTab DEF t
  <2> QED BY <2>1, <2>3, <2>4
<1>4. CASE OpenFilesForCli
  <2>1. PICK files \in Batches, s \in Sessions :
          InFreshTab(s, Dispatched(TabOf(s), DispatchMixedOpenInput(TabOf(s), files, FALSE), FALSE))
    BY <1>4 DEF OpenFilesForCli
  <2> DEFINE t == Dispatched(TabOf(s), DispatchMixedOpenInput(TabOf(s), files, FALSE), FALSE)
  <2>2. /\ FreshTab(s) /\ active' = s /\ ses' = [ses EXCEPT ![s] = t]
        /\ AtEventLoop /\ (~ForwardInDialog => dialog = NoDialog) /\ UNCHANGED <<dialog, closed>>
    BY <1>4, <2>1 DEF OpenFilesForCli, InFreshTab
  <2>3. Good(TabOf(s), t)
    BY <2>2, FreshTabGiven, DispatchedKept
  <2> HIDE DEF t
  <2>4. ~ForwardInDialog => DialogInv'
    BY <2>2 DEF DialogInv, NoDialog
  <2> QED BY <2>2, <2>3, <2>4, FreshTabGiven, OneTab DEF Good
<1>5. CASE OpenLogStream
  <2>1. PICK f \in Files \ Compressed, s \in Sessions : InFreshTab(s, OpenLogStreamFromPath(TabOf(s), f, TRUE))
    BY <1>5 DEF OpenLogStream
  <2> DEFINE t == OpenLogStreamFromPath(TabOf(s), f, TRUE)
  <2>2. /\ FreshTab(s) /\ active' = s /\ ses' = [ses EXCEPT ![s] = t] /\ AtEventLoop
        /\ dialog' = NoDialog /\ UNCHANGED closed
    BY <1>5, <2>1 DEF OpenLogStream, InFreshTab, UserFree
  <2>3. OneJob(t) /\ ~t.exporting /\ AtWorkActive(t) /\ t.life = "hosted"
    BY <2>2, FreshTabGiven, TailFresh
  <2> HIDE DEF t
  <2> QED BY <2>2, <2>3, FreshTabGiven, FreshTabStep
<1>6. CASE OpenStdinStream
  <2>1. PICK f \in Files \ (Compressed \cup Missing), s \in Sessions : InFreshTab(s, OpenStdinStreamFromProducer(TabOf(s), f))
    BY <1>6 DEF OpenStdinStream
  <2> DEFINE t == OpenStdinStreamFromProducer(TabOf(s), f)
  <2>2. /\ FreshTab(s) /\ active' = s /\ ses' = [ses EXCEPT ![s] = t] /\ AtEventLoop
        /\ dialog' = NoDialog /\ UNCHANGED closed
    BY <1>6, <2>1 DEF OpenStdinStream, InFreshTab, UserFree
  <2>3. OneJob(t) /\ ~t.exporting /\ AtWorkActive(t) /\ t.life = "hosted"
    BY <2>2, FreshTabGiven, StdinFresh
  <2> HIDE DEF t
  <2> QED BY <2>2, <2>3, FreshTabGiven, FreshTabStep
<1>7. CASE UndoRotationExpansion
  <2> DEFINE u == [r EXCEPT !.undo = NoUndo]
             t == IF r.undo.tail THEN OpenLogStreamFromPath(u, Head(r.undo.files), FALSE)
                  ELSE StartStreamingOpenQueue(u, r.undo.files, TRUE)
  <2>1. /\ ses' = [ses EXCEPT ![active] = t] /\ UserFree /\ given' = {active} /\ UNCHANGED <<active, closed>>
        /\ dialog' = NoDialog
    BY <1>7 DEF UndoRotationExpansion, UserFree
  <2>2. OneJob(u) /\ ~u.posted /\ u.life = "hosted"
    <3>1. OneJob(r) /\ ~r.posted /\ r.life = "hosted"
      BY <2>1, ActiveTab
    <3> HIDE DEF r
    <3> QED BY <3>1 DEF OneJob, IsSession, Fields, TailDue, Idle
  <2> HIDE DEF u
  <2>3. OneJob(t) /\ ~t.exporting /\ AtWorkActive(t) /\ t.life = "hosted"
    <3>1. CASE r.undo.tail
      BY <2>2, <3>1, TailFresh
    <3>2. CASE ~r.undo.tail
      BY <2>2, <3>2, StartFresh
    <3> QED BY <3>1, <3>2
  <2> HIDE DEF t
  <2> QED BY <2>1, <2>3, ActiveTab, FreshTabStep
<1>8. CASE NewSession
  <2>1. /\ ses' = [ses EXCEPT ![active] = NewSessionRecord(r)] /\ UserFree /\ given' = {active} /\ UNCHANGED <<active, closed>>
        /\ dialog' = NoDialog
    BY <1>8 DEF NewSession, UserFree
  <2> QED BY <2>1, ActiveTab, NewFresh, FreshTabStep
<1>9. CASE LoadConfiguration
  <2>1. /\ ses' = [ses EXCEPT ![active] = TryLoadAsConfiguration(r)] /\ UserFree /\ UNCHANGED <<active, closed, dialog>>
    BY <1>9 DEF LoadConfiguration
  <2>2. Good(r, TryLoadAsConfiguration(r)) /\ Keeps(r, TryLoadAsConfiguration(r))
    BY ActiveTab, ConfigurationGood
  <2>3. DialogInv'
    BY <2>1 DEF UserFree, DialogInv, NoDialog
  <2> QED BY <2>1, <2>2, <2>3, ActiveTab, OneTab DEF Good, Keeps
<1>10. CASE StopStream
  <2>1. /\ ses' = [ses EXCEPT ![active] = OnStreamingFinished(r, "Cancelled")] /\ UserFree /\ UNCHANGED <<active, closed, dialog>>
        /\ r.worker # NoFile
    BY <1>10 DEF StopStream, IsStreamingActive
  <2>2. Good(r, OnStreamingFinished(r, "Cancelled")) /\ Keeps(r, OnStreamingFinished(r, "Cancelled"))
    BY <2>1, ActiveTab, FinishedGood
  <2>3. DialogInv'
    BY <2>1 DEF UserFree, DialogInv, NoDialog
  <2> QED BY <2>1, <2>2, <2>3, ActiveTab, OneTab DEF Good, Keeps
<1>11. CASE CloseEvent
  BY <1>11, ClosedWindow
<1>12. CASE ExportFilteredRows
  <2>1. /\ dialog' = [kind |-> "export", plan |-> NoPlan, tab |-> active] /\ UNCHANGED <<ses, active, closed>> /\ UserFree
        /\ ~InFlight(r)
    BY <1>12 DEF ExportFilteredRows, CanExport
  <2>2. ~r.posted /\ active \in Sessions
    BY <2>1, ActiveTab
  <2> QED BY <2>1, <2>2 DEF QueueInv, TabsInv, WorkInv, ExportInv, DialogInv, SafeStep, RowsKept, InFlight, IsStreamingActive, Idle
<1>13. CASE BeginAsyncExport
  <2>1. dialog.kind = "export" /\ dialog' = NoDialog /\ UNCHANGED <<active, closed>>
    BY <1>13 DEF BeginAsyncExport
  <2>2. CASE UNCHANGED ses
    BY <2>1, <2>2 DEF QueueInv, TabsInv, WorkInv, ExportInv, DialogInv, NoDialog, SafeStep, RowsKept
  <2>3. CASE ses' = [ses EXCEPT ![active].exporting = TRUE]
    <3> DEFINE t == [r EXCEPT !.exporting = TRUE]
    <3>1. ses' = [ses EXCEPT ![active] = t]
      BY <2>3
    <3>2. /\ IsSession(t) /\ t.clash = r.clash /\ t.worker = r.worker /\ t.unzip = r.unzip /\ t.posted = r.posted
          /\ t.promo = r.promo /\ t.rows = r.rows /\ t.mode = r.mode /\ t.life = r.life
      <4>1. IsSession(r)
        BY ActiveTab DEF OneJob
      <4> HIDE DEF r
      <4> QED BY <4>1 DEF IsSession, Fields
    <3> HIDE DEF t
    <3>3. OneJob(t) /\ (AtWorkActive(r) => AtWorkActive(t)) /\ t.life = "hosted"
      BY <3>2, ActiveTab DEF OneJob, TailDue, Idle, AtWorkActive
    <3>4. ~ForwardInDialog => ExportAlone(t) /\ DialogInv'
      BY <2>1, <3>2 DEF QueueInv, DialogInv, NoDialog, ExportAlone, TailDue, Idle
    <3> QED BY <2>1, <3>1, <3>2, <3>3, <3>4, ActiveTab, OneTab
  <2> QED BY <1>13, <2>2, <2>3 DEF BeginAsyncExport
<1>14. ASSUME NEW s \in Sessions, OnActiveTabChanged(s) PROVE SafeStep
  <2>1. s \in Hosted /\ active' = s /\ UNCHANGED <<ses, closed>> /\ dialog' = NoDialog
    BY <1>14 DEF OnActiveTabChanged, UserFree
  <2> QED BY <2>1 DEF QueueInv, TabsInv, WorkInv, ExportInv, DialogInv, NoDialog, SafeStep, RowsKept, Hosted
<1>15. ASSUME NEW s \in Sessions, CloseTabAtIndex(s) PROVE SafeStep
  BY <1>15, ClosedTab
<1>16. ASSUME NEW s \in Sessions, AppendBatch(s) \/ Completes(s) PROVE SafeStep
  BY <1>16, WorkerStep
<1>17. CASE UNCHANGED queueVars
  BY <1>17 DEF queueVars, QueueInv, TabsInv, WorkInv, ExportInv, DialogInv, SafeStep, RowsKept
<1> QED BY <1>1, <1>2, <1>3, <1>4, <1>5, <1>6, <1>7, <1>8, <1>9, <1>10, <1>11, <1>12, <1>13, <1>14, <1>15, <1>16, <1>17
        DEF QueueNext

LEMMA QueueStart == QueueInit => QueueInv
<1> SUFFICES ASSUME QueueInit PROVE QueueInv
  OBVIOUS
<1>1. \A life \in {"hosted", "unused"} :
        LET r == NewLogSession(life)
        IN  OneJob(r) /\ AtWorkActive(r) /\ ExportAlone(r) /\ r.life = life
  BY DEF NewLogSession, OneJob, IsSession, Fields, TailDue, Idle, AtWorkActive, ExportAlone
<1> QED BY <1>1, OpenQueueAssumption DEF QueueInit, QueueInv, TabsInv, WorkInv, ExportInv, DialogInv, NoDialog

LEMMA QueueInvariant == QueueSpec => []QueueInv
<1>1. QueueInv /\ [QueueNext]_queueVars => QueueInv'
  BY QueueStep DEF SafeStep
<1> QED BY <1>1, QueueStart, PTL DEF QueueSpec

(* Whatever tabs, completions, forwarded opens and promotions meet, no     *)
(* path reaches the assertion of LogModel::BeginStreaming and              *)
(* AppendStreaming that no parser runs on the table they are about to      *)
(* start one on.                                                           *)
THEOREM OneParserPerTable == QueueSpec => []OneWorker
<1>1. QueueInv => OneWorker
  BY DEF QueueInv, TabsInv, OneJob, OneWorker
<1> QED BY <1>1, QueueInvariant, PTL

(* A parser, a decompression and an export of one tab exclude each other,  *)
(* as long as no second launch opens files while a dialog is shown: its    *)
(* tab becomes the active one and starts a parser, and BeginAsyncExport    *)
(* exports the active tab without looking again.                           *)
THEOREM OneActorHolds ==
    ASSUME ~ForwardInDialog PROVE QueueSpec => []OneActorPerTable
<1>1. QueueInv => OneActorPerTable
  BY DEF QueueInv, TabsInv, ExportInv, OneJob, ExportAlone, Idle, OneActorPerTable, OneWorker, ExportReadsStableTable,
         Hosted, InFlight, IsStreamingActive
<1> QED BY <1>1, QueueInvariant, PTL

(* No append, completion or promotion clears the rows of a tab: what       *)
(* BeginStreaming clears is empty or was given up by the user.  Again no   *)
(* second launch may intervene in a dialog, for the answer of the prompt   *)
(* works on the tab that is active by then.                                *)
THEOREM RowsStay ==
    ASSUME ~ForwardInDialog PROVE QueueSpec => AppendKeepsRows
<1>1. QueueInv /\ [QueueNext]_queueVars =>
        [\A s \in Sessions : closed \/ s \in given' \/ ses[s].rows \subseteq ses'[s].rows]_queueVars
  BY QueueStep DEF SafeStep, RowsKept
<1> QED BY <1>1, QueueInvariant, PTL DEF QueueSpec, AppendKeepsRows

-----------------------------------------------------------------------------
(* Lists of paths.                                                         *)
(* A set of numbers that is not empty has a least one, and a greatest when *)
(* it is bounded.                                                          *)
LEMMA LeastNat ==
    ASSUME NEW T \in SUBSET Nat, T # {}
    PROVE  \E m \in T : \A k \in T : m <= k
<1> DEFINE R == OpToRel(<, Nat)
<1>1. PICK m \in T : \A k \in T : ~ (<<k, m>> \in R)
  <2>1. IsWellFoundedOn(R, Nat)
    BY NatLessThanWellFounded
  <2> QED BY <2>1, WFMin, Zenon
<1>2. \A k, n \in Nat : k < n => <<k, n>> \in R
  BY DEF OpToRel
<1> HIDE DEF R
<1>3. \A k \in T : ~ (k < m) /\ k \in Nat /\ m \in Nat
  BY <1>1, <1>2
<1> QED BY <1>3

LEMMA NoBadNumber ==
    ASSUME NEW Bad \in SUBSET Nat, 0 \notin Bad, \A n \in Nat : n \notin Bad => n + 1 \notin Bad
    PROVE  Bad = {}
<1> SUFFICES ASSUME Bad # {} PROVE FALSE
  OBVIOUS
<1>1. PICK m \in Bad : \A k \in Bad : m <= k
  BY LeastNat
<1>2. m - 1 \in Nat /\ m - 1 \notin Bad /\ (m - 1) + 1 = m
  BY <1>1
<1> QED BY <1>1, <1>2

LEMMA Greatest ==
    ASSUME NEW n \in Nat, NEW s \in SUBSET (1..n), s # {}
    PROVE  /\ Max(s) \in s /\ Max(s) \in 1..n
           /\ \A y \in s : y <= Max(s)
           /\ \A k \in Nat : n = k + 1 => s \ {Max(s)} \subseteq 1..k
<1> DEFINE T == {n - x : x \in s}
<1>1. T \in SUBSET Nat /\ T # {}
  <2>1. \A x \in s : n - x \in Nat
    OBVIOUS
  <2> QED BY <2>1
<1>2. PICK m \in T : \A k \in T : m <= k
  <2> HIDE DEF T
  <2> QED BY <1>1, LeastNat
<1>3. PICK x \in s : m = n - x
  BY <1>2
<1>4. \A y \in s : x >= y
  <2> SUFFICES ASSUME NEW y \in s PROVE x >= y
    OBVIOUS
  <2>1. n - x <= n - y /\ x \in Nat /\ y \in Nat
    BY <1>2, <1>3
  <2> QED BY <2>1
<1>5. Max(s) \in s /\ \A y \in s : Max(s) >= y
  BY <1>4, <1>3 DEF Max
<1>6. \A y \in s : y <= Max(s) /\ y \in 1..n
  BY <1>5
<1>7. ASSUME NEW k \in Nat, n = k + 1 PROVE s \ {Max(s)} \subseteq 1..k
  <2> SUFFICES ASSUME NEW y \in s, y # Max(s) PROVE y \in 1..k
    OBVIOUS
  <2>1. y \in 1..n /\ y <= Max(s) /\ Max(s) \in 1..n
    BY <1>5, <1>6
  <2> HIDE DEF Max
  <2> QED BY <1>7, <2>1
<1> QED BY <1>5, <1>6, <1>7

(* g lists the paths at every set of places, the way FoldLeft does.        *)
AddsPath(g, s, paths, S, once) ==
    IF s = {} THEN <<>>
    ELSE IF paths[Max(s)] \notin S \/ (once /\ paths[Max(s)] \in Range(g[s \ {Max(s)}]))
         THEN g[s \ {Max(s)}] ELSE Append(g[s \ {Max(s)}], paths[Max(s)])

Lists(g, paths, S, once) == g = [s \in SUBSET DOMAIN paths |-> AddsPath(g, s, paths, S, once)]

LEMMA ListsExist ==
    ASSUME NEW paths \in Seq(Files), NEW S, NEW once
    PROVE  \E g : Lists(g, paths, S, once)
<1> DEFINE Fits(h, n) == h = [s \in SUBSET (1..n) |-> AddsPath(h, s, paths, S, once)]
           Bad == {n \in Nat : ~ \E h : Fits(h, n)}
<1>1. 0 \notin Bad
  <2> DEFINE h == [s \in SUBSET (1..0) |-> <<>>]
  <2>1. \A s \in SUBSET (1..0) : s = {}
    OBVIOUS
  <2>2. Fits(h, 0)
    BY <2>1 DEF AddsPath
  <2> QED BY <2>2
<1>2. ASSUME NEW n \in Nat, n \notin Bad
      PROVE  n + 1 \notin Bad
  <2>1. PICK h : Fits(h, n)
    BY <1>2
  <2> DEFINE g == [s \in SUBSET (1..(n + 1)) |-> AddsPath(h, s, paths, S, once)]
  <2>2. ASSUME NEW s \in SUBSET (1..(n + 1)), s # {}
        PROVE  g[s \ {Max(s)}] = h[s \ {Max(s)}]
    <3>1. s \ {Max(s)} \in SUBSET (1..n) /\ s \ {Max(s)} \in SUBSET (1..(n + 1))
      BY <2>2, Greatest, n + 1 \in Nat
    <3>2. h[s \ {Max(s)}] = AddsPath(h, s \ {Max(s)}, paths, S, once)
      BY <2>1, <3>1
    <3> QED BY <3>1, <3>2
  <2>3. ASSUME NEW s \in SUBSET (1..(n + 1))
        PROVE  g[s] = AddsPath(g, s, paths, S, once)
    <3>1. CASE s = {}
      BY <3>1 DEF AddsPath
    <3>2. CASE s # {}
      <4>1. g[s] = AddsPath(h, s, paths, S, once)
        OBVIOUS
      <4> HIDE DEF g
      <4> QED BY <3>2, <2>2, <4>1 DEF AddsPath, g
    <3> QED BY <3>1, <3>2
  <2>4. Fits(g, n + 1)
    <3> HIDE DEF AddsPath
    <3>1. DOMAIN g = SUBSET (1..(n + 1)) /\ g = [s \in SUBSET (1..(n + 1)) |-> g[s]]
      OBVIOUS
    <3> HIDE DEF g
    <3> QED BY <2>3, <3>1
  <2> QED BY <2>4
<1>3. Bad = {}
  <2>1. Bad \in SUBSET Nat
    OBVIOUS
  <2> HIDE DEF Bad
  <2> QED BY <1>1, <1>2, <2>1, NoBadNumber
<1>4. PICK h : Fits(h, Len(paths))
  <2>1. Len(paths) \in Nat /\ Len(paths) \notin Bad
    <3> HIDE DEF Bad
    <3> QED BY <1>3
  <2> QED BY <2>1
<1>5. DOMAIN paths = 1..Len(paths)
  OBVIOUS
<1>6. h = [s \in SUBSET DOMAIN paths |-> AddsPath(h, s, paths, S, once)]
  BY <1>4, <1>5
<1> QED BY <1>6 DEF Lists

LEMMA ListedIs ==
    ASSUME NEW paths \in Seq(Files), NEW S, NEW once
    PROVE  \E g : Lists(g, paths, S, once) /\ Listed(paths, S, once) = g[DOMAIN paths]
<1> DEFINE P(f) == f = [s \in SUBSET DOMAIN paths |->
                          IF s = {} THEN <<>>
                          ELSE IF paths[Max(s)] \notin S \/ (once /\ paths[Max(s)] \in Range(f[s \ {Max(s)}]))
                               THEN f[s \ {Max(s)}] ELSE Append(f[s \ {Max(s)}], paths[Max(s)])]
           g == CHOOSE f : P(f)
<1>1. ASSUME NEW f PROVE P(f) <=> Lists(f, paths, S, once)
  BY DEF Lists, AddsPath
<1>2. P(g)
  <2>1. PICK h : Lists(h, paths, S, once)
    BY ListsExist
  <2>2. P(h)
    BY <1>1, <2>1
  <2> HIDE DEF P
  <2> QED BY <2>2
<1>3. Listed(paths, S, once) = g[DOMAIN paths]
  BY DEF Listed, FoldLeft, MapThenFoldSet
<1> QED BY <1>1, <1>2, <1>3

LEMMA ListsTyped ==
    ASSUME NEW paths \in Seq(Files), NEW S, NEW once, NEW g, Lists(g, paths, S, once)
    PROVE  g[DOMAIN paths] \in Seq(Files)
<1> DEFINE Bad == {n \in Nat : n <= Len(paths) /\ \E s \in SUBSET (1..n) : g[s] \notin Seq(Files)}
<1>1. 0 \notin Bad
  <2>1. \A s \in SUBSET (1..0) : s = {} /\ s \in SUBSET DOMAIN paths
    OBVIOUS
  <2>2. {} \in SUBSET DOMAIN paths /\ g[{}] = AddsPath(g, {}, paths, S, once)
    BY DEF Lists
  <2>3. <<>> \in Seq(Files) /\ g[{}] = <<>>
    BY <2>2 DEF AddsPath
  <2> QED BY <2>1, <2>3
<1>2. ASSUME NEW n \in Nat, n \notin Bad
      PROVE  n + 1 \notin Bad
  <2> SUFFICES ASSUME n + 1 <= Len(paths), NEW s \in SUBSET (1..(n + 1)) PROVE g[s] \in Seq(Files)
    OBVIOUS
  <2>1. s \in SUBSET DOMAIN paths
    OBVIOUS
  <2>2. g[s] = AddsPath(g, s, paths, S, once)
    BY <2>1 DEF Lists
  <2>3. CASE s = {}
    BY <2>2, <2>3 DEF AddsPath
  <2>4. CASE s # {}
    <3>1. s \ {Max(s)} \in SUBSET (1..n) /\ Max(s) \in DOMAIN paths
      BY <2>1, <2>4, Greatest, n + 1 \in Nat
    <3>2. g[s \ {Max(s)}] \in Seq(Files)
      BY <1>2, <3>1
    <3>3. paths[Max(s)] \in Files
      BY <3>1
    <3> QED BY <2>2, <2>4, <3>2, <3>3 DEF AddsPath
  <2> QED BY <2>3, <2>4
<1>3. Bad = {}
  <2>1. Bad \in SUBSET Nat
    OBVIOUS
  <2> HIDE DEF Bad
  <2> QED BY <1>1, <1>2, <2>1, NoBadNumber
<1> QED BY <1>3

LEMMA ListedTyped ==
    ASSUME NEW paths \in Seq(Files), NEW S, NEW once
    PROVE  Listed(paths, S, once) \in Seq(Files)
BY ListedIs, ListsTyped

Flattens(g, n, seqs) == g = [i \in 1..n |-> IF i = 1 THEN seqs[i] ELSE g[i - 1] \o seqs[i]]

LEMMA FlattensExist ==
    ASSUME NEW seqs, NEW n \in Nat
    PROVE  \E g : Flattens(g, n, seqs)
<1> DEFINE Bad == {k \in Nat : ~ \E h : Flattens(h, k, seqs)}
<1>1. 0 \notin Bad
  <2> DEFINE h == [i \in 1..0 |-> <<>>]
  <2>1. Flattens(h, 0, seqs)
    BY DEF Flattens
  <2> QED BY <2>1
<1>2. ASSUME NEW k \in Nat, k \notin Bad
      PROVE  k + 1 \notin Bad
  <2>1. PICK h : Flattens(h, k, seqs)
    BY <1>2
  <2> DEFINE g == [i \in 1..(k + 1) |-> IF i = 1 THEN seqs[i] ELSE h[i - 1] \o seqs[i]]
  <2>2. ASSUME NEW i \in 1..(k + 1), i # 1
        PROVE  g[i - 1] = h[i - 1]
    <3>1. i - 1 \in 1..k /\ i - 1 \in 1..(k + 1)
      BY <2>2
    <3>2. h[i - 1] = IF i - 1 = 1 THEN seqs[i - 1] ELSE h[(i - 1) - 1] \o seqs[i - 1]
      BY <2>1, <3>1 DEF Flattens
    <3> QED BY <3>1, <3>2
  <2>3. DOMAIN g = 1..(k + 1) /\ g = [i \in 1..(k + 1) |-> g[i]]
    OBVIOUS
  <2>4. \A i \in 1..(k + 1) : g[i] = IF i = 1 THEN seqs[i] ELSE g[i - 1] \o seqs[i]
    <3>1. \A i \in 1..(k + 1) : g[i] = IF i = 1 THEN seqs[i] ELSE h[i - 1] \o seqs[i]
      OBVIOUS
    <3> HIDE DEF g
    <3> QED BY <2>2, <3>1
  <2> HIDE DEF g
  <2>5. Flattens(g, k + 1, seqs)
    BY <2>3, <2>4 DEF Flattens
  <2> QED BY <2>5
<1>3. Bad = {}
  <2>1. Bad \in SUBSET Nat
    OBVIOUS
  <2> HIDE DEF Bad
  <2> QED BY <1>1, <1>2, <2>1, NoBadNumber
<1>4. n \notin Bad
  <2> HIDE DEF Bad
  <2> QED BY <1>3
<1> QED BY <1>4

LEMMA FlattensTyped ==
    ASSUME NEW seqs \in Seq(Seq(Files)), NEW g, Flattens(g, Len(seqs), seqs)
    PROVE  \A i \in 1..Len(seqs) : g[i] \in Seq(Files)
<1> DEFINE Bad == {k \in Nat : k \in 1..Len(seqs) /\ g[k] \notin Seq(Files)}
<1>1. 0 \notin Bad
  OBVIOUS
<1>2. ASSUME NEW k \in Nat, k \notin Bad
      PROVE  k + 1 \notin Bad
  <2> SUFFICES ASSUME k + 1 \in 1..Len(seqs) PROVE g[k + 1] \in Seq(Files)
    OBVIOUS
  <2>1. g[k + 1] = IF k + 1 = 1 THEN seqs[k + 1] ELSE g[(k + 1) - 1] \o seqs[k + 1]
    BY DEF Flattens
  <2>2. seqs[k + 1] \in Seq(Files) /\ (k + 1) - 1 = k
    OBVIOUS
  <2>3. k + 1 # 1 => g[k] \in Seq(Files)
    BY <1>2
  <2> QED BY <2>1, <2>2, <2>3
<1>3. Bad = {}
  <2>1. Bad \in SUBSET Nat
    OBVIOUS
  <2> HIDE DEF Bad
  <2> QED BY <1>1, <1>2, <2>1, NoBadNumber
<1> QED BY <1>3

LEMMA FlattenedTyped ==
    ASSUME NEW seqs \in Seq(Seq(Files)), Len(seqs) # 0
    PROVE  FlattenSeq(seqs) \in Seq(Files)
<1> DEFINE P(f) == f = [i \in 1..Len(seqs) |-> IF i = 1 THEN seqs[i] ELSE f[i - 1] \o seqs[i]]
           g == CHOOSE f : P(f)
<1>1. \E f : P(f)
  <2>1. Len(seqs) \in Nat
    OBVIOUS
  <2>2. PICK h : Flattens(h, Len(seqs), seqs)
    BY <2>1, FlattensExist
  <2> QED BY <2>2 DEF Flattens
<1>2. P(g)
  <2> HIDE DEF P
  <2> QED BY <1>1
<1>3. FlattenSeq(seqs) = g[Len(seqs)]
  BY DEF FlattenSeq
<1>4. Flattens(g, Len(seqs), seqs)
  BY <1>2 DEF Flattens
<1> HIDE DEF g
<1> QED BY <1>3, <1>4, FlattensTyped

LEMMA ExpandedTyped ==
    ASSUME NEW files \in Seq(Files), NEW loaded
    PROVE  ExpandLogPathsWithRotationSiblings(files, loaded) \in Seq(Files)
<1> DEFINE logs == Listed(files, Files \ Bundles, FALSE)
           fams == [i \in DOMAIN logs |-> Append(Siblings[logs[i]], logs[i])]
           all == FlattenSeq(fams)
<1>1. logs \in Seq(Files)
  BY ListedTyped
<1>2. ASSUME logs # <<>> PROVE all \in Seq(Files)
  <2> HIDE DEF logs
  <2>1. \A i \in DOMAIN logs : Append(Siblings[logs[i]], logs[i]) \in Seq(Files)
    BY <1>1, OpenQueueAssumption
  <2>2. PICK n \in Nat : n = Len(logs) /\ n # 0 /\ DOMAIN logs = 1..n
    BY <1>1, <1>2
  <2>3. fams \in [1..n -> Seq(Files)]
    BY <2>1, <2>2
  <2>4. fams \in Seq(Seq(Files)) /\ Len(fams) = n
    <3> HIDE DEF fams
    <3> QED BY <2>3
  <2> HIDE DEF fams
  <2> QED BY <2>2, <2>4, FlattenedTyped
<1>3. logs # <<>> => Listed(all, Files \ loaded, TRUE) \in Seq(Files)
  <2> HIDE DEF logs, all
  <2> QED BY <1>2, ListedTyped
<1>4. Listed(files, Bundles, FALSE) \in Seq(Files)
  BY ListedTyped
<1>5. ExpandLogPathsWithRotationSiblings(files, loaded)
        = IF logs = <<>> THEN files ELSE Listed(all, Files \ loaded, TRUE) \o Listed(files, Bundles, FALSE)
  BY DEF ExpandLogPathsWithRotationSiblings
<1> DEFINE first == Listed(all, Files \ loaded, TRUE)
           last == Listed(files, Bundles, FALSE)
<1>6. first \in Seq(Files) /\ last \in Seq(Files) => first \o last \in Seq(Files)
  <2> HIDE DEF first, last
  <2> QED OBVIOUS
<1> HIDE DEF logs, all
<1> QED BY <1>3, <1>4, <1>5, <1>6

-----------------------------------------------------------------------------
(* What every session is, and what its source names.                       *)
Source == [kind: {"none", "File", "Stream"}, locs: Seq(Files)]

(* An undo that starts a tail names the file to tail.                      *)
UndoTyped(u) == u \in [files: Seq(Files), tail: BOOLEAN] /\ (u.tail => u.files # <<>>)

Typed(r) == r \in Session /\ UndoTyped(r.undo)

(* The locators of a file session name the files of its rows and the one   *)
(* its parser reads.                                                       *)
Named(r) ==
    r.src.kind = "File" /\ ~r.disowned =>
        /\ r.rows \subseteq Range(r.src.locs)
        /\ r.worker # NoFile => r.worker \in Range(r.src.locs)

(* A session whose source will be the live tail has no rows yet that the   *)
(* source would not name.                                                  *)
TailNamed(r) ==
    r.promo # NoFile =>
        /\ r.src.kind # "Stream"
        /\ r.src.kind = "none" /\ ~r.disowned => r.rows = {} /\ r.worker = NoFile /\ r.mode = "Idle"

Covered(r) == Named(r) /\ TailNamed(r)

(* What waits in the queue will be taken by what is at work.               *)
Waits(r) == r.queue # <<>> => InFlight(r)

(* What a handler makes of a session.                                      *)
Sound(r, t) == Typed(t) /\ (Covered(r) => Covered(t))

LEMMA WithLocatorNames ==
    ASSUME NEW src \in Source, NEW f \in Files
    PROVE  LET s == WithLocator(src, f)
           IN  s \in Source /\ s.kind = src.kind /\ Range(src.locs) \subseteq Range(s.locs) /\ f \in Range(s.locs)
<1>1. CASE f \in Range(src.locs)
  BY <1>1 DEF WithLocator
<1>2. CASE f \notin Range(src.locs)
  <2> DEFINE l == src.locs
             m == Append(l, f)
  <2>1. WithLocator(src, f) = [src EXCEPT !.locs = m]
    BY <1>2 DEF WithLocator
  <2>2. l \in Seq(Files) /\ m \in Seq(Files) /\ Range(l) \subseteq Range(m) /\ f \in Range(m)
    <3>1. l \in Seq(Files)
      BY DEF Source
    <3> HIDE DEF l
    <3>2. PICK n \in Nat : n = Len(l) /\ DOMAIN l = 1..n
      BY <3>1
    <3>3. m \in Seq(Files) /\ DOMAIN m = 1..(n + 1) /\ m[n + 1] = f /\ \A i \in 1..n : m[i] = l[i]
      BY <3>1, <3>2
    <3> HIDE DEF m
    <3>4. \A i \in 1..n : i \in DOMAIN m /\ l[i] = m[i]
      BY <3>3
    <3>5. n + 1 \in DOMAIN m
      BY <3>3
    <3>6. f \in Range(m)
      BY <3>3, <3>5 DEF Range
    <3>7. Range(l) \subseteq Range(m)
      <4> HIDE DEF l
      <4> SUFFICES ASSUME NEW x \in Range(l) PROVE x \in Range(m)
        OBVIOUS
      <4>1. PICK i \in 1..n : x = l[i]
        BY <3>2 DEF Range
      <4> QED BY <3>4, <4>1 DEF Range
    <3> QED BY <3>1, <3>3, <3>6, <3>7
  <2> HIDE DEF m
  <2>3. [src EXCEPT !.locs = m] \in Source /\ [src EXCEPT !.locs = m].kind = src.kind
        /\ [src EXCEPT !.locs = m].locs = m
    BY <2>2 DEF Source
  <2> QED BY <2>1, <2>2, <2>3
<1> QED BY <1>1, <1>2

LEMMA FileSourceNames ==
    ASSUME NEW f \in Files
    PROVE  FileSource(<<f>>) \in Source /\ FileSource(<<f>>).kind = "File" /\ f \in Range(FileSource(<<f>>).locs)
<1>1. <<f>> \in Seq(Files) /\ f \in Range(<<f>>)
  BY DEF Range
<1> QED BY <1>1 DEF FileSource, Source

LEMMA PreparedSound ==
    ASSUME NEW r, Typed(r), NEW f \in Files
    PROVE  Sound(r, ContinueOpenAfterPrepared(r, f)) /\ InFlight(ContinueOpenAfterPrepared(r, f))
<1> DEFINE t == ContinueOpenAfterPrepared(r, f)
           named == IF r.src.kind = "File" THEN WithLocator(r.src, f) ELSE r.src
<1>1. r \in Session /\ r.src \in Source /\ f # NoFile /\ f \in OrNone
  BY OpenQueueAssumption DEF Typed, Session, Source, OrNone
<1>2. /\ named \in Source /\ named.kind = r.src.kind
      /\ named.kind = "File" => Range(r.src.locs) \subseteq Range(named.locs) /\ f \in Range(named.locs)
  BY <1>1, WithLocatorNames
<1>3. CASE ~IsSessionActive(r)
  <2> DEFINE src == FileSource(<<f>>)
  <2>1. t = [[r EXCEPT !.src = src, !.mode = "Static"] EXCEPT
                 !.worker = f, !.rows = {}, !.disowned = FALSE, !.clash = @ \/ IsStreamingActive(r)]
    BY <1>3 DEF ContinueOpenAfterPrepared, BeginStreaming, IsStreamingActive
  <2>2. src \in Source /\ src.kind = "File" /\ f \in Range(src.locs)
    BY FileSourceNames
  <2> HIDE DEF src, t
  <2>3. t \in Session
    BY <1>1, <2>1, <2>2 DEF Session, Source, IsStreamingActive
  <2>4. t.src = src /\ t.worker = f /\ t.rows = {} /\ t.undo = r.undo
    BY <1>1, <2>1 DEF Session
  <2>5. Sound(r, t) /\ InFlight(t)
    BY <1>1, <2>2, <2>3, <2>4 DEF Sound, Typed, Covered, Named, TailNamed, InFlight, IsStreamingActive
  <2> QED BY <2>5 DEF t
<1>4. CASE IsSessionActive(r)
  <2>1. t = [[r EXCEPT !.src = named] EXCEPT !.worker = f, !.clash = @ \/ IsStreamingActive(r)]
    BY <1>4 DEF ContinueOpenAfterPrepared, AppendStreaming, IsStreamingActive
  <2> HIDE DEF named, t
  <2>2. t \in Session
    BY <1>1, <1>2, <2>1 DEF Session, Source, IsStreamingActive
  <2>3. /\ t.src = named /\ t.worker = f /\ t.rows = r.rows /\ t.undo = r.undo /\ t.disowned = r.disowned
        /\ t.promo = r.promo /\ t.mode = r.mode
    BY <1>1, <2>1 DEF Session
  <2>4. Covered(r) => Covered(t)
    BY <1>1, <1>2, <1>4, <2>3 DEF Covered, Named, TailNamed, IsSessionActive
  <2>5. Sound(r, t) /\ InFlight(t)
    BY <1>1, <2>2, <2>3, <2>4 DEF Sound, Typed, InFlight, IsStreamingActive
  <2> QED BY <2>5 DEF t
<1> QED BY <1>3, <1>4

LEMMA TailSound ==
    ASSUME NEW r, Typed(r)
    PROVE  LET t == ContinueLiveTailAfterPrefix(r)
           IN  Sound(r, t) /\ t.queue = r.queue /\ (InFlight(r) => InFlight(t))
<1> DEFINE p == r.promo
           taken == [r EXCEPT !.promo = NoFile]
           src == IF r.src.kind = "File" THEN WithLocator(r.src, p) ELSE FileSource(<<p>>)
           t == ContinueLiveTailAfterPrefix(r)
<1>1. r \in Session /\ r.src \in Source /\ p \in OrNone /\ UndoTyped(r.undo)
  BY DEF Typed, Session, Source
<1>2. CASE p = NoFile
  BY <1>2, NoTailNoStep DEF Sound
<1>3. CASE p # NoFile /\ p \in Missing
  <2> DEFINE mode == IF r.rows # {} THEN "Static" ELSE "Idle"
  <2>1. t = [[r EXCEPT !.promo = NoFile] EXCEPT !.mode = mode]
    BY <1>3 DEF ContinueLiveTailAfterPrefix
  <2>2. mode \in {"Static", "Idle"} /\ NoFile \in OrNone
    BY DEF OrNone
  <2> HIDE DEF t, mode
  <2>3. t \in Session
    BY <1>1, <2>1, <2>2 DEF Session
  <2>4. /\ t.src = r.src /\ t.worker = r.worker /\ t.rows = r.rows /\ t.undo = r.undo /\ t.disowned = r.disowned
        /\ t.promo = NoFile /\ t.queue = r.queue /\ t.unzip = r.unzip
    BY <1>1, <2>1 DEF Session
  <2>5. Sound(r, t) /\ t.queue = r.queue /\ (InFlight(r) => InFlight(t))
    BY <1>1, <2>3, <2>4 DEF Sound, Typed, Covered, Named, TailNamed, InFlight, IsStreamingActive
  <2> QED BY <2>5 DEF t
<1>4. CASE p # NoFile /\ p \notin Missing
  <2>1. p \in Files /\ NoFile \in OrNone
    BY <1>1, <1>4 DEF OrNone
  <2>2. /\ src \in Source /\ src.kind = "File" /\ p \in Range(src.locs)
        /\ r.src.kind = "File" => Range(r.src.locs) \subseteq Range(src.locs)
    BY <1>1, <2>1, WithLocatorNames, FileSourceNames
  <2> DEFINE armed == [[r EXCEPT !.promo = NoFile] EXCEPT !.mode = "LiveTail", !.src = src]
  <2>3. /\ t = AppendStreaming(armed, p) \/ (t = BeginStreaming(armed, p) /\ r.rows = {})
    BY <1>4 DEF ContinueLiveTailAfterPrefix
  <2> HIDE DEF src
  <2>4. armed \in Session
    BY <1>1, <2>1, <2>2 DEF Session, Source
  <2>5. /\ armed.src = src /\ armed.worker = r.worker /\ armed.rows = r.rows /\ armed.undo = r.undo /\ armed.disowned = r.disowned
        /\ armed.promo = NoFile /\ armed.queue = r.queue
    BY <1>1 DEF Session
  <2> HIDE DEF armed, t
  <2>6. /\ t \in Session /\ t.src = src /\ t.worker = p /\ t.rows = r.rows /\ t.undo = r.undo
        /\ t.promo = NoFile /\ t.queue = r.queue /\ (t.disowned = r.disowned \/ r.rows = {})
    <3>1. CASE t = AppendStreaming(armed, p)
      BY <1>1, <2>4, <2>5, <3>1 DEF AppendStreaming, Session, IsStreamingActive
    <3>2. CASE t = BeginStreaming(armed, p) /\ r.rows = {}
      BY <1>1, <2>4, <2>5, <3>2 DEF BeginStreaming, Session, IsStreamingActive
    <3> QED BY <2>3, <3>1, <3>2
  <2>7. Sound(r, t) /\ t.queue = r.queue /\ (InFlight(r) => InFlight(t))
    BY <1>1, <1>4, <2>2, <2>6 DEF Sound, Typed, Covered, Named, TailNamed, InFlight, IsStreamingActive, Source
  <2> QED BY <2>7 DEF t
<1> QED BY <1>2, <1>3, <1>4

LEMMA FirstToOpen ==
    ASSUME NEW q \in Seq(Files), NEW start, start = SelectInSeq(q, LAMBDA f : f \notin Missing)
    PROVE  /\ start = 0 \/ (start \in 1..Len(q) /\ q[start] \in Files /\ SubSeq(q, start + 1, Len(q)) \in Seq(Files))
           /\ (Range(q) \subseteq Files /\ {q[i] : i \in 1..(start - 1)} \subseteq Files) \/ start = 0
           /\ start = 0 => Range(q) \subseteq Files
<1> DEFINE I == {i \in 1..Len(q) : q[i] \notin Missing}
<1>1. start = IF I # {} THEN Min(I) ELSE 0
  BY DEF SelectInSeq
<1>2. Range(q) \subseteq Files
  BY DEF Range
<1>3. CASE I = {}
  BY <1>1, <1>2, <1>3
<1>4. CASE I # {}
  <2>1. PICK m \in I : \A k \in I : m <= k
    <3>1. I \in SUBSET Nat
      OBVIOUS
    <3> HIDE DEF I
    <3> QED BY <1>4, <3>1, LeastNat
  <2>2. start \in I
    BY <1>1, <1>4, <2>1 DEF Min
  <2>3. start \in 1..Len(q)
    BY <2>2
  <2> HIDE DEF I
  <2>4. PICK n \in Nat : n = Len(q) /\ start \in 1..n /\ \A i \in 1..n : q[i] \in Files
    <3> HIDE DEF I
    <3>1. Len(q) \in Nat
      OBVIOUS
    <3>2. \A i \in 1..Len(q) : q[i] \in Files
      OBVIOUS
    <3> QED BY <2>3, <3>1, <3>2
  <2>5. \A i \in 1..(start - 1) : i \in 1..n
    BY <2>4
  <2>6. SubSeq(q, start + 1, Len(q)) \in Seq(Files)
    <3>1. start + 1 \in Int /\ n \in Int /\ \A i \in (start + 1)..n : q[i] \in Files
      <4>1. start + 1 \in Int /\ n \in Int
        BY <2>4
      <4>2. \A i \in (start + 1)..n : i \in 1..n
        BY <2>4
      <4> QED BY <2>4, <4>1, <4>2
    <3>2. SubSeq(q, start + 1, n) \in Seq(Files)
      BY <3>1, SubSeqProperties
    <3> QED BY <2>4, <3>2
  <2> QED BY <1>2, <2>3, <2>4, <2>5, <2>6
<1> QED BY <1>3, <1>4

LEMMA StreamNextSound ==
    ASSUME NEW r, Typed(r)
    PROVE  Sound(r, StreamNextPendingFile(r)) /\ Waits(StreamNextPendingFile(r))
<1> DEFINE q == r.queue
           start == SelectInSeq(q, LAMBDA f : f \notin Missing)
           tried == IF start = 0 THEN Range(q) ELSE {q[i] : i \in 1..(start - 1)}
           rest == IF start = 0 THEN <<>> ELSE SubSeq(q, start + 1, Len(q))
           after == [r EXCEPT !.queue = rest, !.openErrors = @ \cup tried]
           t == StreamNextPendingFile(r)
<1> SUFFICES Sound(r, t) /\ Waits(t)
  OBVIOUS
<1>1. \/ start = 0 /\ t = after
      \/ start = 0 /\ t = ShowErrors(ContinueLiveTailAfterPrefix(after))
      \/ start # 0 /\ t = [after EXCEPT !.unzip = q[start]]
      \/ start # 0 /\ t = ContinueOpenAfterPrepared(after, q[start])
  BY DEF StreamNextPendingFile
<1>2. r \in Session /\ q \in Seq(Files) /\ UndoTyped(r.undo)
  BY DEF Typed, Session
<1>3. rest \in Seq(Files) /\ tried \subseteq Files /\ (start # 0 => q[start] \in Files) /\ (start = 0 => rest = <<>>)
  <2> HIDE DEF q
  <2>1. start = 0 \/ (start \in 1..Len(q) /\ q[start] \in Files /\ SubSeq(q, start + 1, Len(q)) \in Seq(Files))
    BY <1>2, FirstToOpen
  <2>2. tried \subseteq Files
    BY <1>2, FirstToOpen
  <2> HIDE DEF start
  <2>3. <<>> \in Seq(Files)
    OBVIOUS
  <2> QED BY <2>1, <2>2, <2>3
<1> HIDE DEF rest, tried, start
<1>4. after \in Session
  BY <1>2, <1>3 DEF Session
<1>5. /\ after.src = r.src /\ after.worker = r.worker /\ after.rows = r.rows /\ after.undo = r.undo
      /\ after.disowned = r.disowned /\ after.promo = r.promo /\ after.mode = r.mode /\ after.queue = rest
  BY <1>2 DEF Session
<1> HIDE DEF after, t, q
<1>6. Typed(after) /\ (Covered(r) => Covered(after))
  BY <1>2, <1>4, <1>5 DEF Typed, Covered, Named, TailNamed
<1>7. CASE start = 0 /\ t = after
  BY <1>3, <1>5, <1>6, <1>7 DEF Sound, Waits
<1>8. CASE start = 0 /\ t = ShowErrors(ContinueLiveTailAfterPrefix(after))
  <2> DEFINE u == ContinueLiveTailAfterPrefix(after)
  <2>1. Sound(after, u) /\ u.queue = rest
    BY <1>5, <1>6, TailSound
  <2>2. t = [u EXCEPT !.openErrors = {}, !.unzipErrors = {}] /\ u \in Session
    BY <1>8, <2>1 DEF ShowErrors, Sound, Typed
  <2> HIDE DEF u
  <2>3. t \in Session
    BY <2>2 DEF Session
  <2>4. /\ t.src = u.src /\ t.worker = u.worker /\ t.rows = u.rows /\ t.undo = u.undo
        /\ t.disowned = u.disowned /\ t.promo = u.promo /\ t.mode = u.mode /\ t.queue = u.queue
    BY <2>2 DEF Session
  <2> QED BY <1>3, <1>6, <1>8, <2>1, <2>3, <2>4 DEF Sound, Typed, Covered, Named, TailNamed, Waits
<1>9. CASE start # 0 /\ t = [after EXCEPT !.unzip = q[start]]
  <2>1. q[start] \in OrNone /\ q[start] # NoFile
    BY <1>3, <1>9, OpenQueueAssumption DEF OrNone
  <2>2. t \in Session
    BY <1>4, <1>9, <2>1 DEF Session
  <2>3. /\ t.src = after.src /\ t.worker = after.worker /\ t.rows = after.rows /\ t.undo = after.undo
        /\ t.disowned = after.disowned /\ t.promo = after.promo /\ t.mode = after.mode /\ t.unzip = q[start]
    BY <1>4, <1>9 DEF Session
  <2> QED BY <1>6, <2>1, <2>2, <2>3 DEF Sound, Typed, Covered, Named, TailNamed, Waits, InFlight
<1>10. CASE start # 0 /\ t = ContinueOpenAfterPrepared(after, q[start])
  BY <1>3, <1>6, <1>10, PreparedSound DEF Sound, Waits
<1> QED BY <1>1, <1>7, <1>8, <1>9, <1>10

(* A handler's bookkeeping: it changes neither what is shown, nor where    *)
(* it comes from, nor what is due.                                         *)
LEMMA SavedSound ==
    ASSUME NEW r, Typed(r), NEW mode
    PROVE  LET t == AutoSaveSessionSnapshot(r, mode)
           IN  Sound(r, t) /\ t.queue = r.queue /\ t.worker = r.worker /\ t.unzip = r.unzip
<1> DEFINE t == AutoSaveSessionSnapshot(r, mode)
           b == r.published \/ (r.src.kind = "File" /\ mode # "LiveTail")
<1>1. r \in Session /\ UndoTyped(r.undo)
  BY DEF Typed
<1>2. t = [r EXCEPT !.published = b]
  BY DEF AutoSaveSessionSnapshot
<1>3. b \in BOOLEAN
  OBVIOUS
<1> HIDE DEF t, b
<1>4. t \in Session
  BY <1>1, <1>2, <1>3 DEF Session
<1>5. /\ t.src = r.src /\ t.worker = r.worker /\ t.rows = r.rows /\ t.undo = r.undo /\ t.unzip = r.unzip
      /\ t.disowned = r.disowned /\ t.promo = r.promo /\ t.mode = r.mode /\ t.queue = r.queue
  BY <1>1, <1>2 DEF Session
<1>6. Sound(r, t) /\ t.queue = r.queue /\ t.worker = r.worker /\ t.unzip = r.unzip
  BY <1>1, <1>4, <1>5 DEF Sound, Typed, Covered, Named, TailNamed
<1> QED BY <1>6 DEF t

LEMMA ShownSound ==
    ASSUME NEW r, Typed(r), NEW mode \in {r.mode, "Idle"}
    PROVE  LET t == ShowErrors([r EXCEPT !.mode = mode])
           IN  Sound(r, t) /\ t.queue = r.queue /\ t.worker = r.worker /\ t.unzip = r.unzip
<1> DEFINE u == [r EXCEPT !.mode = mode]
           t == ShowErrors(u)
<1>1. r \in Session /\ UndoTyped(r.undo)
  BY DEF Typed
<1>2. u \in Session
  BY <1>1 DEF Session
<1>3. /\ u.src = r.src /\ u.worker = r.worker /\ u.rows = r.rows /\ u.undo = r.undo /\ u.unzip = r.unzip
      /\ u.disowned = r.disowned /\ u.promo = r.promo /\ u.mode = mode /\ u.queue = r.queue
  BY <1>1 DEF Session
<1> HIDE DEF u
<1>4. t \in Session
  BY <1>2 DEF ShowErrors, Session
<1>5. /\ t.src = u.src /\ t.worker = u.worker /\ t.rows = u.rows /\ t.undo = u.undo /\ t.unzip = u.unzip
      /\ t.disowned = u.disowned /\ t.promo = u.promo /\ t.mode = u.mode /\ t.queue = u.queue
  BY <1>2 DEF ShowErrors, Session
<1> HIDE DEF t
<1>6. Sound(r, t) /\ t.queue = r.queue /\ t.worker = r.worker /\ t.unzip = r.unzip
  BY <1>1, <1>3, <1>4, <1>5 DEF Sound, Typed, Covered, Named, TailNamed
<1> QED BY <1>6 DEF t, u

LEMMA FinishedSound ==
    ASSUME NEW r, Typed(r), NEW result
    PROVE  Sound(r, OnStreamingFinished(r, result)) /\ Waits(OnStreamingFinished(r, result))
<1> DEFINE ended == [r EXCEPT !.worker = NoFile]
           next == IF result = "Success" /\ r.queue # <<>> THEN StreamNextPendingFile(ended)
                   ELSE [ended EXCEPT !.queue = <<>>]
           idle == ShowErrors([next EXCEPT !.mode = "Idle"])
           t == OnStreamingFinished(r, result)
<1> SUFFICES Sound(r, t) /\ Waits(t)
  OBVIOUS
<1>1. \/ t = next
      \/ t = [next EXCEPT !.posted = TRUE]
      \/ t = idle
      \/ t = AutoSaveSessionSnapshot(idle, next.mode)
  BY DEF OnStreamingFinished
<1>2. r \in Session /\ UndoTyped(r.undo) /\ NoFile \in OrNone
  BY DEF Typed, OrNone
<1>3. ended \in Session
  BY <1>2 DEF Session
<1>4. /\ ended.src = r.src /\ ended.worker = NoFile /\ ended.rows = r.rows /\ ended.undo = r.undo
      /\ ended.disowned = r.disowned /\ ended.promo = r.promo /\ ended.mode = r.mode
  BY <1>2 DEF Session
<1> HIDE DEF ended
<1>5. Typed(ended) /\ (Covered(r) => Covered(ended))
  BY <1>2, <1>3, <1>4 DEF Typed, Covered, Named, TailNamed
<1>6. Sound(r, next) /\ Waits(next)
  <2>1. CASE next = StreamNextPendingFile(ended)
    BY <1>5, <2>1, StreamNextSound DEF Sound
  <2>2. CASE next = [ended EXCEPT !.queue = <<>>]
    <3> HIDE DEF next
    <3>1. <<>> \in Seq(Files)
      OBVIOUS
    <3>2. next \in Session
      BY <1>3, <2>2, <3>1 DEF Session
    <3>3. /\ next.src = ended.src /\ next.worker = ended.worker /\ next.rows = ended.rows /\ next.undo = ended.undo
          /\ next.disowned = ended.disowned /\ next.promo = ended.promo /\ next.mode = ended.mode /\ next.queue = <<>>
      BY <1>3, <2>2 DEF Session
    <3> QED BY <1>5, <3>2, <3>3 DEF Sound, Typed, Covered, Named, TailNamed, Waits
  <2> QED BY <2>1, <2>2
<1> HIDE DEF next, t
<1>7. CASE t = [next EXCEPT !.posted = TRUE]
  <2>1. next \in Session
    BY <1>6 DEF Sound, Typed
  <2>2. t \in Session
    BY <1>7, <2>1 DEF Session
  <2>3. /\ t.src = next.src /\ t.worker = next.worker /\ t.rows = next.rows /\ t.undo = next.undo /\ t.unzip = next.unzip
        /\ t.disowned = next.disowned /\ t.promo = next.promo /\ t.mode = next.mode /\ t.queue = next.queue
    BY <1>7, <2>1 DEF Session
  <2> QED BY <1>6, <2>2, <2>3 DEF Sound, Typed, Covered, Named, TailNamed, Waits, InFlight, IsStreamingActive
<1>8. Sound(r, idle) /\ Waits(idle)
  <2>1. Sound(next, idle) /\ idle.queue = next.queue /\ idle.worker = next.worker /\ idle.unzip = next.unzip
    BY <1>6, ShownSound DEF Sound
  <2> HIDE DEF idle
  <2> QED BY <1>6, <2>1 DEF Sound, Waits, InFlight, IsStreamingActive
<1> HIDE DEF idle
<1>9. CASE t = AutoSaveSessionSnapshot(idle, next.mode)
  BY <1>8, <1>9, SavedSound DEF Sound, Waits, InFlight, IsStreamingActive
<1> QED BY <1>1, <1>6, <1>7, <1>8, <1>9

LEMMA UnzippedSound ==
    ASSUME NEW r, Typed(r), r.unzip # NoFile, NEW outcome
    PROVE  Sound(r, OnDecompressionFinishedFor(r, outcome)) /\ Waits(OnDecompressionFinishedFor(r, outcome))
<1> DEFINE f == r.unzip
           ended == [r EXCEPT !.unzip = NoFile]
           errors == IF outcome = "error" THEN r.unzipErrors \cup {f} ELSE r.unzipErrors
           skipped == [[r EXCEPT !.unzip = NoFile] EXCEPT !.unzipErrors = errors]
           next == StreamNextPendingFile(skipped)
           t == OnDecompressionFinishedFor(r, outcome)
<1> SUFFICES Sound(r, t) /\ Waits(t)
  OBVIOUS
<1>1. r \in Session /\ UndoTyped(r.undo) /\ NoFile \in OrNone /\ f \in Files
  BY DEF Typed, OrNone, Session
<1>2. t = ContinueOpenAfterPrepared(ended, f) \/ t = FinalizeAfterDecompressionIfChainTerminal(next)
  <2>1. skipped = [ended EXCEPT !.unzipErrors = IF outcome = "error" THEN @ \cup {f} ELSE @]
    BY <1>1 DEF Session
  <2> HIDE DEF skipped
  <2> QED BY <2>1 DEF OnDecompressionFinishedFor
<1>3. errors \subseteq Files
  BY <1>1 DEF Session
<1> HIDE DEF errors, f
<1>4. ended \in Session /\ skipped \in Session
  BY <1>1, <1>3 DEF Session
<1>5. \A u \in {ended, skipped} :
         /\ u.src = r.src /\ u.worker = r.worker /\ u.rows = r.rows /\ u.undo = r.undo
         /\ u.disowned = r.disowned /\ u.promo = r.promo /\ u.mode = r.mode
  BY <1>1 DEF Session
<1> HIDE DEF ended, skipped
<1>6. \A u \in {ended, skipped} : Typed(u) /\ (Covered(r) => Covered(u))
  BY <1>1, <1>4, <1>5 DEF Typed, Covered, Named, TailNamed
<1>7. Sound(r, next) /\ Waits(next)
  BY <1>6, StreamNextSound DEF Sound
<1> HIDE DEF next, t
<1>8. CASE t = ContinueOpenAfterPrepared(ended, f)
  BY <1>1, <1>6, <1>8, PreparedSound DEF Sound, Waits
<1>9. CASE t = FinalizeAfterDecompressionIfChainTerminal(next)
  <2> DEFINE shown == ShowErrors([next EXCEPT !.mode = "Idle"])
             plain == ShowErrors([next EXCEPT !.mode = next.mode])
  <2>1. next = [next EXCEPT !.mode = next.mode]
    BY <1>7 DEF Sound, Typed, Session
  <2>2. t = next \/ t = plain \/ t = AutoSaveSessionSnapshot(shown, next.mode)
    BY <1>9, <2>1 DEF FinalizeAfterDecompressionIfChainTerminal
  <2>3. /\ Sound(next, shown) /\ shown.queue = next.queue /\ shown.worker = next.worker /\ shown.unzip = next.unzip
        /\ Sound(next, plain) /\ plain.queue = next.queue /\ plain.worker = next.worker /\ plain.unzip = next.unzip
    BY <1>7, ShownSound DEF Sound
  <2> HIDE DEF shown, plain
  <2>4. Sound(r, shown) /\ Waits(shown) /\ Sound(r, plain) /\ Waits(plain)
    BY <1>7, <2>3 DEF Sound, Waits, InFlight, IsStreamingActive
  <2>5. CASE t = AutoSaveSessionSnapshot(shown, next.mode)
    BY <2>4, <2>5, SavedSound DEF Sound, Waits, InFlight, IsStreamingActive
  <2> QED BY <1>7, <2>2, <2>4, <2>5
<1> QED BY <1>2, <1>8, <1>9

LEMMA PromotedSound ==
    ASSUME NEW r, Typed(r), NEW t, t = ContinueLiveTailAfterPrefix([r EXCEPT !.posted = FALSE])
    PROVE  Sound(r, t) /\ (Waits(r) => Waits(t))
<1> DEFINE u == [r EXCEPT !.posted = FALSE]
<1>1. r \in Session /\ UndoTyped(r.undo)
  BY DEF Typed
<1>2. u \in Session
  BY <1>1 DEF Session
<1>3. /\ u.src = r.src /\ u.worker = r.worker /\ u.rows = r.rows /\ u.undo = r.undo /\ u.unzip = r.unzip
      /\ u.disowned = r.disowned /\ u.promo = r.promo /\ u.mode = r.mode /\ u.queue = r.queue
  BY <1>1 DEF Session
<1> HIDE DEF u
<1>4. Typed(u) /\ (Covered(r) => Covered(u)) /\ (Waits(r) => Waits(u))
  BY <1>1, <1>2, <1>3 DEF Typed, Covered, Named, TailNamed, Waits, InFlight, IsStreamingActive
<1>5. t = ContinueLiveTailAfterPrefix(u)
  BY DEF u
<1>6. Sound(u, t) /\ t.queue = u.queue /\ (InFlight(u) => InFlight(t))
  BY <1>4, <1>5, TailSound
<1> QED BY <1>4, <1>6 DEF Sound, Waits

-----------------------------------------------------------------------------
(* The requests.                                                           *)
(* A session whose table was emptied and whose parser was stopped.         *)
Emptied(t) == Typed(t) /\ t.rows = {} /\ t.worker = NoFile

LEMMA EmptiedCovered ==
    ASSUME NEW t, Emptied(t), t.promo = NoFile PROVE Covered(t)
BY DEF Emptied, Covered, Named, TailNamed

LEMMA QuietTyped ==
    ASSUME NEW r, Typed(r), NEW q \in Seq(Files)
    PROVE  /\ LET t == CancelInFlightExportFor(r)
              IN  /\ Typed(t) /\ t.src = r.src /\ t.worker = r.worker /\ t.rows = r.rows /\ t.undo = r.undo
                  /\ t.unzip = r.unzip /\ t.disowned = r.disowned /\ t.promo = r.promo /\ t.mode = r.mode /\ t.queue = r.queue
           /\ Typed(CancelInFlightDecompressionFor(r)) /\ CancelInFlightDecompressionFor(r).queue = r.queue
           /\ Typed([r EXCEPT !.queue = q]) /\ [r EXCEPT !.queue = q].queue = q
<1>1. r \in Session /\ UndoTyped(r.undo) /\ NoFile \in OrNone
  BY DEF Typed, OrNone
<1>2. LET t == CancelInFlightExportFor(r)
      IN  /\ Typed(t) /\ t.src = r.src /\ t.worker = r.worker /\ t.rows = r.rows /\ t.undo = r.undo
          /\ t.unzip = r.unzip /\ t.disowned = r.disowned /\ t.promo = r.promo /\ t.mode = r.mode /\ t.queue = r.queue
  BY <1>1 DEF Typed, Session, CancelInFlightExportFor
<1>3. Typed(CancelInFlightDecompressionFor(r)) /\ CancelInFlightDecompressionFor(r).queue = r.queue
  BY <1>1 DEF Typed, Session, CancelInFlightDecompressionFor
<1>4. Typed([r EXCEPT !.queue = q]) /\ [r EXCEPT !.queue = q].queue = q
  BY <1>1 DEF Typed, Session
<1> QED BY <1>2, <1>3, <1>4

LEMMA ResetEmpties ==
    ASSUME NEW r, Typed(r), NEW switching \in BOOLEAN
    PROVE  Emptied(ResetModel(r, switching)) /\ (switching => ResetModel(r, switching).queue = r.queue)
<1> DEFINE empty == [r EXCEPT !.rows = {}, !.disowned = FALSE]
           t == ResetModel(r, switching)
<1> SUFFICES Emptied(t) /\ (switching => t.queue = r.queue)
  OBVIOUS
<1>1. r \in Session /\ UndoTyped(r.undo) /\ NoFile \in OrNone
  BY DEF Typed, OrNone
<1>2. Typed(empty) /\ empty.rows = {} /\ empty.worker = r.worker /\ empty.queue = r.queue
  BY <1>1 DEF Typed, Session
<1>3. \/ t = empty /\ r.worker = NoFile
      \/ t = [empty EXCEPT !.worker = NoFile]
      \/ t = OnStreamingFinished(empty, "Cancelled") /\ ~switching
  BY DEF ResetModel, IsStreamingActive
<1> HIDE DEF empty, t
<1>4. CASE t = empty /\ r.worker = NoFile
  BY <1>2, <1>4 DEF Emptied
<1>5. CASE t = [empty EXCEPT !.worker = NoFile]
  BY <1>1, <1>2, <1>5 DEF Emptied, Typed, Session
<1>6. CASE t = OnStreamingFinished(empty, "Cancelled") /\ ~switching
  <2> DEFINE next == [[empty EXCEPT !.worker = NoFile] EXCEPT !.queue = <<>>]
             idle == ShowErrors([next EXCEPT !.mode = "Idle"])
  <2>1. t \in {next, [next EXCEPT !.posted = TRUE], idle}
    BY <1>6 DEF OnStreamingFinished
  <2>2. next \in Session /\ UndoTyped(next.undo) /\ next.rows = {} /\ next.worker = NoFile
    <3> DEFINE e == [empty EXCEPT !.worker = NoFile]
    <3>1. e \in Session /\ UndoTyped(e.undo) /\ e.rows = {} /\ e.worker = NoFile
      BY <1>1, <1>2 DEF Typed, Session
    <3>2. next = [e EXCEPT !.queue = <<>>] /\ <<>> \in Seq(Files)
      OBVIOUS
    <3> HIDE DEF e, next
    <3> QED BY <3>1, <3>2 DEF Session
  <2> HIDE DEF next
  <2>3. Emptied(next) /\ Emptied([next EXCEPT !.posted = TRUE])
    BY <2>2 DEF Emptied, Typed, Session
  <2>4. Emptied(idle)
    BY <2>2 DEF Emptied, Typed, Session, ShowErrors
  <2> HIDE DEF idle
  <2> QED BY <1>6, <2>1, <2>3, <2>4
<1> QED BY <1>3, <1>4, <1>5, <1>6

LEMMA DetachedEmpties ==
    ASSUME NEW r, Emptied(r)
    PROVE  Emptied(Detached(r)) /\ Detached(r).promo = NoFile /\ Detached(r).queue = r.queue
<1>1. r \in Session /\ NoFile \in OrNone /\ UndoTyped(NoUndo) /\ <<>> \in Seq(Files)
  BY DEF Emptied, Typed, OrNone, UndoTyped, NoUndo
<1>2. Detached(r) \in Session
  BY <1>1 DEF Detached, Session, UndoTyped
<1>3. /\ Detached(r).promo = NoFile /\ Detached(r).queue = r.queue /\ Detached(r).undo = NoUndo
      /\ Detached(r).rows = r.rows /\ Detached(r).worker = r.worker
  BY <1>1 DEF Detached, Session
<1> QED BY <1>1, <1>2, <1>3 DEF Emptied, Typed

LEMMA StartSound ==
    ASSUME NEW r, Typed(r), NEW files \in Seq(Files), NEW destructive \in BOOLEAN
    PROVE  LET t == StartStreamingOpenQueue(r, files, destructive)
           IN  Sound(r, t) /\ Waits(t)
<1> DEFINE quiet == CancelInFlightExportFor(r)
           clear == CancelInFlightDecompressionFor(quiet)
           reset == ResetModel(clear, FALSE)
           off == Detached(reset)
           wiped == [off EXCEPT !.src = NoSource, !.mode = "Idle"]
           kept == IF ~IsSessionActive(r) /\ r.rows # {} THEN [quiet EXCEPT !.mode = "Static"] ELSE quiet
           t == StartStreamingOpenQueue(r, files, destructive)
<1> SUFFICES Sound(r, t) /\ Waits(t)
  OBVIOUS
<1>1. /\ Typed(quiet) /\ quiet.src = r.src /\ quiet.worker = r.worker /\ quiet.rows = r.rows
      /\ quiet.unzip = r.unzip /\ quiet.disowned = r.disowned /\ quiet.promo = r.promo /\ quiet.mode = r.mode
      /\ quiet.queue = r.queue
  BY QuietTyped, <<>> \in Seq(Files)
<1>2. CASE ~destructive /\ InFlight(r)
  <2> DEFINE q == r.queue \o files
  <2>1. t = [quiet EXCEPT !.queue = q]
    BY <1>1, <1>2 DEF StartStreamingOpenQueue, CancelInFlightExportFor, Typed, Session
  <2>2. q \in Seq(Files)
    BY DEF Typed, Session
  <2> HIDE DEF t, q, quiet
  <2>3. t \in Session
    BY <1>1, <2>1, <2>2 DEF Typed, Session
  <2>4. /\ t.src = quiet.src /\ t.worker = quiet.worker /\ t.rows = quiet.rows /\ t.undo = quiet.undo
        /\ t.unzip = quiet.unzip /\ t.disowned = quiet.disowned /\ t.promo = quiet.promo /\ t.mode = quiet.mode
    BY <1>1, <2>1 DEF Typed, Session
  <2> QED BY <1>1, <1>2, <2>3, <2>4 DEF Sound, Typed, Covered, Named, TailNamed, Waits, InFlight, IsStreamingActive
<1>3. CASE destructive
  <2> DEFINE armed == [wiped EXCEPT !.queue = files, !.openErrors = {}, !.unzipErrors = {}]
  <2>1. t = StreamNextPendingFile(armed)
    BY <1>3 DEF StartStreamingOpenQueue
  <2>2. Typed(clear)
    <3> HIDE DEF quiet
    <3> QED BY <1>1, QuietTyped, <<>> \in Seq(Files)
  <2> HIDE DEF clear
  <2>3. Emptied(reset)
    BY <2>2, ResetEmpties
  <2> HIDE DEF reset
  <2>4. Emptied(off) /\ off.promo = NoFile
    BY <2>3, DetachedEmpties
  <2> HIDE DEF off
  <2>5. wiped \in Session /\ wiped.undo = off.undo /\ wiped.rows = {} /\ wiped.worker = NoFile /\ wiped.promo = NoFile
    <3>1. NoSource \in Source
      BY DEF NoSource, Source
    <3> QED BY <2>4, <3>1 DEF Emptied, Typed, Session, Source
  <2> HIDE DEF wiped
  <2>6. armed \in Session /\ armed.undo = off.undo /\ armed.rows = {} /\ armed.worker = NoFile /\ armed.promo = NoFile
    BY <2>5 DEF Session
  <2> HIDE DEF armed, t
  <2>7. Emptied(armed) /\ Covered(armed)
    BY <2>4, <2>6, EmptiedCovered DEF Emptied, Typed
  <2> QED BY <2>1, <2>7, StreamNextSound DEF Emptied, Sound
<1>4. CASE ~destructive /\ ~InFlight(r)
  <2> DEFINE armed == [kept EXCEPT !.queue = files, !.openErrors = {}, !.unzipErrors = {}]
  <2>1. t = StreamNextPendingFile(armed)
    BY <1>4 DEF StartStreamingOpenQueue
  <2> HIDE DEF quiet
  <2>3. /\ kept.src = r.src /\ kept.worker = r.worker /\ kept.rows = r.rows /\ kept.undo = quiet.undo
        /\ kept.disowned = r.disowned /\ kept.promo = r.promo /\ (kept.mode = r.mode \/ r.rows # {})
    BY <1>1 DEF Typed, Session
  <2>4. kept \in Session
    <3>1. quiet \in Session
      BY <1>1 DEF Typed
    <3>2. [quiet EXCEPT !.mode = "Static"] \in Session
      BY <3>1 DEF Session
    <3> QED BY <3>1, <3>2
  <2> HIDE DEF kept
  <2>5. armed \in Session
    BY <2>4 DEF Session
  <2>6. /\ armed.src = kept.src /\ armed.worker = kept.worker /\ armed.rows = kept.rows /\ armed.undo = kept.undo
        /\ armed.disowned = kept.disowned /\ armed.promo = kept.promo /\ armed.mode = kept.mode
    BY <2>4 DEF Session
  <2> HIDE DEF armed, t
  <2>7. Typed(armed) /\ (Covered(r) => Covered(armed))
    BY <1>1, <2>3, <2>5, <2>6 DEF Typed, Covered, Named, TailNamed
  <2> QED BY <2>1, <2>7, StreamNextSound DEF Sound
<1> QED BY <1>2, <1>3, <1>4

PlanTyped(plan) == plan.queue \in Seq(Files) /\ UndoTyped(plan.undo)

LEMMA OfferSound ==
    ASSUME NEW r, Typed(r), NEW plan, PlanTyped(plan)
    PROVE  Sound(r, OfferUndo(r, plan)) /\ (Waits(r) => Waits(OfferUndo(r, plan)))
<1> DEFINE u == plan.undo
           t == [r EXCEPT !.undo = u]
<1>1. OfferUndo(r, plan) \in {r, t}
  BY DEF OfferUndo
<1>2. r \in Session /\ UndoTyped(u)
  BY DEF Typed, PlanTyped
<1> HIDE DEF u
<1>3. t \in Session /\ t.undo = u
  BY <1>2 DEF UndoTyped, Session
<1>4. /\ t.src = r.src /\ t.worker = r.worker /\ t.rows = r.rows /\ t.unzip = r.unzip /\ t.queue = r.queue
      /\ t.disowned = r.disowned /\ t.promo = r.promo /\ t.mode = r.mode
  BY <1>2 DEF Session
<1> HIDE DEF t
<1>5. Sound(r, t) /\ (Waits(r) => Waits(t))
  BY <1>2, <1>3, <1>4 DEF Sound, Typed, Covered, Named, TailNamed, Waits, InFlight, IsStreamingActive
<1>6. Sound(r, r)
  BY DEF Sound
<1> QED BY <1>1, <1>5, <1>6

LEMMA PlanIsTyped ==
    ASSUME NEW r, NEW files \in Batches, NEW replace
    PROVE  PlanTyped(DispatchMixedOpenInput(r, files, replace))
<1> DEFINE loaded == IF replace THEN {} ELSE Range(r.src.locs)
           all == ExpandLogPathsWithRotationSiblings(files, loaded)
           undo == IF Range(all) \subseteq Range(files) THEN NoUndo ELSE [files |-> files, tail |-> FALSE]
<1>1. files \in Seq(Files)
  BY OpenQueueAssumption
<1>2. all \in Seq(Files)
  <2> HIDE DEF loaded
  <2> QED BY <1>1, ExpandedTyped
<1>3. DispatchMixedOpenInput(r, files, replace) = [queue |-> all, undo |-> undo]
  BY DEF DispatchMixedOpenInput
<1> HIDE DEF all
<1>4. UndoTyped(undo)
  BY <1>1 DEF UndoTyped, NoUndo
<1> HIDE DEF undo
<1> QED BY <1>2, <1>3, <1>4 DEF PlanTyped

LEMMA DispatchedSound ==
    ASSUME NEW r, Typed(r), NEW plan, PlanTyped(plan), NEW destructive \in BOOLEAN
    PROVE  LET t == Dispatched(r, plan, destructive)
           IN  Sound(r, t) /\ Waits(t)
<1> DEFINE u == StartStreamingOpenQueue(r, plan.queue, destructive)
<1>1. Sound(r, u) /\ Waits(u)
  BY StartSound DEF PlanTyped
<1>2. Dispatched(r, plan, destructive) = OfferUndo(u, plan)
  BY DEF Dispatched
<1> HIDE DEF u
<1>3. Sound(u, OfferUndo(u, plan)) /\ Waits(OfferUndo(u, plan))
  BY <1>1, OfferSound DEF Sound
<1> QED BY <1>1, <1>2, <1>3 DEF Sound

LEMMA SwitchEmpties ==
    ASSUME NEW r, Typed(r)
    PROVE  LET t == Detached(ResetModel(CancelInFlight([r EXCEPT !.queue = <<>>]), TRUE))
           IN  Emptied(t) /\ t.promo = NoFile /\ t.queue = <<>>
<1> DEFINE a == [r EXCEPT !.queue = <<>>]
           b == CancelInFlightExportFor(a)
           c == CancelInFlightDecompressionFor(b)
           d == ResetModel(c, TRUE)
<1>1. Typed(a) /\ a.queue = <<>>
  BY QuietTyped, <<>> \in Seq(Files)
<1> HIDE DEF a
<1>2. Typed(b) /\ b.queue = <<>>
  BY <1>1, QuietTyped, <<>> \in Seq(Files)
<1> HIDE DEF b
<1>3. Typed(c) /\ c.queue = <<>>
  BY <1>2, QuietTyped, <<>> \in Seq(Files)
<1>4. CancelInFlight(a) = c
  BY DEF CancelInFlight, b
<1> HIDE DEF c
<1>5. Emptied(d) /\ d.queue = <<>>
  BY <1>3, ResetEmpties
<1> HIDE DEF d
<1>6. Emptied(Detached(d)) /\ Detached(d).promo = NoFile /\ Detached(d).queue = <<>>
  BY <1>5, DetachedEmpties
<1> QED BY <1>4, <1>6 DEF a, d

LEMMA OpenLogSound ==
    ASSUME NEW r, Typed(r), NEW f \in Files, NEW expand \in BOOLEAN
    PROVE  LET t == OpenLogStreamFromPath(r, f, expand)
           IN  Typed(t) /\ Covered(t) /\ Waits(t)
<1> DEFINE wiped == Detached(ResetModel(CancelInFlight([r EXCEPT !.queue = <<>>]), TRUE))
           prefix == IF expand THEN Siblings[f] ELSE <<>>
           undo == [files |-> <<f>>, tail |-> TRUE]
           src == FileSource(<<f>>)
           chained == [wiped EXCEPT
                         !.queue = prefix, !.openErrors = {}, !.unzipErrors = {}, !.promo = f,
                         !.undo = undo, !.mode = "Idle", !.src = NoSource]
           live == [wiped EXCEPT !.src = src, !.mode = "LiveTail"]
           t == OpenLogStreamFromPath(r, f, expand)
<1> SUFFICES Typed(t) /\ Covered(t) /\ Waits(t)
  OBVIOUS
<1>1. t = StreamNextPendingFile(chained) \/ t = wiped \/ t = BeginStreaming(live, f)
  BY DEF OpenLogStreamFromPath
<1>2. Emptied(wiped) /\ wiped.promo = NoFile /\ wiped.queue = <<>>
  BY SwitchEmpties
<1>3. prefix \in Seq(Files) /\ f \in OrNone /\ f # NoFile /\ NoSource \in Source
  BY OpenQueueAssumption DEF OrNone, NoSource, Source
<1>4. UndoTyped(undo) /\ undo \in [files: Seq(Files), tail: BOOLEAN]
  <2>1. <<f>> \in Seq(Files) /\ <<f>> # <<>>
    OBVIOUS
  <2> QED BY <2>1 DEF UndoTyped
<1>5. src \in Source /\ src.kind = "File" /\ f \in Range(src.locs)
  BY FileSourceNames
<1> HIDE DEF wiped, prefix, undo, src, t
<1>6. CASE t = wiped
  BY <1>2, <1>6, EmptiedCovered DEF Waits, Emptied
<1>7. CASE t = StreamNextPendingFile(chained)
  <2>1. chained \in Session
    BY <1>2, <1>3, <1>4 DEF Emptied, Typed, Session, Source
  <2>2. chained.undo = undo /\ chained.rows = {} /\ chained.worker = NoFile /\ chained.mode = "Idle" /\ chained.src = NoSource
    BY <1>2 DEF Emptied, Typed, Session
  <2> HIDE DEF chained
  <2>3. Typed(chained) /\ Covered(chained)
    BY <1>4, <2>1, <2>2 DEF Typed, Covered, Named, TailNamed, NoSource
  <2> QED BY <1>7, <2>3, StreamNextSound DEF Sound
<1>8. CASE t = BeginStreaming(live, f)
  <2>1. live \in Session
    BY <1>2, <1>5 DEF Emptied, Typed, Session, Source
  <2>2. live.undo = wiped.undo /\ live.src = src /\ live.promo = NoFile
    BY <1>2 DEF Emptied, Typed, Session
  <2> HIDE DEF live
  <2>3. t \in Session /\ t.undo = wiped.undo /\ t.src = src /\ t.promo = NoFile /\ t.rows = {} /\ t.worker = f
    BY <1>3, <1>8, <2>1, <2>2 DEF BeginStreaming, IsStreamingActive, Session
  <2> QED BY <1>2, <1>3, <1>5, <2>3 DEF Emptied, Typed, Covered, Named, TailNamed, Waits, InFlight, IsStreamingActive
<1> QED BY <1>1, <1>6, <1>7, <1>8

LEMMA OpenStdinSound ==
    ASSUME NEW r, Typed(r), NEW f \in Files
    PROVE  LET t == OpenStdinStreamFromProducer(r, f)
           IN  Typed(t) /\ Covered(t) /\ Waits(t)
<1> DEFINE wiped == Detached(ResetModel(CancelInFlight([r EXCEPT !.queue = <<>>]), TRUE))
           src == [kind |-> "Stream", locs |-> <<f>>]
           live == [wiped EXCEPT !.src = src, !.mode = "LiveTail"]
           t == OpenStdinStreamFromProducer(r, f)
<1> SUFFICES Typed(t) /\ Covered(t) /\ Waits(t)
  OBVIOUS
<1>1. t = BeginStreaming(live, f)
  BY DEF OpenStdinStreamFromProducer
<1>2. Emptied(wiped) /\ wiped.promo = NoFile
  BY SwitchEmpties
<1>3. f \in OrNone /\ f # NoFile
  BY OpenQueueAssumption DEF OrNone
<1>4. src \in Source /\ src.kind = "Stream"
  <2>1. <<f>> \in Seq(Files)
    OBVIOUS
  <2> QED BY <2>1 DEF Source
<1> HIDE DEF wiped, src, t
<1>5. live \in Session
  BY <1>2, <1>4 DEF Emptied, Typed, Session, Source
<1>6. live.undo = wiped.undo /\ live.src = src /\ live.promo = NoFile
  BY <1>2 DEF Emptied, Typed, Session
<1> HIDE DEF live
<1>7. t \in Session /\ t.undo = wiped.undo /\ t.src = src /\ t.promo = NoFile /\ t.rows = {} /\ t.worker = f
  BY <1>1, <1>3, <1>5, <1>6 DEF BeginStreaming, IsStreamingActive, Session
<1> QED BY <1>2, <1>3, <1>4, <1>7 DEF Emptied, Typed, Covered, Named, TailNamed, Waits, InFlight, IsStreamingActive

LEMMA NewSessionSound ==
    ASSUME NEW r, Typed(r)
    PROVE  LET t == NewSessionRecord(r)
           IN  Typed(t) /\ Covered(t) /\ Waits(t)
<1> DEFINE b == CancelInFlightExportFor(r)
           c == CancelInFlightDecompressionFor(b)
           d == ResetModel(c, TRUE)
           e == Detached(d)
           t == NewSessionRecord(r)
<1> SUFFICES Typed(t) /\ Covered(t) /\ Waits(t)
  OBVIOUS
<1>1. t = [e EXCEPT !.src = NoSource, !.mode = "Idle", !.queue = <<>>, !.openErrors = {}, !.unzipErrors = {}]
  BY DEF NewSessionRecord, CancelInFlight
<1>2. Typed(b)
  BY QuietTyped, <<>> \in Seq(Files)
<1> HIDE DEF b
<1>3. Typed(c)
  BY <1>2, QuietTyped, <<>> \in Seq(Files)
<1> HIDE DEF c
<1>4. Emptied(d)
  BY <1>3, ResetEmpties
<1> HIDE DEF d
<1>5. Emptied(e) /\ e.promo = NoFile
  BY <1>4, DetachedEmpties
<1> HIDE DEF e, t
<1>6. NoSource \in Source /\ <<>> \in Seq(Files)
  BY DEF NoSource, Source
<1>7. t \in Session
  BY <1>1, <1>5, <1>6 DEF Emptied, Typed, Session, Source
<1>8. t.undo = e.undo /\ t.rows = {} /\ t.worker = NoFile /\ t.promo = NoFile /\ t.queue = <<>>
  BY <1>1, <1>5 DEF Emptied, Typed, Session
<1> QED BY <1>5, <1>7, <1>8, EmptiedCovered DEF Emptied, Typed, Waits

(* A configuration takes the source from under the rows, and the session   *)
(* remembers that it did.                                                  *)
LEMMA ConfigurationSound ==
    ASSUME NEW r, Typed(r), AtWorkActive(r)
    PROVE  LET t == TryLoadAsConfiguration(r)
           IN  Sound(r, t) /\ (Waits(r) => Waits(t))
<1> DEFINE gone == r.disowned \/ r.rows # {} \/ IsSessionActive(r)
           t == TryLoadAsConfiguration(r)
<1> SUFFICES Sound(r, t) /\ (Waits(r) => Waits(t))
  OBVIOUS
<1>1. t = [r EXCEPT !.src = NoSource, !.undo = NoUndo, !.published = FALSE, !.disowned = gone]
  BY DEF TryLoadAsConfiguration
<1>2. r \in Session /\ NoSource \in Source /\ UndoTyped(NoUndo) /\ gone \in BOOLEAN
  BY DEF Typed, NoSource, Source, UndoTyped, NoUndo, Session
<1>3. gone \/ (r.rows = {} /\ r.mode = "Idle" /\ r.worker = NoFile)
  BY DEF AtWorkActive, IsSessionActive
<1> HIDE DEF gone, t
<1>4. t \in Session
  BY <1>1, <1>2 DEF Session, Source, UndoTyped
<1>5. /\ t.src = NoSource /\ t.undo = NoUndo /\ t.disowned = gone /\ t.rows = r.rows /\ t.mode = r.mode
      /\ t.worker = r.worker /\ t.unzip = r.unzip /\ t.queue = r.queue
  BY <1>1, <1>2 DEF Session
<1> QED BY <1>2, <1>3, <1>4, <1>5
        DEF Sound, Typed, Covered, Named, TailNamed, NoSource, Waits, InFlight, IsStreamingActive

LEMMA AppendedSound ==
    ASSUME NEW r, Typed(r), r.worker # NoFile, NEW t, t = [r EXCEPT !.rows = @ \cup {r.worker}]
    PROVE  Sound(r, t) /\ (Waits(r) => Waits(t))
<1> DEFINE w == r.worker
           rows == r.rows \cup {w}
<1>1. r \in Session /\ w \in Files /\ rows \subseteq Files
  BY DEF Typed, Session, OrNone
<1>2. t = [r EXCEPT !.rows = rows]
  OBVIOUS
<1>3. t \in Session
  BY <1>1, <1>2 DEF Session
<1>4. /\ t.src = r.src /\ t.undo = r.undo /\ t.disowned = r.disowned /\ t.rows = rows /\ t.mode = r.mode
      /\ t.worker = r.worker /\ t.unzip = r.unzip /\ t.queue = r.queue /\ t.promo = r.promo
  BY <1>1, <1>2 DEF Session
<1> QED BY <1>3, <1>4 DEF Sound, Typed, Covered, Named, TailNamed, Waits, InFlight, IsStreamingActive

LEMMA ExportingSound ==
    ASSUME NEW r, Typed(r), NEW b \in BOOLEAN, NEW t, t = [r EXCEPT !.exporting = b]
    PROVE  Sound(r, t) /\ (Waits(r) => Waits(t))
<1>1. r \in Session
  BY DEF Typed
<1>2. t \in Session
  BY <1>1 DEF Session
<1>3. /\ t.src = r.src /\ t.undo = r.undo /\ t.disowned = r.disowned /\ t.rows = r.rows /\ t.mode = r.mode
      /\ t.worker = r.worker /\ t.unzip = r.unzip /\ t.queue = r.queue /\ t.promo = r.promo
  BY <1>1 DEF Session
<1> QED BY <1>2, <1>3 DEF Sound, Typed, Covered, Named, TailNamed, Waits, InFlight, IsStreamingActive

LEMMA NewLogSessionSound ==
    ASSUME NEW life \in {"unused", "hosted", "closed"}
    PROVE  LET t == NewLogSession(life)
           IN  Typed(t) /\ Covered(t) /\ Waits(t) /\ t.life = life
<1> DEFINE t == NewLogSession(life)
<1>1. NoFile \in OrNone /\ NoSource \in Source /\ UndoTyped(NoUndo) /\ <<>> \in Seq(Files)
  BY DEF OrNone, NoSource, Source, UndoTyped, NoUndo
<1>2. t \in Session
  BY <1>1 DEF NewLogSession, Session, Source, UndoTyped
<1>3. t.undo = NoUndo /\ t.rows = {} /\ t.worker = NoFile /\ t.promo = NoFile /\ t.queue = <<>> /\ t.life = life
  BY DEF NewLogSession
<1> HIDE DEF t
<1>4. Emptied(t)
  BY <1>1, <1>2, <1>3 DEF Emptied, Typed
<1>5. Typed(t) /\ Covered(t) /\ Waits(t) /\ t.life = life
  BY <1>3, <1>4, EmptiedCovered DEF Emptied, Waits
<1> QED BY <1>5 DEF t

-----------------------------------------------------------------------------
(* The window once more.                                                   *)
(* The window's part of the invariant: what every tab is, and what the     *)
(* tabs of an open window keep.                                            *)
RestTyped ==
    /\ dialog.kind \in {"none", "replace", "export"} /\ PlanTyped(dialog.plan) /\ dialog.tab \in Sessions
    /\ closed \in BOOLEAN /\ asks \in 0..MaxAsks /\ given \subseteq Sessions

TabsTyped == \A s \in Sessions : Typed(ses[s])

TabsKept == ~closed => \A s \in Sessions : Covered(ses[s]) /\ Waits(ses[s])

KeptInv == QueueInv /\ RestTyped /\ TabsTyped /\ TabsKept

(* A step that changes one tab.                                            *)
LEMMA OneTabKept ==
    ASSUME KeptInv, NEW x \in Sessions, NEW t, ses' = [ses EXCEPT ![x] = t], closed' = closed,
           Typed(t), ~closed => Covered(t) /\ Waits(t)
    PROVE  TabsTyped' /\ TabsKept'
<1>1. ses'[x] = t /\ \A s \in Sessions \ {x} : ses'[s] = ses[s]
  BY DEF KeptInv, QueueInv, TabsInv
<1> QED BY <1>1 DEF KeptInv, TabsTyped, TabsKept

LEMMA AskTyped ==
    ASSUME asks \in 0..MaxAsks, Ask PROVE asks' \in 0..MaxAsks
BY OpenQueueAssumption DEF Ask

LEMMA NoDialogTyped == NoDialog.kind = "none" /\ PlanTyped(NoDialog.plan) /\ NoDialog.tab \in Sessions
<1>1. UndoTyped(NoUndo) /\ <<>> \in Seq(Files)
  BY DEF UndoTyped, NoUndo
<1> QED BY <1>1, OpenQueueAssumption DEF NoDialog, NoPlan, PlanTyped

LEMMA TabOfTyped ==
    ASSUME KeptInv, NEW s \in Sessions
    PROVE  Typed(TabOf(s)) /\ (Covered(ses[s]) => Covered(TabOf(s))) /\ (Waits(ses[s]) => Waits(TabOf(s)))
<1> DEFINE r == ses[s]
           t == [r EXCEPT !.life = "hosted"]
<1>1. r \in Session /\ Typed(r)
  BY DEF KeptInv, TabsTyped, Typed
<1>2. TabOf(s) = t
  BY DEF TabOf
<1> HIDE DEF r
<1>3. t \in Session
  BY <1>1 DEF Session
<1>4. /\ t.src = r.src /\ t.undo = r.undo /\ t.disowned = r.disowned /\ t.rows = r.rows /\ t.mode = r.mode
      /\ t.worker = r.worker /\ t.unzip = r.unzip /\ t.queue = r.queue /\ t.promo = r.promo
  BY <1>1 DEF Session
<1> HIDE DEF t
<1>5. Typed(t) /\ (Covered(r) => Covered(t)) /\ (Waits(r) => Waits(t))
  BY <1>1, <1>3, <1>4 DEF Typed, Covered, Named, TailNamed, Waits, InFlight, IsStreamingActive
<1> QED BY <1>2, <1>5 DEF r

(* What the handlers of a request may rely on.                             *)
LEMMA AtRequest ==
    ASSUME KeptInv
    PROVE  /\ active \in Sessions /\ Typed(ses[active])
           /\ ~closed => Covered(ses[active]) /\ Waits(ses[active]) /\ AtWorkActive(ses[active])
           /\ given' \in {{}, {active}} => given' \subseteq Sessions
BY DEF KeptInv, QueueInv, TabsInv, WorkInv, TabsTyped, TabsKept

LEMMA RestKept ==
    ASSUME KeptInv, dialog' \in {dialog, NoDialog}, closed' = closed, asks' = asks \/ Ask, given' \subseteq Sessions
    PROVE  RestTyped'
<1>1. asks' \in 0..MaxAsks
  BY AskTyped DEF KeptInv, RestTyped
<1>2. dialog'.kind \in {"none", "replace", "export"} /\ PlanTyped(dialog'.plan) /\ dialog'.tab \in Sessions
  BY NoDialogTyped DEF KeptInv, RestTyped
<1>3. PlanTyped(dialog.plan)' = PlanTyped(dialog'.plan)
  BY DEF PlanTyped, UndoTyped
<1> QED BY <1>1, <1>2, <1>3 DEF KeptInv, RestTyped

LEMMA WorkerKept ==
    ASSUME KeptInv, NEW s \in Sessions, AppendBatch(s) \/ Completes(s)
    PROVE  RestTyped' /\ TabsTyped' /\ TabsKept'
<1> DEFINE r == ses[s]
<1>1. Typed(r) /\ (~closed => Covered(r) /\ Waits(r))
  BY DEF KeptInv, TabsTyped, TabsKept
<1>2. given' = {} /\ UNCHANGED <<active, dialog, closed, asks>>
  BY DEF AppendBatch, Completes, CompleteStreaming, CompleteDecompression, PromoteToLiveTail, OnExportFinishedFor
<1>3. RestTyped'
  BY <1>2, RestKept
<1>4. \E t : ses' = [ses EXCEPT ![s] = t] /\ Sound(r, t) /\ (Waits(r) => Waits(t))
  <2>1. CASE AppendBatch(s)
    <3>1. ses' = [ses EXCEPT ![s] = [r EXCEPT !.rows = @ \cup {r.worker}]] /\ r.worker # NoFile
      BY <2>1 DEF AppendBatch, IsStreamingActive
    <3> QED BY <1>1, <3>1, AppendedSound
  <2>2. CASE CompleteStreaming(s)
    <3>1. ses' = [ses EXCEPT ![s] = OnStreamingFinished(r, "Success")]
      BY <2>2 DEF CompleteStreaming
    <3> QED BY <1>1, <3>1, FinishedSound
  <2>3. ASSUME NEW o, CompleteDecompression(s, o)
        PROVE  \E t : ses' = [ses EXCEPT ![s] = t] /\ Sound(r, t) /\ (Waits(r) => Waits(t))
    <3>1. ses' = [ses EXCEPT ![s] = OnDecompressionFinishedFor(r, o)] /\ r.unzip # NoFile
      BY <2>3 DEF CompleteDecompression
    <3> QED BY <1>1, <3>1, UnzippedSound
  <2>4. CASE PromoteToLiveTail(s)
    <3>1. ses' = [ses EXCEPT ![s] = ContinueLiveTailAfterPrefix([r EXCEPT !.posted = FALSE])]
      BY <2>4 DEF PromoteToLiveTail
    <3> QED BY <1>1, <3>1, PromotedSound
  <2>5. CASE OnExportFinishedFor(s)
    <3>1. ses' = [ses EXCEPT ![s] = [r EXCEPT !.exporting = FALSE]]
      BY <2>5 DEF OnExportFinishedFor
    <3> QED BY <1>1, <3>1, ExportingSound
  <2> QED BY <2>1, <2>2, <2>3, <2>4, <2>5 DEF Completes
<1>5. PICK t : ses' = [ses EXCEPT ![s] = t] /\ Sound(r, t) /\ (Waits(r) => Waits(t))
  BY <1>4
<1> HIDE DEF r
<1>6. Typed(t) /\ (~closed => Covered(t) /\ Waits(t))
  BY <1>1, <1>5 DEF Sound
<1> QED BY <1>2, <1>3, <1>5, <1>6, OneTabKept

LEMMA ClosedKept ==
    ASSUME KeptInv, CloseEvent
    PROVE  RestTyped' /\ TabsTyped' /\ TabsKept'
<1>1. /\ closed' = TRUE /\ given' = Hosted /\ UNCHANGED <<dialog, asks>>
      /\ ses' = [s \in Sessions |->
                  IF ses[s].life # "hosted" THEN ses[s]
                  ELSE [(IF s = active THEN CancelInFlight(ses[s]) ELSE ses[s]) EXCEPT
                           !.published = FALSE, !.src = NoSource, !.mode = "Idle"]]
  BY DEF CloseEvent
<1>2. Hosted \subseteq Sessions
  BY DEF Hosted
<1>3. RestTyped'
  BY <1>1, <1>2 DEF KeptInv, RestTyped, PlanTyped, UndoTyped
<1>4. ASSUME NEW s \in Sessions PROVE Typed(ses'[s])
  <2> DEFINE r == ses[s]
             b == CancelInFlightDecompressionFor(CancelInFlightExportFor(r))
             t == IF s = active THEN b ELSE r
             u == [t EXCEPT !.published = FALSE, !.src = NoSource, !.mode = "Idle"]
  <2>1. ses'[s] = r \/ ses'[s] = u
    BY <1>1 DEF CancelInFlight
  <2>2. Typed(r)
    BY DEF KeptInv, TabsTyped
  <2> HIDE DEF r
  <2>3. Typed(CancelInFlightExportFor(r))
    BY <2>2, QuietTyped, <<>> \in Seq(Files)
  <2>4. Typed(b)
    BY <2>3, QuietTyped, <<>> \in Seq(Files)
  <2> HIDE DEF b
  <2>5. Typed(t) /\ NoSource \in Source
    BY <2>2, <2>4 DEF NoSource, Source
  <2> HIDE DEF t
  <2>6. Typed(u)
    BY <2>5 DEF Typed, Session, Source
  <2> QED BY <2>1, <2>2, <2>6
<1>5. TabsTyped'
  BY <1>4 DEF TabsTyped
<1> QED BY <1>1, <1>3, <1>5 DEF TabsKept

LEMMA KeptStep ==
    ASSUME KeptInv, [QueueNext]_queueVars
    PROVE  RestTyped' /\ TabsTyped' /\ TabsKept'
<1> DEFINE r == ses[active]
           Kept == RestTyped' /\ TabsTyped' /\ TabsKept'
<1> SUFFICES Kept
  OBVIOUS
<1> USE DEF Kept
<1>1. CASE AppendFiles
  <2>1. PICK files \in Batches :
          ses' = [ses EXCEPT ![active] = Dispatched(r, DispatchMixedOpenInput(r, files, FALSE), FALSE)]
    BY <1>1 DEF AppendFiles
  <2>2. Ask /\ given' = {} /\ UNCHANGED <<active, dialog, closed>>
    BY <1>1 DEF AppendFiles
  <2> QED BY <2>1, <2>2, AtRequest, PlanIsTyped, DispatchedSound, OneTabKept, RestKept DEF Sound
<1>2. CASE ReplaceFiles
  <2>1. PICK files \in Batches, replace \in BOOLEAN :
          LET plan == DispatchMixedOpenInput(r, files, replace)
          IN \/ ses' = [ses EXCEPT ![active] = Dispatched(r, plan, TRUE)] /\ dialog' = dialog
             \/ ses' = [ses EXCEPT ![active] = OfferUndo(r, plan)] /\ dialog' = dialog
             \/ dialog' = [kind |-> "replace", plan |-> plan, tab |-> active] /\ UNCHANGED ses
    BY <1>2 DEF ReplaceFiles
  <2> DEFINE plan == DispatchMixedOpenInput(r, files, replace)
  <2>2. Ask /\ given' = {active} /\ UNCHANGED <<active, closed>> /\ given' \subseteq Sessions
    BY <1>2, AtRequest DEF ReplaceFiles
  <2>3. PlanTyped(plan)
    BY PlanIsTyped
  <2> HIDE DEF plan
  <2>4. CASE ses' = [ses EXCEPT ![active] = Dispatched(r, plan, TRUE)] /\ dialog' = dialog
    BY <2>2, <2>3, <2>4, AtRequest, DispatchedSound, OneTabKept, RestKept DEF Sound
  <2>5. CASE ses' = [ses EXCEPT ![active] = OfferUndo(r, plan)] /\ dialog' = dialog
    BY <2>2, <2>3, <2>5, AtRequest, OfferSound, OneTabKept, RestKept DEF Sound
  <2>6. CASE dialog' = [kind |-> "replace", plan |-> plan, tab |-> active] /\ UNCHANGED ses
    <3>1. TabsTyped' /\ TabsKept'
      BY <2>2, <2>6 DEF KeptInv, TabsTyped, TabsKept
    <3>2. asks' \in 0..MaxAsks /\ active \in Sessions
      BY <2>2, AskTyped, AtRequest DEF KeptInv, RestTyped
    <3>3. dialog'.kind = "replace" /\ dialog'.plan = plan /\ dialog'.tab = active
      BY <2>6
    <3>4. PlanTyped(dialog.plan)'
      BY <2>3, <3>3 DEF PlanTyped, UndoTyped
    <3> QED BY <2>2, <3>1, <3>2, <3>3, <3>4 DEF KeptInv, RestTyped
  <2> QED BY <2>1, <2>4, <2>5, <2>6 DEF plan
<1>3. CASE PromptAnswered
  <2>1. /\ given' = {dialog.tab} /\ dialog' = NoDialog /\ UNCHANGED <<active, closed, asks>>
        /\ \/ ses' = [ses EXCEPT ![active] = OfferUndo(r, dialog.plan)]
           \/ ses' = [ses EXCEPT ![active] = Dispatched(r, dialog.plan, TRUE)]
    BY <1>3 DEF PromptAnswered
  <2>2. PlanTyped(dialog.plan) /\ given' \subseteq Sessions
    BY <2>1 DEF KeptInv, RestTyped
  <2>3. RestTyped'
    BY <2>1, <2>2, RestKept
  <2>4. CASE ses' = [ses EXCEPT ![active] = OfferUndo(r, dialog.plan)]
    BY <2>1, <2>2, <2>3, <2>4, AtRequest, OfferSound, OneTabKept DEF Sound
  <2>5. CASE ses' = [ses EXCEPT ![active] = Dispatched(r, dialog.plan, TRUE)]
    BY <2>1, <2>2, <2>3, <2>5, AtRequest, DispatchedSound, OneTabKept DEF Sound
  <2> QED BY <2>1, <2>4, <2>5
<1>4. CASE OpenFilesForCli
  <2>1. PICK files \in Batches, s \in Sessions :
          InFreshTab(s, Dispatched(TabOf(s), DispatchMixedOpenInput(TabOf(s), files, FALSE), FALSE))
    BY <1>4 DEF OpenFilesForCli
  <2> DEFINE plan == DispatchMixedOpenInput(TabOf(s), files, FALSE)
             t == Dispatched(TabOf(s), plan, FALSE)
  <2>2. Ask /\ given' = {} /\ UNCHANGED <<dialog, closed>> /\ ses' = [ses EXCEPT ![s] = t]
    BY <1>4, <2>1 DEF OpenFilesForCli, InFreshTab
  <2>3. PlanTyped(plan)
    BY PlanIsTyped
  <2> HIDE DEF plan
  <2>4. Sound(TabOf(s), t) /\ Waits(t)
    BY <2>3, TabOfTyped, DispatchedSound
  <2> HIDE DEF t
  <2>5. Typed(t) /\ (~closed => Covered(t) /\ Waits(t))
    BY <2>4, TabOfTyped DEF Sound, KeptInv, TabsKept
  <2> QED BY <2>2, <2>5, OneTabKept, RestKept
<1>5. CASE OpenLogStream
  <2>1. PICK f \in Files \ Compressed, s \in Sessions : InFreshTab(s, OpenLogStreamFromPath(TabOf(s), f, TRUE))
    BY <1>5 DEF OpenLogStream
  <2>2. Ask /\ given' = {} /\ UNCHANGED <<dialog, closed>> /\ ses' = [ses EXCEPT ![s] = OpenLogStreamFromPath(TabOf(s), f, TRUE)]
    BY <1>5, <2>1 DEF OpenLogStream, InFreshTab
  <2> QED BY <2>1, <2>2, TabOfTyped, OpenLogSound, OneTabKept, RestKept
<1>6. CASE OpenStdinStream
  <2>1. PICK f \in Files \ (Compressed \cup Missing), s \in Sessions : InFreshTab(s, OpenStdinStreamFromProducer(TabOf(s), f))
    BY <1>6 DEF OpenStdinStream
  <2>2. Ask /\ given' = {} /\ UNCHANGED <<dialog, closed>> /\ ses' = [ses EXCEPT ![s] = OpenStdinStreamFromProducer(TabOf(s), f)]
    BY <1>6, <2>1 DEF OpenStdinStream, InFreshTab
  <2> QED BY <2>1, <2>2, TabOfTyped, OpenStdinSound, OneTabKept, RestKept
<1>7. CASE UndoRotationExpansion
  <2> DEFINE u == [r EXCEPT !.undo = NoUndo]
             files == r.undo.files
             t == IF r.undo.tail THEN OpenLogStreamFromPath(u, Head(files), FALSE)
                  ELSE StartStreamingOpenQueue(u, files, TRUE)
  <2>1. /\ ses' = [ses EXCEPT ![active] = t] /\ Ask /\ given' = {active} /\ UNCHANGED <<active, dialog, closed>>
        /\ given' \subseteq Sessions
    BY <1>7, AtRequest DEF UndoRotationExpansion
  <2>2. r \in Session /\ UndoTyped(r.undo)
    BY AtRequest DEF Typed
  <2>3. u \in Session /\ u.undo = NoUndo /\ UndoTyped(NoUndo)
    <3> HIDE DEF r
    <3>1. UndoTyped(NoUndo)
      BY DEF UndoTyped, NoUndo
    <3> QED BY <2>2, <3>1 DEF Session, UndoTyped
  <2>4. /\ u.src = r.src /\ u.disowned = r.disowned /\ u.rows = r.rows /\ u.mode = r.mode
        /\ u.worker = r.worker /\ u.promo = r.promo
    <3> HIDE DEF r
    <3> QED BY <2>2 DEF Session
  <2> HIDE DEF u
  <2>5. Typed(u) /\ (Covered(r) => Covered(u))
    BY <2>3, <2>4 DEF Typed, Covered, Named, TailNamed
  <2>6. files \in Seq(Files) /\ (r.undo.tail => Head(files) \in Files)
    <3>1. files \in Seq(Files) /\ (r.undo.tail => files # <<>>)
      BY <2>2 DEF UndoTyped
    <3> HIDE DEF files
    <3> QED BY <3>1
  <2> HIDE DEF files
  <2>7. Typed(t) /\ (~closed => Covered(t) /\ Waits(t))
    <3>1. CASE r.undo.tail
      BY <2>5, <2>6, <3>1, OpenLogSound
    <3>2. CASE ~r.undo.tail
      BY <2>5, <2>6, <3>2, AtRequest, StartSound DEF Sound
    <3> QED BY <3>1, <3>2
  <2> HIDE DEF t
  <2> QED BY <2>1, <2>7, AtRequest, OneTabKept, RestKept
<1>8. CASE NewSession
  <2>1. /\ ses' = [ses EXCEPT ![active] = NewSessionRecord(r)] /\ Ask /\ given' = {active}
        /\ UNCHANGED <<active, dialog, closed>> /\ given' \subseteq Sessions
    BY <1>8, AtRequest DEF NewSession
  <2> QED BY <2>1, AtRequest, NewSessionSound, OneTabKept, RestKept
<1>9. CASE LoadConfiguration
  <2>1. /\ ses' = [ses EXCEPT ![active] = TryLoadAsConfiguration(r)] /\ Ask /\ given' = {}
        /\ UNCHANGED <<active, dialog, closed>> /\ ~closed
    BY <1>9 DEF LoadConfiguration, UserFree, AtEventLoop
  <2> QED BY <2>1, AtRequest, ConfigurationSound, OneTabKept, RestKept DEF Sound
<1>10. CASE StopStream
  <2>1. /\ ses' = [ses EXCEPT ![active] = OnStreamingFinished(r, "Cancelled")] /\ given' = {}
        /\ UNCHANGED <<active, dialog, closed, asks>>
    BY <1>10 DEF StopStream
  <2> QED BY <2>1, AtRequest, FinishedSound, OneTabKept, RestKept DEF Sound
<1>11. CASE CloseEvent
  BY <1>11, ClosedKept
<1>12. CASE ExportFilteredRows
  <2>1. /\ dialog' = [kind |-> "export", plan |-> NoPlan, tab |-> active] /\ given' = {} /\ UNCHANGED <<ses, active, closed, asks>>
    BY <1>12 DEF ExportFilteredRows
  <2>2. dialog'.kind = "export" /\ dialog'.plan = NoPlan /\ dialog'.tab = active
    BY <2>1
  <2>3. PlanTyped(NoPlan)
    BY NoDialogTyped DEF NoDialog
  <2>4. PlanTyped(dialog.plan)'
    BY <2>2, <2>3 DEF PlanTyped, UndoTyped
  <2>5. RestTyped'
    BY <2>1, <2>2, <2>4, AtRequest DEF KeptInv, RestTyped
  <2> QED BY <2>1, <2>5 DEF KeptInv, TabsTyped, TabsKept
<1>13. CASE BeginAsyncExport
  <2>1. dialog' = NoDialog /\ given' = {} /\ UNCHANGED <<active, closed, asks>>
        /\ (UNCHANGED ses \/ ses' = [ses EXCEPT ![active].exporting = TRUE])
    BY <1>13 DEF BeginAsyncExport
  <2>2. RestTyped'
    BY <2>1, RestKept
  <2>3. CASE UNCHANGED ses
    BY <2>1, <2>2, <2>3 DEF KeptInv, TabsTyped, TabsKept
  <2>4. CASE ses' = [ses EXCEPT ![active].exporting = TRUE]
    <3>1. ses' = [ses EXCEPT ![active] = [r EXCEPT !.exporting = TRUE]]
      BY <2>4
    <3> QED BY <2>1, <2>2, <3>1, AtRequest, ExportingSound, OneTabKept DEF Sound
  <2> QED BY <2>1, <2>3, <2>4
<1>14. ASSUME NEW s \in Sessions, OnActiveTabChanged(s) PROVE Kept
  <2>1. given' = {} /\ UNCHANGED <<ses, dialog, closed, asks>>
    BY <1>14 DEF OnActiveTabChanged
  <2> QED BY <2>1, RestKept DEF KeptInv, TabsTyped, TabsKept
<1>15. ASSUME NEW s \in Sessions, CloseTabAtIndex(s) PROVE Kept
  <2>1. given' = {s} /\ UNCHANGED <<dialog, closed, asks>> /\ ses' = [ses EXCEPT ![s] = NewLogSession("closed")]
    BY <1>15 DEF CloseTabAtIndex
  <2> QED BY <2>1, NewLogSessionSound, OneTabKept, RestKept
<1>16. ASSUME NEW s \in Sessions, AppendBatch(s) \/ Completes(s) PROVE Kept
  BY <1>16, WorkerKept
<1>17. CASE UNCHANGED queueVars
  BY <1>17 DEF queueVars, KeptInv, RestTyped, TabsTyped, TabsKept, PlanTyped, UndoTyped
<1> QED BY <1>1, <1>2, <1>3, <1>4, <1>5, <1>6, <1>7, <1>8, <1>9, <1>10, <1>11, <1>12, <1>13, <1>14, <1>15, <1>16, <1>17
        DEF QueueNext

LEMMA KeptStart == QueueInit => KeptInv
<1> SUFFICES ASSUME QueueInit PROVE KeptInv
  OBVIOUS
<1>1. QueueInv
  BY QueueStart
<1>2. \A s \in Sessions : Typed(ses[s]) /\ Covered(ses[s]) /\ Waits(ses[s])
  BY NewLogSessionSound DEF QueueInit
<1>3. RestTyped
  <2>1. dialog = NoDialog /\ closed = FALSE /\ asks = 0 /\ given = {}
    BY DEF QueueInit
  <2>2. 0 \in 0..MaxAsks
    BY OpenQueueAssumption
  <2> QED BY <2>1, <2>2, NoDialogTyped DEF RestTyped
<1> QED BY <1>1, <1>2, <1>3 DEF KeptInv, TabsTyped, TabsKept

LEMMA KeptImplies == KeptInv => OpenRequestsKept
<1> SUFFICES ASSUME KeptInv PROVE OpenRequestsKept
  OBVIOUS
<1>1. ses \in [Sessions -> Session] /\ ses[active].life = "hosted"
  BY DEF KeptInv, QueueInv, TabsInv, TabsTyped, Typed
<1>2. QueueTypeOK
  BY <1>1 DEF KeptInv, RestTyped, QueueTypeOK
<1>3. NoStrandedQueue /\ LocatorsCoverRows
  BY DEF KeptInv, TabsKept, Covered, Named, Waits, NoStrandedQueue, LocatorsCoverRows, Hosted
<1> QED BY <1>2, <1>3 DEF OpenRequestsKept

(* No file the user asked for is forgotten, whichever completions, opens,  *)
(* promotions, undos and configurations meet: what waits in a queue waits  *)
(* for a job whose end takes it (StreamNextPendingFile has no other        *)
(* caller).  And the locators that a file session saves name every file    *)
(* whose rows it shows, a live tail that is still due included.            *)
THEOREM RequestsStay == QueueSpec => []OpenRequestsKept
<1>1. KeptInv /\ [QueueNext]_queueVars => KeptInv'
  BY KeptStep, QueueStep DEF KeptInv, SafeStep
<1> QED BY <1>1, KeptStart, KeptImplies, PTL DEF QueueSpec
=============================================================================
