----------------------------- MODULE FollowTail -----------------------------
(***************************************************************************)
(* "Follow newest": the table view of one tab, its scroll bar, the pill    *)
(* that counts the rows the user has missed, and the shell action that     *)
(* keeps the view at the newest row.                                       *)
(*                                                                         *)
(* Scroll positions are counted in rows: every row is one unit high and    *)
(* the viewport shows Page of them, so `value` is the index of the top     *)
(* visible row.  One action is one handler of the GUI thread; the signals  *)
(* the handler raises (rows inserted, range changed, value changed) are    *)
(* the operators it applies, in the order Qt delivers them: the base       *)
(* class's slots run first, so the range has grown before OnRowsInserted.  *)
(***************************************************************************)
EXTENDS Naturals, Integers, FiniteSets, Sequences, SequencesExt

CONSTANTS
    Page,           \* rows the viewport shows
    TailCap,        \* retention cap of the live session
    WalkLimit,      \* JUMP_FALLBACK_WALK_LIMIT, 256 in the code
    TailBatches,    \* the batches a stream delivers: sequences of [ok, key]
    MaxTailLines,   \* bound: lines delivered
    MaxTailSteps    \* bound: steps of a behaviour

ASSUME TailAssumption ==
    /\ {Page, TailCap, MaxTailLines, MaxTailSteps} \subseteq Nat \ {0}
    /\ WalkLimit \in Nat
    /\ TailBatches \subseteq Seq([ok : BOOLEAN, key : Int])

VARIABLES
    log,        \* rows of the model, oldest first: [id, ok, key]
    way,        \* [rev, sorted, filtered]: how the proxies show them
    view,       \* LogTableView: [value, edge, atTail, pending, quiet, user]
    follow,     \* actionFollowTail is checked
    live,       \* IsLiveTailSession
    front,      \* this tab is the active one
    arrived,    \* lines delivered so far
    missed,     \* shown lines since the user was at the tail: all of them, and
                \* those of batches that found the user away already (history)
    reading,    \* the last step: [did, top, away] before it (history)
    browse,     \* the user browses: "no", "yes", or "flag" when an earlier
                \* scroll bar action was still marked as the user's (history)
    tailSteps

followVars ==
    <<log, way, view, follow, live, front, arrived, missed, reading, browse, tailSteps>>

-----------------------------------------------------------------------------
(* What the proxies show.                                                  *)

\* Row order before the filter proxy: arrival order, or its reverse.
Earlier(rev, a, b) == IF rev THEN a.id > b.id ELSE a.id < b.id

\* The order of the proxies: by key when sorted, ties in row order.
Before(w, a, b) ==
    IF w.sorted /\ a.key # b.key THEN a.key < b.key ELSE Earlier(w.rev, a, b)

Accepted(rows, w) == {r \in Range(rows) : w.filtered => r.ok}
Above(S, w, r) == {o \in S : Before(w, o, r)}

\* The rows in display order: i - 1 rows are shown above the i-th.
Display(rows, w) ==
    LET S == Accepted(rows, w)
    IN [i \in 1 .. Cardinality(S) |-> CHOOSE r \in S : Cardinality(Above(S, w, r)) = i - 1]

Position(d, id) == CHOOSE i \in DOMAIN d : d[i].id = id
Shows(d, id) == \E i \in DOMAIN d : d[i].id = id

MaxValue(n) == IF n > Page THEN n - Page ELSE 0
Clamp(x, n) == IF x < 0 THEN 0 ELSE IF x > MaxValue(n) THEN MaxValue(n) ELSE x

\* Ids the viewport paints.
Painted(d, v) == {d[i].id : i \in {j \in DOMAIN d : j > v.value /\ j <= v.value + Page}}

-----------------------------------------------------------------------------
(* The view's slots.  `s` is [n, view, follow]: n rows are laid out.       *)

ComputeAtTailEdge(edge, value, n) ==
    IF edge = "bottom" THEN value >= MaxValue(n) ELSE value <= 0

SuppressedKeepsCount(v, on) == [v EXCEPT !.quiet = on]

SetPendingNewRowsSuppressed(v, on) ==
    IF v.quiet = on THEN v
    ELSE [v EXCEPT !.quiet = on, !.pending = IF on THEN 0 ELSE @]

\* QAction::setChecked with the toggled() slot of the active view.
SetFollow(s, on) ==
    IF s.follow = on THEN s
    ELSE [s EXCEPT !.follow = on, !.view = SetPendingNewRowsSuppressed(@, on)]

\* The shell's slots for userScrolledToTail and userScrolledAwayFromTail;
\* a background view has no such connection.
UserScrolled(s, atTail) ==
    IF ~front \/ (atTail /\ ~live) THEN s ELSE SetFollow(s, atTail)

OnVerticalScrollValueChanged(s, value) ==
    LET at == ComputeAtTailEdge(s.view.edge, value, s.n)
        seen == [s EXCEPT !.view.value = value, !.view.user = FALSE]
        moved == [seen EXCEPT !.view.atTail = at, !.view.pending = IF at THEN 0 ELSE @]
    IN IF at = s.view.atTail THEN seen
       ELSE IF s.view.user THEN UserScrolled(moved, at) ELSE moved

\* QScrollBar::setValue.
SetValue(s, value) ==
    LET bounded == Clamp(value, s.n)
    IN IF bounded = s.view.value THEN s ELSE OnVerticalScrollValueChanged(s, bounded)

RangeHookMissing(s) == s

OnVerticalScrollRangeChanged(s) ==
    LET at == ComputeAtTailEdge(s.view.edge, s.view.value, s.n)
    IN IF at = s.view.atTail THEN s
       ELSE [s EXCEPT !.view.atTail = at, !.view.pending = IF at THEN 0 ELSE @]

\* QScrollBar::setRange: the signal, then the value is bounded again.
SetRange(s, n) ==
    LET grown == [s EXCEPT !.n = n]
    IN IF MaxValue(n) = MaxValue(s.n) THEN grown
       ELSE SetValue(OnVerticalScrollRangeChanged(grown), grown.view.value)

AnchorNeverSaved(s, d) == 0

\* SaveAnchorIfShouldPreserve: the id of the top visible row, or 0.
SavedAnchor(s, d) ==
    IF s.view.edge # "top" \/ s.view.atTail \/ d = <<>> THEN 0
    ELSE d[s.view.value + 1].id

\* RestoreAnchorIfSaved.
RestoreAnchor(s, anchor, d) ==
    IF anchor = 0 \/ ~Shows(d, anchor) THEN s
    ELSE SetValue(s, Position(d, anchor) - 1)

\* Rows of `added` appear in the proxy as one range.
TableRowsInserted(s, before, after) ==
    LET laid == RestoreAnchor(SetRange(s, Len(after)), SavedAnchor(s, before), after)
        batch == Len(after) - Len(before)
    IN IF laid.view.atTail \/ laid.view.quiet THEN laid
       ELSE [laid EXCEPT !.view.pending = @ + batch]

\* The ranges LogFilterModel inserts: all at once in row order, one by one
\* into a sorted view.  The result holds the rows inserted so far.
Inserted(s, before, after) ==
    IF before = after THEN s ELSE TableRowsInserted(s, before, after)

\* The rows are taken in row order, so newest first the newest is the first.
FirstOf(new, i) ==
    IF way.rev THEN SubSeq(new, Len(new) - i + 1, Len(new)) ELSE SubSeq(new, 1, i)

InsertRows(s, rows, new) ==
    LET shown[i \in 0 .. Len(new)] == Display(rows \o FirstOf(new, i), way)
        oneByOne[i \in 0 .. Len(new)] ==
            IF i = 0 THEN s ELSE Inserted(oneByOne[i - 1], shown[i - 1], shown[i])
    IN IF way.sorted THEN oneByOne[Len(new)]
       ELSE Inserted(s, Display(rows, way), Display(rows \o new, way))

\* layoutAboutToBeChanged, the new order, layoutChanged.
Relayout(s, before, after) ==
    RestoreAnchor(SetRange(s, Len(after)), SavedAnchor(s, before), after)

-----------------------------------------------------------------------------
(* LogSessionView and the shell.                                           *)

\* The newest shown row among the last WalkLimit + 1, or 0.
NewestWithin(rows, d) ==
    LET near == {r \in Range(rows) :
            Shows(d, r.id) /\ Last(rows).id - r.id <= WalkLimit}
    IN IF near = {} THEN 0 ELSE (CHOOSE r \in near : \A o \in near : o.id <= r.id).id

JumpFindsNewestOnly(s, rows, d) ==
    IF rows = <<>> \/ ~Shows(d, Last(rows).id) THEN s
    ELSE LET at == Position(d, Last(rows).id) - 1
         IN SetValue(s, IF s.view.edge = "top" THEN at ELSE at - Page + 1)

JumpToNewestRow(s, rows, d) ==
    LET newest == NewestWithin(rows, d)
        at == IF newest # 0 THEN Position(d, newest) - 1
              ELSE IF s.view.edge = "top" THEN 0 ELSE Len(d) - 1
    IN IF rows = <<>> THEN s
       ELSE IF d = <<>> THEN [s EXCEPT !.view.pending = 0]
       ELSE SetValue(s, IF s.view.edge = "top" THEN at ELSE at - Page + 1)

ScrollToNewestRowIfFollowing(s, rows, d) ==
    IF live /\ s.follow THEN JumpToNewestRow(s, rows, d) ELSE s

TailState(d) == [n |-> Len(d), view |-> view, follow |-> follow]

\* SetTailEdge.
SetTailEdge(s, edge) ==
    LET at == ComputeAtTailEdge(edge, s.view.value, s.n)
    IN [s EXCEPT !.view.edge = edge, !.view.atTail = at,
            !.view.pending = IF edge # s.view.edge \/ at THEN 0 ELSE @]

-----------------------------------------------------------------------------
(* Actions.                                                                *)

Ids(d) == {d[i].id : i \in DOMAIN d}

\* Bookkeeping common to every step: d is what is shown after it.
Settle(s, did, d, new, reset) ==
    /\ view' = s.view /\ follow' = s.follow
    /\ reading' = [did |-> did,
                   top |-> LET old == Display(log, way)
                           IN IF old = <<>> THEN 0 ELSE old[view.value + 1].id,
                   away |-> ~view.atTail /\ view.edge = "top" /\ ~follow]
    /\ LET ids == {r.id : r \in {q \in new : way.filtered => q.ok}}
           old == IF reset THEN [all |-> {}, sure |-> {}] ELSE missed
       IN missed' = IF s.view.atTail \/ s.view.quiet THEN [all |-> {}, sure |-> {}]
                    ELSE [all |-> old.all \cup ids,
                          sure |-> IF reset \/ (view.atTail /\ way.sorted) THEN old.sure
                                   ELSE old.sure \cup ids]
    /\ tailSteps' = tailSteps + 1

Browsing(b) == browse' = b

FollowInit ==
    /\ log = <<>> /\ arrived = 0
    /\ way \in [rev : BOOLEAN, sorted : BOOLEAN, filtered : BOOLEAN]
    /\ follow = TRUE /\ live = TRUE /\ front = TRUE
    /\ view = [value |-> 0, edge |-> IF way.rev THEN "top" ELSE "bottom",
               atTail |-> TRUE, pending |-> 0, quiet |-> TRUE, user |-> FALSE]
    /\ missed = [all |-> {}, sure |-> {}] /\ browse = "no" /\ tailSteps = 0
    /\ reading = [did |-> "init", top |-> 0, away |-> FALSE]

\* LogModel::AppendBatch with its eviction, then lineCountChanged.
Deliver(b) ==
    LET new == [i \in DOMAIN b |-> [id |-> arrived + i, ok |-> b[i].ok, key |-> b[i].key]]
        over == Len(log) + Len(b) - TailCap
        drop == IF over < 0 THEN 0 ELSE IF over > Len(log) THEN Len(log) ELSE over
        kept == SubSeq(log, drop + 1, Len(log))
        rows == kept \o new
        d == Display(rows, way)
        evicted == SetRange(TailState(Display(log, way)), Len(Display(kept, way)))
        grown == InsertRows(evicted, kept, new)
    IN /\ live /\ arrived + Len(b) <= MaxTailLines
       /\ arrived' = arrived + Len(b) /\ log' = rows
       /\ Settle(IF front THEN ScrollToNewestRowIfFollowing(grown, rows, d) ELSE grown,
                 "batch", d, Range(new), evicted.view.atTail)
       /\ UNCHANGED <<way, live, front, browse>>

\* keyPressEvent, wheelEvent: the mark lives as long as the event.
ScrollByWheel(to) ==
    LET d == Display(log, way)
        s == SetValue([TailState(d) EXCEPT !.view.user = TRUE], to)
    IN /\ front /\ to \in 0 .. MaxValue(Len(d))
       /\ Settle([s EXCEPT !.view.user = FALSE], "user", d, {}, FALSE)
       /\ Browsing("no")
       /\ UNCHANGED <<log, way, live, front, arrived>>

\* actionTriggered: the mark lives until the next value change.
ScrollByBar(to) ==
    LET d == Display(log, way)
        s == SetValue([TailState(d) EXCEPT !.view.user = TRUE], to)
    IN /\ front /\ MaxValue(Len(d)) > 0 /\ to \in 0 .. MaxValue(Len(d))
       /\ Settle(s, "user", d, {}, FALSE)
       /\ Browsing("no")
       /\ UNCHANGED <<log, way, live, front, arrived>>

ToggleFollow ==
    LET d == Display(log, way)
    IN /\ front /\ live
       /\ Settle(SetFollow(TailState(d), ~follow), "user", d, {}, FALSE)
       /\ Browsing("no")
       /\ UNCHANGED <<log, way, live, front, arrived>>

\* The pill is clicked: jumpToTailRequested.
PillClicked ==
    LET d == Display(log, way)
        known == [TailState(d) EXCEPT !.view.pending = 0]
        jumped == JumpToNewestRow(known, log, d)
    IN /\ front /\ view.pending > 0
       /\ Settle(IF live THEN SetFollow(jumped, TRUE) ELSE jumped, "user", d, {}, TRUE)
       /\ Browsing("no")
       /\ UNCHANGED <<log, way, live, front, arrived>>

ScrollToProxyRowKeepsFollowing(s, at) == SetValue(s, at - Page \div 2)

\* LogSessionView::ScrollToProxyRow: disengage, then centre the row.
ScrollToProxyRow(s, at) == SetValue(SetFollow(s, FALSE), at - Page \div 2)

RailClicked(at) ==
    LET d == Display(log, way)
    IN /\ front /\ at \in 0 .. Len(d) - 1
       /\ Settle(ScrollToProxyRow(TailState(d), at), "browse", d, {}, FALSE)
       /\ Browsing(IF view.user THEN "flag" ELSE "yes")
       /\ UNCHANGED <<log, way, live, front, arrived>>

\* LogSessionView::SelectSourceRow: go-to, anchor and histogram jumps.
SelectShownRow(at) ==
    LET d == Display(log, way)
    IN /\ front /\ at \in 0 .. Len(d) - 1
       /\ Settle(SetValue(TailState(d), at - Page \div 2), "select", d, {}, FALSE)
       /\ browse' = IF view.user /\ browse = "yes" THEN "flag" ELSE browse
       /\ UNCHANGED <<log, way, live, front, arrived>>

\* MainWindow::ApplyDisplayOrder after the preference changed.
ApplyTailOrder(rev) ==
    LET w == [way EXCEPT !.rev = rev]
        d == Display(log, w)
        turned == IF rev = way.rev THEN TailState(d)
                  ELSE Relayout(TailState(d), Display(log, way), d)
        edged == SetTailEdge(turned, IF rev THEN "top" ELSE "bottom")
    IN /\ way' = w
       /\ Settle(IF live /\ front THEN ScrollToNewestRowIfFollowing(edged, log, d) ELSE edged,
                 "order", d, {}, rev # way.rev)
       /\ browse' = IF view.user /\ browse = "yes" THEN "flag" ELSE browse
       /\ UNCHANGED <<log, live, front, arrived>>

\* The filter or the sort changes: LogFilterModel lays its rows out again.
ChangeLayout(w) ==
    LET d == Display(log, w)
    IN /\ front /\ w # way /\ w.rev = way.rev
       /\ way' = w
       /\ Settle(Relayout(TailState(Display(log, way)), Display(log, way), d), "layout", d, {}, FALSE)
       /\ browse' = IF view.user /\ browse = "yes" THEN "flag" ELSE browse
       /\ UNCHANGED <<log, live, front, arrived>>

\* Another tab is activated, and may change the shared action.
Leave(on) ==
    /\ front
    /\ front' = FALSE /\ follow' = on /\ tailSteps' = tailSteps + 1
    /\ Browsing("no") /\ reading' = [reading EXCEPT !.did = "leave"]
    /\ UNCHANGED <<log, way, view, live, arrived, missed>>

\* The tab is bound again: the pill follows the action's state.
Return ==
    LET d == Display(log, way)
    IN /\ ~front
       /\ front' = TRUE
       /\ Settle([TailState(d) EXCEPT !.view = SetPendingNewRowsSuppressed(@, follow)],
                 "return", d, {}, FALSE)
       /\ UNCHANGED <<log, way, live, arrived, browse>>

\* OnStreamingFinished of the active tab: the action returns to its default
\* behind a QSignalBlocker, so the view is not told.
StreamEnds ==
    /\ live
    /\ live' = FALSE
    /\ follow' = (front \/ follow)
    /\ tailSteps' = tailSteps + 1 /\ reading' = [reading EXCEPT !.did = "end"]
    /\ Browsing("no")
    /\ UNCHANGED <<log, way, view, front, arrived, missed>>

\* A new live session in the same tab: the model is reset.
StreamStarts ==
    LET empty == [n |-> 0, view |-> [view EXCEPT !.pending = 0], follow |-> follow]
        s == SetRange([empty EXCEPT !.n = Len(Display(log, way))], 0)
    IN /\ ~live /\ front
       /\ live' = TRUE /\ log' = <<>>
       /\ Settle(SetTailEdge(s, view.edge), "start", <<>>, {}, TRUE)
       /\ Browsing("no")
       /\ UNCHANGED <<way, front, arrived>>

FollowNext ==
    /\ tailSteps < MaxTailSteps
    /\ \/ \E b \in TailBatches : Deliver(b)
       \/ \E at \in 0 .. Len(log) : \/ ScrollByWheel(at) \/ ScrollByBar(at)
                                    \/ RailClicked(at) \/ SelectShownRow(at)
       \/ ToggleFollow \/ PillClicked \/ Return \/ StreamEnds \/ StreamStarts
       \/ \E rev \in BOOLEAN : ApplyTailOrder(rev)
       \/ \E w \in [rev : BOOLEAN, sorted : BOOLEAN, filtered : BOOLEAN] : ChangeLayout(w)
       \/ \E on \in BOOLEAN : Leave(on)

FollowSpec == FollowInit /\ [][FollowNext]_followVars

-----------------------------------------------------------------------------
(* Properties.                                                             *)

\* Types, and the cached edge state: after every handler mAtTailEdge and the
\* pill agree with the scroll bar, although rows, ranges, values and the
\* orientation change through different slots.
FollowTypeOK ==
    LET d == Display(log, way)
    IN /\ {follow, live, front, view.quiet, view.user} \subseteq BOOLEAN
       /\ view.value \in 0 .. MaxValue(Len(d))
       /\ view.atTail = ComputeAtTailEdge(view.edge, view.value, Len(d))
       /\ view.atTail => view.pending = 0

\* After every batch a followed view paints the newest row the filter shows,
\* in both orders, sorted or not, evictions included.
FollowingShowsNewest ==
    LET d == Display(log, way)
        newest == NewestWithin(log, d)
    IN (reading.did = "batch" /\ live /\ front /\ follow /\ newest # 0)
        => newest \in Painted(d, view)

\* The pill counts the shown rows that arrived since the user was last at
\* the tail (the rows of the one batch that moves the tail away may be left
\* out), and nothing while Follow is mirrored into the view.
PillCountsMissedRows ==
    /\ ~view.quiet => view.pending \in Cardinality(missed.sure) .. Cardinality(missed.all)
    /\ view.quiet => view.pending = 0

\* Newest first in row order, a user who reads older rows keeps them on screen
\* when rows arrive above and old ones are evicted below, and when the filter
\* changes.
ReadingPositionKept ==
    LET d == Display(log, way)
    IN (/\ reading.did \in {"batch", "layout"} /\ reading.away
        /\ ~way.sorted /\ ~view.atTail /\ ~follow /\ Shows(d, reading.top))
        => reading.top \in Painted(d, view)

\* Once the user browses through the rail nothing but the user re-engages
\* Follow, so no batch takes the rows away.
BrowsingNotYanked == browse = "yes" => ~follow

\* A tail that is followed is shown, one that is not is counted by the pill,
\* and a reader who left it is neither moved nor yanked back.
TailShownOrCounted ==
    /\ FollowTypeOK /\ FollowingShowsNewest /\ PillCountsMissedRows
    /\ ReadingPositionKept /\ BrowsingNotYanked

-----------------------------------------------------------------------------
(* Claims of the code's comments that its behaviour does not meet.         *)

\* "non-user changes cannot disengage Follow newest", nor engage it.
ProgrammaticScrollKeepsFollow == browse \in {"yes", "flag"} => ~follow

\* "Mirror of `actionFollowTail`": a followed view never shows the pill.
PillSilentWhileFollowing == live /\ front /\ follow => view.pending = 0
=============================================================================
