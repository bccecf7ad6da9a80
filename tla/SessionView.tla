----------------------------- MODULE SessionView ----------------------------
(***************************************************************************)
(* One session as its window shows it: the model chain of RowProxies, the  *)
(* anchors on its rows, the record detail dock, the find bar with its      *)
(* cache of matches, and the overview rail.  Rows stream in at the end and *)
(* are evicted at the front while the user sorts, filters, turns the       *)
(* order, moves columns, selects, anchors and searches.                    *)
(*                                                                         *)
(* Qt signals are direct calls, so a handler is a composition of functions *)
(* on the record State, in the order of the connections.  The window and   *)
(* its docks are connected to the active tab only; the chain and the rail  *)
(* belong to the session and listen always.                                *)
(***************************************************************************)
EXTENDS RowProxies

CONSTANTS
    RowValues,      \* the values of a line, for each key
    FirstBatches,   \* what the session holds at first: sequences of RowValues
    BatchSizes,     \* how many lines a batch holds
    Retention,      \* mRetentionCap
    Filters,        \* sets of accepted values
    Needles,        \* what the user searches for: sets of matching values
    Heights,        \* heights of the rail in buckets; 0 is hidden
    MaxFind,        \* MAX_FIND_MATCH_COUNT
    MaxLines,       \* bound on the lines of the stream
    MaxSteps        \* bound on the behaviours checked

VARIABLES
    chain,      \* see RowProxies
    anchors,    \* ids of the anchored lines
    dock,       \* RecordDetailDock: [vis, pin, ever, shows]; pin is a log row
    pinState,   \* what the session keeps of the dock: [row, ever, key]
    find,       \* [bar, needle, due, cache]: the find bar and the session's cache
    rail,       \* OverviewRailModel
    active,     \* the session's tab is the active one
    local,      \* the lines come from a file, so their keys name a locator
    selected,   \* id of the line the user selected last, 0 once it is gone (history)
    cause,      \* why a view may be out of date (history)
    lines,      \* lines the stream has delivered
    steps

viewVars == <<chain, anchors, dock, pinState, find, rail, active, local, selected, cause, lines, steps>>

NoRecord == 0       \* the dock asks to select a row
Evicted == -1       \* the dock says that its record was evicted
NoNeedle == {}
NoCache == [on |-> FALSE, needle |-> NoNeedle, rows |-> <<>>, total |-> 0, over |-> FALSE, buckets |-> <<>>]
AllCells == Cells

State == [c |-> chain, anchors |-> anchors, dock |-> dock, pinState |-> pinState,
          find |-> find, rail |-> rail, active |-> active, local |-> local, selected |-> selected, cause |-> cause]
Becomes(s) ==
    /\ chain' = s.c /\ anchors' = s.anchors /\ dock' = s.dock /\ pinState' = s.pinState
    /\ find' = s.find /\ rail' = s.rail /\ active' = s.active /\ local' = s.local
    /\ selected' = s.selected /\ cause' = s.cause /\ steps' = steps + 1

-----------------------------------------------------------------------------
(* The overview rail: nBuckets over the rows shown                         *)

BucketOf(p, n, count) == Min({((p - 1) * n) \div count + 1, n})
InBucket(rows, b, n, count) == {p \in rows : BucketOf(p, n, count) = b}

LevelCounts(c, lcol, n) ==
    LET level(p) == c.rows[ProxyToLog(c, p)].val[c.cols[lcol]]
        count == Len(c.acc)
    IN <<>> \o [b \in 1 .. n |-> [v \in Cells |->
            Cardinality({p \in InBucket(DOMAIN c.acc, b, n, count) : level(p) = v})]]
AnchoredBuckets(c, ids, n) ==
    <<>> \o [b \in 1 .. n |->
        \E p \in InBucket(DOMAIN c.acc, b, n, Len(c.acc)) : c.rows[ProxyToLog(c, p)].id \in ids]

FoldMatchTicks(r) ==
    IF r.count = 0 THEN [r EXCEPT !.ticks = <<>> \o [b \in 1 .. r.n |-> 0]]
    ELSE [r EXCEPT !.ticks = <<>> \o [b \in 1 .. r.n |->
            Cardinality(InBucket({p \in ToSet(r.rows) : p <= r.count}, b, r.n, r.count))]]
ApplyStoredMatchBucketCounts(r) ==
    IF Len(r.stored) # r.n \/ r.n = 0 THEN r ELSE [r EXCEPT !.ticks = r.stored]

RebuildInternal(s) ==
    LET n == s.rail.n
        counted == [s.rail EXCEPT !.count = Len(s.c.acc),
                        !.levels = LevelCounts(s.c, s.rail.lcol, n),
                        !.marks = AnchoredBuckets(s.c, s.anchors, n),
                        !.ticks = <<>> \o [b \in 1 .. n |-> 0]]
        folded == FoldMatchTicks(counted)
    IN [s EXCEPT !.rail = IF n = 0 \/ counted.count = 0 THEN counted
                          ELSE IF folded.rows = <<>> THEN ApplyStoredMatchBucketCounts(folded)
                          ELSE folded]

ScheduleRebuild(s) == [s EXCEPT !.rail.due = @ \/ s.rail.n # 0]
\* Mutant: the index of the level column is never looked up again.
LevelColumnKept(s) == s

OnColumnsChanged(s) ==
    LET fresh == CHOOSE i \in DOMAIN s.c.cols : s.c.cols[i] = FilterKey
    IN IF fresh = s.rail.lcol THEN s ELSE ScheduleRebuild([s EXCEPT !.rail.lcol = fresh])

\* Mutant: the bucket counts of the last search are kept beside the rows.
SetMatchRowsKeepingCounts(s, rows) ==
    [s EXCEPT !.rail = FoldMatchTicks([@ EXCEPT !.rows = rows, !.count = Len(s.c.acc)])]

SetMatchProxyRows(s, rows) ==
    [s EXCEPT !.rail = FoldMatchTicks([@ EXCEPT !.rows = rows, !.stored = <<>>, !.count = Len(s.c.acc)])]
SetMatchBucketCounts(s, counts) ==
    IF Len(counts) # s.rail.n THEN s
    ELSE [s EXCEPT !.rail = ApplyStoredMatchBucketCounts(
              [@ EXCEPT !.rows = <<>>, !.stored = counts, !.count = Len(s.c.acc)])]
HasMatchTicks(r) == \E b \in DOMAIN r.ticks : r.ticks[b] > 0

-----------------------------------------------------------------------------
(* The find bar: its cache belongs to the session                          *)

MatchingRows(c, needle) ==
    SetToSortSeq({p \in DOMAIN c.acc :
        \E k \in Keys : c.rows[ProxyToLog(c, p)].val[k] \in needle}, <)

InvalidateFindMatchCache(s) ==
    SetMatchProxyRows([s EXCEPT !.find.cache = NoCache, !.cause = @ \ {"find"}], <<>>)
BumpMatchCountDebounce(s) == [s EXCEPT !.find.due = @ \/ s.find.needle # NoNeedle]
OnFindCacheInvalidated(s) ==
    LET dropped == InvalidateFindMatchCache(s)
    IN IF s.find.bar THEN BumpMatchCountDebounce(dropped) ELSE dropped

\* Mutant: the scan stops one match early and calls the count exact.
ScanStopsAtCap(c, needle, n) ==
    LET all == MatchingRows(c, needle)
        seen == SubSeq(all, 1, Min({Len(all), MaxFind}))
    IN [on |-> TRUE, needle |-> needle, rows |-> seen, total |-> Len(seen), over |-> FALSE,
        buckets |-> <<>> \o [b \in 1 .. n |-> Cardinality(InBucket(ToSet(seen), b, n, Len(c.acc)))]]

(* The scan goes on past MaxFind until every bucket has a hit.             *)
ScanMatches(c, needle, n) ==
    LET all == MatchingRows(c, needle)
        hit(i) == {BucketOf(all[j], n, Len(c.acc)) : j \in 1 .. i}
        stops == {i \in DOMAIN all : i > MaxFind /\ (n = 0 \/ Cardinality(hit(i)) >= n)}
        total == IF stops = {} THEN Len(all) ELSE Min(stops)
        seen == SubSeq(all, 1, total)
    IN [on |-> TRUE, needle |-> needle, total |-> total, over |-> total > MaxFind,
        rows |-> SubSeq(seen, 1, Min({total, MaxFind})),
        buckets |-> <<>> \o [b \in 1 .. n |-> Cardinality(InBucket(ToSet(seen), b, n, Len(c.acc)))]]

UpdateFindMatchCount(s) ==
    LET needle == s.find.needle
        n == s.rail.n
        cache == ScanMatches(s.c, needle, n)
        scanned == [s EXCEPT !.find.cache = cache, !.cause = @ \ {"find"}]
    IN CASE ~s.find.bar -> s
         [] needle = NoNeedle \/ s.c.acc = <<>> -> InvalidateFindMatchCache(s)
         [] s.find.cache.on /\ s.find.cache.needle = needle -> s
         [] n > 0 -> SetMatchBucketCounts(scanned, cache.buckets)
         [] OTHER -> SetMatchProxyRows(scanned, cache.rows)

PushFindMatchesToOverviewRail(s) ==
    LET cache == s.find.cache
    IN IF ~cache.on \/ ~s.find.bar \/ s.rail.n = 0 THEN s
       ELSE IF Len(cache.buckets) = s.rail.n THEN SetMatchBucketCounts(s, cache.buckets)
       ELSE LET again == UpdateFindMatchCount(
                    [s EXCEPT !.find.cache = NoCache, !.find.needle = cache.needle])
            IN [again EXCEPT !.find.needle = s.find.needle]

(* The window's slot on the rail's bucketsChanged.                         *)
OnBucketsChanged(s) ==
    IF /\ s.active /\ s.find.bar /\ s.find.cache.on /\ s.rail.n # 0
       /\ ~(Len(s.find.cache.buckets) = s.rail.n /\ HasMatchTicks(s.rail))
    THEN PushFindMatchesToOverviewRail(s) ELSE s

-----------------------------------------------------------------------------
(* What follows a change of the rows shown                                 *)

RowsChanged(s) ==
    LET told == ScheduleRebuild(s)
    IN IF s.active THEN OnFindCacheInvalidated(told)
       ELSE [told EXCEPT !.cause = IF s.find.cache.on THEN @ \cup {"find"} ELSE @]

-----------------------------------------------------------------------------
(* The record detail dock                                                  *)

DockShows(s, logRow) == s.c.rows[logRow].id
DockClear(s) == [s EXCEPT !.dock.pin = 0, !.dock.ever = FALSE, !.dock.shows = NoRecord]
ShowEvictedPlaceholder(s) == [s EXCEPT !.dock.pin = 0, !.dock.shows = Evicted]
RefreshFromModel(s) ==
    IF s.dock.pin = 0 THEN DockClear(s) ELSE [s EXCEPT !.dock.shows = DockShows(s, s.dock.pin)]
ShowSourceRow(s, logRow) ==
    IF logRow \notin 1 .. N(s.c) THEN DockClear(s)
    ELSE RefreshFromModel([s EXCEPT !.dock.pin = logRow, !.dock.ever = TRUE])

\* Mutant: the pin, a log row, is compared with a row of the view.
DetailsByViewRow(s) ==
    LET logRow == ProxyToLog(s.c, s.c.cur)
    IN CASE ~s.dock.vis \/ ~s.active -> s
         [] logRow = 0 -> DockClear(s)
         [] s.c.cur = s.dock.pin -> s
         [] OTHER -> ShowSourceRow(s, logRow)

UpdateRecordDetailsFromSelection(s) ==
    LET logRow == ProxyToLog(s.c, s.c.cur)
    IN CASE ~s.dock.vis \/ ~s.active -> s
         [] logRow = 0 -> DockClear(s)
         [] logRow = s.dock.pin -> s
         [] OTHER -> ShowSourceRow(s, logRow)

OnLogRowsRemoved(s) ==
    CASE ~s.active -> s
      [] s.dock.pin # 0 -> IF s.dock.vis THEN RefreshFromModel(s) ELSE s
      [] s.dock.ever -> ShowEvictedPlaceholder(s)
      [] OTHER -> s

SaveStateIntoBoundSession(s) ==
    [s EXCEPT !.pinState = [row |-> s.dock.pin, ever |-> s.dock.ever,
        key |-> IF s.local /\ s.dock.pin # 0 THEN s.c.rows[s.dock.pin].id ELSE 0]]
RestoreStateFromSession(s) ==
    LET at == {r \in DOMAIN s.c.rows : s.c.rows[r].id = s.pinState.key}
        bare == [s EXCEPT !.dock.pin = 0, !.dock.ever = FALSE]
    IN CASE s.pinState.key # 0 /\ at # {} -> ShowSourceRow(bare, Min(at))
         [] s.pinState.row # 0 -> ShowSourceRow(bare, s.pinState.row)
         [] s.pinState.ever -> ShowEvictedPlaceholder([bare EXCEPT !.dock.ever = TRUE])
         [] OTHER -> DockClear(bare)

-----------------------------------------------------------------------------
(* Rows arrive and leave                                                   *)

(* One run of proxy rows goes.  Qt moves the current row out of the run    *)
(* before it goes and says so, while the rows the filter accepts still     *)
(* have the numbers they had before the eviction.                          *)
RemoveRun(s, run) ==
    LET hit == s.c.cur \in run[1] .. run[2]
        moved == [s EXCEPT !.c.cur = CurrentBesideRun(s.c, run[1], run[2]), !.selected = 0,
                           !.cause = @ \cup {"current evicted"}]
        told == IF hit THEN UpdateRecordDetailsFromSelection(moved) ELSE s
    IN RowsChanged([told EXCEPT !.c = RunRemoved(@, run[1], run[2])])

OnSourceRowsRemoved(s, first, last) ==
    LET dropped == DroppedProxyRows(s.c, first, last)
        later(x, y) == x[1] > y[1]
        emptied == FoldLeft(RemoveRun, s, SetToSortSeq(CoalescedRuns(dropped), later))
    IN [emptied EXCEPT !.c = RowsShiftedDown(@, last, last - first + 1)]

(* Anchors on evicted lines go with them, after the rows have gone.        *)
RemoveAnchors(s, ids) ==
    IF s.anchors \cap ids = {} THEN s ELSE ScheduleRebuild([s EXCEPT !.anchors = @ \ ids])

\* Mutant: anchors outlive the rows they mark.
EvictKeepingAnchors(s, n) ==
    LET was == N(s.c)
        range == IF s.c.rev THEN <<was - n + 1, was>> ELSE <<1, n>>
        gone == [s EXCEPT !.c.rows = SubSeq(@, n + 1, was),
                          !.dock.pin = IF @ > n THEN @ - n ELSE 0]
    IN IF n = 0 THEN s ELSE OnLogRowsRemoved(OnSourceRowsRemoved(gone, range[1], range[2]))

EvictPrefixRows(s, n) ==
    LET was == N(s.c)
        range == IF s.c.rev THEN <<was - n + 1, was>> ELSE <<1, n>>
        ids == {s.c.rows[r].id : r \in 1 .. n}
        gone == [s EXCEPT !.c.rows = SubSeq(@, n + 1, was),
                          !.dock.pin = IF @ > n THEN @ - n ELSE 0,
                          !.cause = IF s.active THEN @ ELSE @ \cup {"evicted away"}]
    IN IF n = 0 THEN s
       ELSE RemoveAnchors(OnLogRowsRemoved(OnSourceRowsRemoved(gone, range[1], range[2])), ids)

AppendBatch(s, new) ==
    LET kept == SubSeq(new, Max({1, Len(new) - Retention + 1}), Len(new))
        evicted == EvictPrefixRows(s, Max({0, N(s.c) + Len(kept) - Retention}))
        after == [evicted EXCEPT !.c = RowsAppended(@, kept)]
    IN IF Len(after.c.acc) = Len(evicted.c.acc) THEN after ELSE RowsChanged(after)

Stream ==
    \E n \in BatchSizes : \E vals \in [1 .. n -> RowValues] :
        /\ lines + n <= MaxLines
        /\ lines' = lines + n
        /\ Becomes(AppendBatch(State, [i \in 1 .. n |-> [id |-> lines + i, val |-> vals[i]]]))

ModelReset ==
    LET cleared == [State EXCEPT !.c = OnSourceModelReset(@), !.anchors = {}, !.selected = 0]
        tracked == OnColumnsChanged(RowsChanged(cleared))
    IN /\ chain.rows # <<>> /\ active
       /\ Becomes(DockClear(tracked)) /\ UNCHANGED lines

-----------------------------------------------------------------------------
(* What the user does, on the active tab                                   *)

(* A sort and a filter are one layout change of the filter model.          *)
LayoutChanged(s, c) == RowsChanged([s EXCEPT !.c = c])

Sort ==
    \E col \in 0 .. Len(chain.cols), ascending \in BOOLEAN :
        /\ active /\ <<col, ascending>> # <<chain.sortCol, chain.asc>>
        /\ Becomes([LayoutChanged(State, SortBy(chain, col, ascending)) EXCEPT !.cause = @ \ {"sort"}])
        /\ UNCHANGED lines

SetFilterExpression ==
    \E f \in Filters \cup {AllCells} :
        /\ active /\ f # chain.keep
        /\ Becomes([LayoutChanged(State, RebuildAcceptedRows([chain EXCEPT !.keep = f]))
                        EXCEPT !.cause = @ \ {"sort"}])
        /\ UNCHANGED lines

ApplyDisplayOrder ==
    /\ Becomes([LayoutChanged(State, SetReversed(chain, ~chain.rev)) EXCEPT !.cause = @ \ {"sort"}])
    /\ UNCHANGED lines

UserMovesColumn ==
    \E from, to \in DOMAIN chain.cols :
        /\ active /\ from # to
        /\ LET moved == OnColumnsChanged([State EXCEPT !.c = MoveColumn(@, from, to)])
               refreshed == IF dock.vis /\ dock.pin # 0 THEN RefreshFromModel(moved) ELSE moved
               told == OnFindCacheInvalidated(refreshed)
               again == LayoutChanged(told, RebuildAcceptedRows(told.c))
           IN Becomes(IF chain.keep = AllCells THEN told
                      ELSE [again EXCEPT !.cause = @ \ {"sort"}])
        /\ UNCHANGED lines

(* A column's values compare differently from now on.  The filter model    *)
(* rebuilds, and so sorts again, only if the filter looks at the column.   *)
OnSourceDataChanged(s, key, styleOnly) ==
    IF s.c.keep # AllCells /\ key \in {FilterKey, "all"}
    THEN [LayoutChanged(s, RebuildAcceptedRows(s.c)) EXCEPT !.cause = @ \ {"sort"}]
    ELSE IF styleOnly \/ s.c.acc = <<>> THEN s ELSE OnFindCacheInvalidated(s)

EditColumnType ==
    \E k \in Keys, t \in Types :
        /\ active /\ chain.rows # <<>> /\ t # chain.type[k]
        /\ LET edited == [State EXCEPT !.c.type[k] = t,
                   !.cause = IF chain.sortCol # 0 /\ chain.cols[chain.sortCol] = k
                             THEN @ \cup {"sort"} ELSE @]
               told == OnSourceDataChanged(edited, k, FALSE)
           IN Becomes(IF dock.vis /\ dock.pin # 0 THEN RefreshFromModel(told) ELSE told)
        /\ UNCHANGED lines

(* The repaint of an anchored row is a data change of all its columns.     *)
ToggleAnchor ==
    \E r \in DOMAIN chain.rows :
        /\ active
        /\ LET id == chain.rows[r].id
               toggled == [State EXCEPT !.anchors = IF id \in @ THEN @ \ {id} ELSE @ \cup {id}]
               told == ScheduleRebuild(OnSourceDataChanged(toggled, "all", TRUE))
           IN Becomes(IF dock.vis /\ dock.pin = r THEN RefreshFromModel(told) ELSE told)
        /\ UNCHANGED lines

SelectRow ==
    \E p \in DOMAIN chain.acc :
        /\ active /\ p # chain.cur
        /\ Becomes(UpdateRecordDetailsFromSelection(
               [State EXCEPT !.c.cur = p, !.selected = chain.rows[ProxyToLog(chain, p)].id,
                             !.cause = @ \ {"current evicted", "evicted away"}]))
        /\ UNCHANGED lines

(* Shown again, the dock refreshes what it holds and then follows the      *)
(* selection.                                                              *)
ToggleDock ==
    /\ LET revealed == [State EXCEPT !.dock.vis = TRUE]
           refreshed == IF dock.pin # 0 THEN RefreshFromModel(revealed) ELSE revealed
       IN Becomes(IF dock.vis \/ ~active THEN [State EXCEPT !.dock.vis = ~@]
                  ELSE UpdateRecordDetailsFromSelection(refreshed))
    /\ UNCHANGED lines

TypeNeedle ==
    \E needle \in Needles \cup {NoNeedle} :
        /\ active /\ find.bar /\ needle # find.needle
        /\ LET typed == [State EXCEPT !.find.needle = needle]
           IN Becomes(IF needle = NoNeedle
                      THEN UpdateFindMatchCount([typed EXCEPT !.find.due = FALSE])
                      ELSE [typed EXCEPT !.find.due = TRUE])
        /\ UNCHANGED lines
MatchCountTimeout ==
    /\ find.due /\ active
    /\ Becomes(UpdateFindMatchCount([State EXCEPT !.find.due = FALSE])) /\ UNCHANGED lines

(* Closing the bar clears the ticks of the active tab's rail and keeps the *)
(* cache; revealing it restores them.                                      *)
ToggleFindBar ==
    /\ LET revealed == BumpMatchCountDebounce([State EXCEPT !.find.bar = TRUE])
           hidden == SetMatchProxyRows([State EXCEPT !.find.bar = FALSE], <<>>)
       IN Becomes(IF ~active THEN [State EXCEPT !.find.bar = ~@, !.cause = @ \cup {"bar"}]
                  ELSE IF find.bar THEN hidden ELSE PushFindMatchesToOverviewRail(revealed))
    /\ UNCHANGED lines

SetBucketCount ==
    \E n \in Heights :
        /\ n # rail.n
        /\ Becomes(OnBucketsChanged(
               RebuildInternal([State EXCEPT !.rail.n = n, !.rail.due = FALSE])))
        /\ UNCHANGED lines
RebuildTimeout ==
    /\ rail.due
    /\ Becomes(OnBucketsChanged(RebuildInternal([State EXCEPT !.rail.due = FALSE])))
    /\ UNCHANGED lines

(* The other tab becomes active, or this one again.                        *)
SwitchTab ==
    /\ LET left == SaveStateIntoBoundSession([State EXCEPT !.active = FALSE, !.find.due = FALSE])
           back == BumpMatchCountDebounce([State EXCEPT !.active = TRUE])
       IN Becomes(IF active THEN [left EXCEPT !.dock.pin = 0]
                  ELSE RestoreStateFromSession(back))
    /\ UNCHANGED lines

(* A session that is empty, or has received its first batch.               *)
EmptyState(n, reversed, fromFile) ==
    LET c == [rows |-> <<>>, rev |-> reversed, keep |-> AllCells, acc |-> <<>>, inv |-> <<>>,
              sortCol |-> 0, asc |-> TRUE, cols |-> SetToSeq(Keys),
              type |-> [k \in Keys |-> CHOOSE t \in Types : TRUE], cur |-> 0]
    IN RebuildInternal(
        [c |-> c, anchors |-> {}, selected |-> 0, cause |-> {}, active |-> TRUE, local |-> fromFile,
         dock |-> [vis |-> TRUE, pin |-> 0, ever |-> FALSE, shows |-> NoRecord],
         pinState |-> [row |-> 0, ever |-> FALSE, key |-> 0],
         find |-> [bar |-> TRUE, needle |-> NoNeedle, due |-> FALSE, cache |-> NoCache],
         rail |-> [n |-> n, count |-> 0, levels |-> <<>>, marks |-> <<>>, ticks |-> <<>>,
                   rows |-> <<>>, stored |-> <<>>, due |-> FALSE,
                   lcol |-> CHOOSE i \in DOMAIN c.cols : c.cols[i] = FilterKey]])

ViewInit ==
    /\ \E n \in Heights, reversed, fromFile \in BOOLEAN, vals \in FirstBatches :
          LET s == AppendBatch(EmptyState(n, reversed, fromFile),
                               [i \in DOMAIN vals |-> [id |-> i, val |-> vals[i]]])
          IN /\ chain = s.c /\ anchors = s.anchors /\ dock = s.dock /\ pinState = s.pinState
             /\ find = s.find /\ rail = s.rail /\ active = s.active /\ local = s.local
             /\ selected = s.selected /\ cause = s.cause /\ lines = Len(vals)
    /\ steps = 0

ViewNext ==
    /\ steps < MaxSteps
    /\ \/ Stream \/ ModelReset \/ Sort \/ SetFilterExpression \/ ApplyDisplayOrder
       \/ UserMovesColumn \/ EditColumnType \/ ToggleAnchor \/ SelectRow \/ ToggleDock
       \/ TypeNeedle \/ MatchCountTimeout \/ ToggleFindBar \/ SetBucketCount
       \/ RebuildTimeout \/ SwitchTab

ViewSpec == ViewInit /\ [][ViewNext]_viewVars

-----------------------------------------------------------------------------
IdAt(p) == chain.rows[ProxyToLog(chain, p)].id

ViewTypeOK ==
    /\ N(chain) <= Retention /\ chain.cur \in 0 .. Len(chain.acc)
    /\ chain.sortCol \in 0 .. Len(chain.cols) /\ dock.pin \in 0 .. N(chain)
    /\ Len(rail.levels) = rail.n /\ Len(rail.ticks) = rail.n

(* The rows shown are the rows the filter accepts, each once, and the two  *)
(* directions of the mapping agree, however rows stream in and are evicted *)
(* under any sort and order.                                               *)
ShownAreAccepted ==
    /\ {ProxyToLog(chain, p) : p \in DOMAIN chain.acc} = FilterAcceptedRows(chain)
    /\ Len(chain.acc) = Cardinality(FilterAcceptedRows(chain))
    /\ Len(chain.inv) = N(chain)
    /\ \A r \in DOMAIN chain.inv : \A p \in DOMAIN chain.acc :
          (chain.inv[r] = p) <=> (chain.acc[p] = r)

(* The rows stay in the order of the sort, or of the log, or of the log    *)
(* turned round: inserting row by row gives what sorting them all gives.   *)
(* A type edit of the sorted column is the known exception: it does not    *)
(* sort again.                                                             *)
ShownInOrder ==
    "sort" \notin cause =>
        \A p, q \in DOMAIN chain.acc : p < q =>
            IF chain.sortCol = 0
            THEN IF chain.rev THEN IdAt(p) > IdAt(q) ELSE IdAt(p) < IdAt(q)
            ELSE LET cmp == CompareRows(chain, ProxyToLog(chain, p), ProxyToLog(chain, q))
                 IN IF chain.asc THEN cmp <= 0 ELSE cmp >= 0

(* The current row stays on the line the user selected, through inserts,   *)
(* evictions, sorts, filters and turns of the order, until it is hidden or *)
(* evicted.                                                                *)
SelectionFollowsLine ==
    (chain.cur # 0 /\ selected # 0) => IdAt(chain.cur) = selected

(* No anchor is left on a line that was evicted or cleared.                *)
AnchorsOnLiveLines == anchors \subseteq {chain.rows[r].id : r \in DOMAIN chain.rows}

(* A visible dock shows the selected line.  Not after the current row was  *)
(* itself evicted, nor after rows were evicted while another tab was       *)
(* active.                                                                 *)
DetailShowsSelected ==
    (/\ active /\ dock.vis /\ chain.cur # 0
     /\ cause \cap {"current evicted", "evicted away"} = {})
        => dock.pin = ProxyToLog(chain, chain.cur) /\ dock.shows = IdAt(chain.cur)

(* A cached search is the search of the rows as they are now, and is       *)
(* marked as a lower bound unless it is complete.  Not if the rows changed *)
(* while another tab was active.                                           *)
FindCacheFresh ==
    (find.cache.on /\ "find" \notin cause) =>
        LET all == MatchingRows(chain, find.cache.needle)
        IN IF find.cache.over THEN find.cache.total <= Len(all) /\ IsPrefix(find.cache.rows, all)
           ELSE find.cache.total = Len(all) /\ find.cache.rows = all

(* With no rebuild due, every bucket of the rail counts the levels and     *)
(* shows the anchors of the rows in its slice of the rows shown.           *)
RailShowsRows ==
    (rail.n # 0 /\ ~rail.due) =>
        /\ rail.levels = LevelCounts(chain, CHOOSE i \in DOMAIN chain.cols : chain.cols[i] = FilterKey, rail.n)
        /\ rail.marks = AnchoredBuckets(chain, anchors, rail.n)

(* The ticks of the rail are those of the search on display, in the right  *)
(* buckets, and gone with the find bar.                                    *)
TicksShowSearch ==
    (active /\ rail.n # 0 /\ cause \cap {"find", "bar"} = {}) =>
        IF find.bar /\ find.cache.on
        THEN rail.ticks = ScanMatches(chain, find.cache.needle, rail.n).buckets
        ELSE ~HasMatchTicks(rail)

(* The proxy chain shows the accepted rows, each once, in the order asked. *)
ShownAsAsked == ViewTypeOK /\ ShownAreAccepted /\ ShownInOrder

(* What names a row keeps naming it: selection, anchors and detail dock.   *)
NamedRowsKept == SelectionFollowsLine /\ AnchorsOnLiveLines /\ DetailShowsSelected

(* What is derived from the rows is derived from those shown now: the      *)
(* cached search, the rail's levels and anchors, and the rail's ticks.     *)
DerivedFromRows == FindCacheFresh /\ RailShowsRows /\ TicksShowSearch

(* The claim that the dock reflects the currently-focused row              *)
(* (main_window.cpp, the wiring of the record detail dock).                *)
DetailReflectsFocusedRow ==
    (active /\ dock.vis /\ chain.cur # 0) => dock.pin = ProxyToLog(chain, chain.cur)

(* The claim that the match cache is invalidated by row-set changes        *)
(* (log_session.hpp, mFindMatchCache).                                     *)
CacheInvalidatedByRows ==
    (find.cache.on /\ ~find.cache.over)
        => find.cache.rows = MatchingRows(chain, find.cache.needle)
=============================================================================
