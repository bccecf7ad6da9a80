------------------------------ MODULE TimeViews -----------------------------
(***************************************************************************)
(* What a session knows about time: the histogram of its rows with the     *)
(* anchors on its buckets, the flag that says rows arrive in time order,   *)
(* "Go to timestamp", which trusts that flag, and the jumps from anchor to *)
(* anchor.  Rows arrive and are evicted in batches; columns change their   *)
(* type and their place; the histogram's dock is hidden, shown and bound   *)
(* to another tab.                                                         *)
(*                                                                         *)
(* The bucket index h is the record                                        *)
(*   size      rung of Widths;  pinned   mBucketSizePinned                 *)
(*   origin    start of bucket 1; buckets  counts by level                 *)
(*   marks     mAnchorSlotPerBucket; bits  mAnchorBucketBitsSet            *)
(*   tcol, lcol  column indices, 0 for none                                *)
(*   cache     mFirstRowPerBucketCache, or NoRows                          *)
(*   deferred  mDeferredBindPending                                        *)
(***************************************************************************)
EXTENDS Integers, Sequences, SequencesExt, FiniteSets, FiniteSetsExt, Functions

CONSTANTS
    StampKeys,      \* keys whose texts are timestamps
    LevelKey,       \* the key whose column becomes the level column
    Levels,         \* levels a row may have, besides Unknown
    Unknown,
    NoTime,         \* a cell without a timestamp
    LineValues,     \* what a line holds: [StampKeys -> Int \cup {NoTime}, LevelKey -> Levels]
    InitTypes,      \* types of the timestamp columns at first: [StampKeys -> {"any", "time"}]
    Colours,        \* the anchor palette
    Widths,         \* the rungs: bucket widths, ascending
    Budget,         \* visible buckets an automatic width may show
    Pixels,         \* width of the plot
    Retained,       \* mRetentionCap
    LineBatches,    \* the batches: sequences of LineValues
    Targets,        \* times the user goes to
    MaxTimeLines,   \* bound on the lines of the stream
    MaxTimeSteps    \* bound on what the user does

ASSUME TimeAssumption ==
    /\ Widths \in Seq(Nat \ {0}) /\ Widths # <<>>
    /\ \A i, j \in DOMAIN Widths : i < j => Widths[i] < Widths[j]
    /\ Budget \in Nat \ {0} /\ Pixels \in Nat \ {0} /\ Retained \in Nat \ {0}
    /\ Unknown \notin Levels

VARIABLES
    table,      \* [rows, order, type]: the model's rows, columns and their types
    mono,       \* mTimestampsMonotonic
    lastStamp,  \* mLastAppendedTimestampMicros
    marked,     \* AnchorManager: line id -> colour
    hist,       \* HistogramModel
    shown,      \* the histogram dock is visible
    bound,      \* the dock is bound to this session, not to an empty tab
    savedPin,   \* what the session keeps of the dock: a pinned rung, or 0
    picked,     \* the rung the user chose for this session, or 0 (history)
    stale,      \* why a view may disagree with the rows (history)
    read,       \* lines the stream has delivered
    timeSteps

timeVars == <<table, mono, lastStamp, marked, hist, shown, bound, savedPin, picked, stale, read, timeSteps>>

NoRows == <<>>
AllLevels == Levels \cup {Unknown}
Zero == [l \in AllLevels |-> 0]

FirstColumnOf(t, type) ==
    LET at == {i \in DOMAIN t.order : t.type[t.order[i]] = type}
    IN IF at = {} THEN 0 ELSE Min(at)
ComputeTimeColumnIndex(t) == FirstColumnOf(t, "time")
ComputeLevelColumnIndex(t) == FirstColumnOf(t, "level")

(* A cell reads as a timestamp once its column has been made one.          *)
StampIn(t, col, r) ==
    LET k == t.order[col]
    IN IF col = 0 \/ k \notin StampKeys \/ t.type[k] # "time" THEN NoTime ELSE t.rows[r].val[k]
LevelForRow(t, col, r) ==
    IF col = 0 \/ t.order[col] # LevelKey THEN Unknown ELSE t.rows[r].val[LevelKey]

-----------------------------------------------------------------------------
(* HistogramBucketIndex: 64-bit microseconds, divided downwards            *)

\* Mutant: C++ division, which goes towards zero.
DivideTowardsZero(n, d) == IF n < 0 THEN -((-n) \div d) ELSE n \div d

FloorDivide(n, d) == n \div d

TruncateToBucket(ts, width) == FloorDivide(ts, width) * width
Width(h) == Widths[h.size]

AutoBucketSize(min, max) ==
    LET fits == {i \in DOMAIN Widths : (max - min) \div Widths[i] + 1 <= Budget}
    IN IF max = min THEN 1 ELSE IF fits = {} THEN Len(Widths) ELSE Min(fits)

IndexReset(h) == [h EXCEPT !.buckets = <<>>, !.origin = 0, !.min = NoTime, !.max = NoTime]
BucketAt(h, ts) ==
    LET b == FloorDivide(ts - h.origin, Width(h)) + 1
    IN IF b \in DOMAIN h.buckets THEN b ELSE 0

AddRow(h, ts, level) ==
    LET first == h.buckets = <<>>
        origin == IF first THEN TruncateToBucket(ts, Width(h)) ELSE h.origin
        at == FloorDivide(ts - origin, Width(h))
        lead == Max({0, 0 - at})
        size == Max({Len(h.buckets) + lead, at + 1, 1})
        old(i) == IF i - lead \in DOMAIN h.buckets THEN h.buckets[i - lead] ELSE Zero
        b == at + lead + 1
    IN [h EXCEPT !.origin = origin - lead * Width(h),
                 !.buckets = <<>> \o [i \in 1 .. size |->
                     IF i = b THEN [old(i) EXCEPT ![level] = old(i)[level] + 1] ELSE old(i)],
                 !.min = IF first \/ ts < h.min THEN ts ELSE h.min,
                 !.max = IF first \/ ts > h.max THEN ts ELSE h.max]

-----------------------------------------------------------------------------
(* HistogramModel.  A state s holds what its handlers read and write.      *)

Now == [t |-> table, marked |-> marked, h |-> hist, shown |-> shown, bound |-> bound, stale |-> stale]

(* The model and the anchors the dock looks at: those of an empty tab when *)
(* it is bound there.                                                      *)
Table(s) == IF s.bound THEN s.t ELSE [s.t EXCEPT !.rows = <<>>, !.order = <<>>]
Anchors(s) == IF s.bound THEN s.marked ELSE <<>>
TimeStampForRow(s, r) == StampIn(Table(s), s.h.tcol, r)
RowOfKey(s, id) ==
    LET at == {r \in DOMAIN Table(s).rows : Table(s).rows[r].id = id}
    IN IF at = {} THEN 0 ELSE Min(at)

SumBits(marks) == FoldSet(LAMBDA b, n : n + Cardinality(marks[b]), 0, DOMAIN marks)

(* The masks grow at the end, wherever the buckets grew.                   *)
SyncAnchorBucketVectorSize(h) ==
    LET n == Len(h.buckets)
        kept == <<>> \o [b \in 1 .. n |-> IF b \in DOMAIN h.marks THEN h.marks[b] ELSE {}]
    IN [h EXCEPT !.marks = kept,
                 !.bits = IF Len(h.marks) > n THEN @ - SumBits(h.marks) + SumBits(kept) ELSE @]

SetMark(h, b, colour) ==
    IF colour \in h.marks[b] THEN h
    ELSE [h EXCEPT !.marks[b] = @ \cup {colour}, !.bits = @ + 1]

BucketOfKey(s, id) ==
    LET r == RowOfKey(s, id)
        ts == TimeStampForRow(s, r)
    IN IF s.h.tcol = 0 \/ r = 0 THEN 0 ELSE IF ts = NoTime THEN 0 ELSE BucketAt(s.h, ts)
UpdateAnchorSlotForKey(s, id) ==
    LET b == BucketOfKey(s, id)
    IN IF b = 0 \/ b \notin DOMAIN s.h.marks THEN s
       ELSE [s EXCEPT !.h = SetMark(@, b, Anchors(s)[id])]

\* Mutant: the count starts again without the marks it counts.
MarksCountedTwice(s) ==
    LET synced == [s EXCEPT !.h = SyncAnchorBucketVectorSize([@ EXCEPT !.bits = 0 - SumBits(s.h.marks)])]
    IN FoldLeft(UpdateAnchorSlotForKey, synced, SetToSeq(DOMAIN Anchors(s)))

RebuildAnchorBuckets(s) ==
    LET bare == [s EXCEPT !.h = SyncAnchorBucketVectorSize([@ EXCEPT !.marks = <<>>, !.bits = 0]),
                          !.stale = @ \ {"front"}]
    IN FoldLeft(UpdateAnchorSlotForKey, bare, SetToSeq(DOMAIN Anchors(s)))

(* The row goes into its bucket and, if it is anchored, into the mask.     *)
AppendRow(s, r) ==
    LET ts == TimeStampForRow(s, r)
        counted == [s EXCEPT !.h = AddRow(@, ts, LevelForRow(Table(s), s.h.lcol, r)),
            !.stale = IF s.h.buckets # <<>> /\ ts < s.h.origin /\ s.h.bits > 0
                      THEN @ \cup {"front"} ELSE @]
        id == Table(s).rows[r].id
    IN IF ts = NoTime THEN s
       ELSE IF id \notin DOMAIN Anchors(s) THEN counted
       ELSE UpdateAnchorSlotForKey([counted EXCEPT !.h = SyncAnchorBucketVectorSize(@)], id)

\* Mutant: the first rows found earlier are kept.
AppendKeepingCache(s, rows) ==
    IF s.h.tcol = 0 THEN s
    ELSE LET added == FoldLeft(AppendRow, s, SetToSortSeq(rows, <))
         IN [added EXCEPT !.h = SyncAnchorBucketVectorSize(@)]

AppendRows(s, rows) ==
    IF s.h.tcol = 0 THEN s
    ELSE LET added == FoldLeft(AppendRow, s, SetToSortSeq(rows, <))
         IN [added EXCEPT !.h = [SyncAnchorBucketVectorSize(@) EXCEPT !.cache = NoRows]]

Rebuild(s) ==
    LET emptied == [s EXCEPT !.h = [IndexReset(@) EXCEPT !.cache = NoRows], !.stale = @ \ {"swap"}]
    IN RebuildAnchorBuckets(AppendRows(emptied, DOMAIN Table(s).rows))

ApplyAutoBucketSize(s) ==
    LET pick == AutoBucketSize(s.h.min, s.h.max)
    IN IF s.h.pinned \/ s.h.min = NoTime THEN s
       ELSE IF pick = s.h.size THEN s ELSE Rebuild([s EXCEPT !.h.size = pick])

Fresh(s) == [tcol |-> ComputeTimeColumnIndex(Table(s)), lcol |-> ComputeLevelColumnIndex(Table(s))]
ColumnsTracked(s) == Fresh(s) = [tcol |-> s.h.tcol, lcol |-> s.h.lcol]
Track(s) == [s EXCEPT !.h.tcol = Fresh(s).tcol, !.h.lcol = Fresh(s).lcol, !.stale = @ \ {"edit", "swap"}]

OnRowsInserted(s, rows) ==
    IF ColumnsTracked(s) THEN AppendRows(s, rows) ELSE ApplyAutoBucketSize(Rebuild(Track(s)))
OnRowsRemoved(s) == Rebuild(s)
OnModelReset(s) == ApplyAutoBucketSize(Rebuild([Track(s) EXCEPT !.h.pinned = FALSE]))
OnEnumColumnsChanged(s) == IF ColumnsTracked(s) THEN s ELSE Rebuild(Track(s))
OnColumnsMoved(s) ==
    IF ColumnsTracked(s) THEN s ELSE ApplyAutoBucketSize(Rebuild(Track(s)))

\* Mutant: the new colour is added beside the one it replaces.
OnAnchorAdded(s, id) ==
    LET synced == [s EXCEPT !.h = SyncAnchorBucketVectorSize(@)]
    IN IF id \in DOMAIN Anchors(s) THEN UpdateAnchorSlotForKey(synced, id) ELSE RebuildAnchorBuckets(synced)

(* The bucket of the anchor's row is marked anew; all are when the row has *)
(* none.                                                                   *)
OnAnchorChanged(s, id) ==
    LET synced == [s EXCEPT !.h = SyncAnchorBucketVectorSize(@)]
        b == BucketOfKey(synced, id)
        fresh == {Anchors(s)[k] : k \in {k \in DOMAIN Anchors(s) : BucketOfKey(synced, k) = b}}
    IN IF b = 0 THEN RebuildAnchorBuckets(synced)
       ELSE [synced EXCEPT !.h.bits = @ - Cardinality(synced.h.marks[b]) + Cardinality(fresh),
                           !.h.marks[b] = fresh]
AnchorsRemoved(s, ids) ==
    LET gone == ids \cap DOMAIN s.marked
        left == [s EXCEPT !.marked = RestrictDomain(@, LAMBDA k : k \notin ids)]
    IN CASE gone = {} -> s
         [] Cardinality(gone) = 1 -> OnAnchorChanged(left, CHOOSE k \in gone : TRUE)
         [] OTHER -> RebuildAnchorBuckets(left)

(* The first row of each bucket, computed when first asked for.            *)
BuildFirstRowCache(s) ==
    LET in(b) == {r \in DOMAIN Table(s).rows :
            TimeStampForRow(s, r) # NoTime /\ BucketAt(s.h, TimeStampForRow(s, r)) = b}
    IN <<>> \o [b \in DOMAIN s.h.buckets |-> IF in(b) = {} THEN 0 ELSE Min(in(b))]
FirstAnchoredRowInBucketRange(s, from, to) ==
    LET rows == {RowOfKey(s, k) : k \in {k \in DOMAIN Anchors(s) : BucketOfKey(s, k) \in from .. to}}
    IN IF rows = {} THEN 0 ELSE Min(rows)

-----------------------------------------------------------------------------
(* HistogramWidget: columns of pixels over the buckets                     *)

Stride(h) == Max({1, (Len(h.buckets) + Pixels - 1) \div Pixels})
ColumnCount(h) == (Len(h.buckets) + Stride(h) - 1) \div Stride(h)
BucketRangeForColumn(h, c) == <<(c - 1) * Stride(h) + 1, Min({Len(h.buckets), c * Stride(h)})>>
BucketStart(h, b) == h.origin + (b - 1) * Width(h)

\* Mutant: the range ends where its last bucket starts.
RangeToLastStart(h, from, to) ==
    <<BucketStart(h, BucketRangeForColumn(h, from)[1]), BucketStart(h, BucketRangeForColumn(h, to)[2])>>

(* A drag from column "from" to column "to" filters this closed interval.  *)
TimeRangeSelected(h, from, to) ==
    <<BucketStart(h, BucketRangeForColumn(h, from)[1]),
      BucketStart(h, BucketRangeForColumn(h, to)[2] + 1) - 1>>

-----------------------------------------------------------------------------
(* LogModel: rows in time order, and the search that relies on it          *)

\* Mutant: only the rows inside a batch are compared.
MonotoneWithinBatch(ok, last, stamps) ==
    [ok |-> ok /\ \A i \in 1 .. Len(stamps) - 1 : stamps[i] <= stamps[i + 1],
     last |-> IF stamps = <<>> \/ ~ok THEN last ELSE stamps[Len(stamps)]]

UpdateTimestampMonotonicity(ok, last, stamps) ==
    LET drops == {i \in 2 .. Len(stamps) : stamps[i] < stamps[i - 1]}
        across == stamps # <<>> /\ last # NoTime /\ stamps[1] < last
    IN CASE ~ok \/ stamps = <<>> -> [ok |-> ok, last |-> last]
         [] last # NoTime /\ across -> [ok |-> FALSE, last |-> stamps[1]]
         [] drops # {} -> [ok |-> FALSE, last |-> stamps[Min(drops)]]
         [] OTHER -> [ok |-> TRUE, last |-> stamps[Len(stamps)]]

(* A row without a timestamp sends the probe on to the next one that has   *)
(* one.                                                                    *)
BinarySearch(stamp, n, target) ==
    LET search[range \in (1 .. n + 1) \X (1 .. n + 1)] ==
            LET lo == range[1]
                hi == range[2]
                mid == lo + (hi - lo) \div 2
                valid == {r \in mid .. hi - 1 : stamp[r] # NoTime}
                probe == Min(valid)
            IN IF lo >= hi THEN lo
               ELSE IF valid = {} THEN search[<<lo, mid>>]
               ELSE IF stamp[probe] < target THEN search[<<probe + 1, hi>>]
               ELSE search[<<lo, probe>>]
    IN search[<<1, n + 1>>]

(* vis is the sequence of log rows shown, first at the top.                *)
FindFirstRowAtOrAfterTimestamp(t, ordered, sorted, vis, target) ==
    LET col == ComputeTimeColumnIndex(t)
        n == Len(t.rows)
        stamp == [r \in 1 .. n |-> StampIn(t, col, r)]
        hits == {p \in DOMAIN vis : stamp[vis[p]] # NoTime /\ stamp[vis[p]] >= target}
        lo == BinarySearch(stamp, n, target)
        earliest == Min({stamp[vis[p]] : p \in hits})
    IN CASE col = 0 \/ n = 0 -> 0
         [] ~sorted /\ ordered ->
                LET from == {vis[p] : p \in {p \in hits : vis[p] >= lo}}
                IN IF from = {} THEN 0 ELSE Min(from)
         [] hits = {} -> 0
         [] ~sorted -> vis[Min({p \in hits : stamp[vis[p]] = earliest})]
         [] OTHER -> vis[Min(hits)]

\* Mutant: the row the user is on is a candidate.
JumpToAnchorInclusive(anchored, cur, forward) ==
    LET after == {p \in anchored : p >= cur}
        before == {p \in anchored : cur = 0 \/ p <= cur}
    IN IF forward THEN IF after # {} THEN Min(after) ELSE Min(anchored)
       ELSE IF before # {} THEN Max(before) ELSE Max(anchored)

(* The next anchored row of the view, or the one before, around the ends.  *)
JumpToAnchor(anchored, cur, forward) ==
    LET after == {p \in anchored : p > cur}
        before == {p \in anchored : cur = 0 \/ p < cur}
    IN IF forward THEN IF after # {} THEN Min(after) ELSE Min(anchored)
       ELSE IF before # {} THEN Max(before) ELSE Max(anchored)

-----------------------------------------------------------------------------
(* The behaviour                                                           *)

TimeBecomes(s) ==
    /\ table' = s.t /\ marked' = s.marked /\ hist' = s.h /\ shown' = s.shown /\ bound' = s.bound
    /\ stale' = s.stale
UnchangedClock == UNCHANGED <<mono, lastStamp, read>> /\ timeSteps' = timeSteps + 1
UnchangedPin == UNCHANGED <<savedPin, picked>>

(* Rows over the cap go first, then their anchors; the rows are appended   *)
(* and the flag updated before the views hear of them.  The batch may make *)
(* the table promote the level column.                                     *)
EvictRows(s, n) ==
    LET ids == {s.t.rows[r].id : r \in 1 .. n}
        gone == [s EXCEPT !.t.rows = SubSeq(@, n + 1, Len(@))]
    IN IF n = 0 THEN s ELSE AnchorsRemoved(OnRowsRemoved(gone), ids)

Grown(s, new, promoted) ==
    [s EXCEPT !.t.rows = <<>> \o @ \o new, !.t.type[LevelKey] = IF promoted THEN "level" ELSE @]
StampsFrom(t, first) ==
    SelectSeq(<<>> \o [i \in 1 .. Len(t.rows) - first + 1 |-> StampIn(t, ComputeTimeColumnIndex(t), first + i - 1)],
              LAMBDA ts : ts # NoTime)
OrderBecomes(order) == mono' = order.ok /\ lastStamp' = order.last
RowsAppended(s, first) ==
    /\ OrderBecomes(UpdateTimestampMonotonicity(mono, lastStamp, StampsFrom(s.t, first)))
    /\ TimeBecomes(OnEnumColumnsChanged(OnRowsInserted(s, first .. Len(s.t.rows))))

LinesArrive ==
    \E vals \in LineBatches, promoted \in BOOLEAN :
        LET n == Len(vals)
            new == [i \in 1 .. n |-> [id |-> read + i, val |-> vals[i]]]
            over == Min({Max({0, Len(table.rows) + n - Retained}), Len(table.rows)})
        IN /\ n <= Retained /\ read + n <= MaxTimeLines
           /\ promoted => table.type[LevelKey] = "any"
           /\ RowsAppended(Grown(EvictRows(Now, over), new, promoted), Len(table.rows) - over + 1)
           /\ read' = read + n
           /\ UnchangedPin /\ UNCHANGED timeSteps

TimeReset ==
    LET cleared == [Now EXCEPT !.t.rows = <<>>, !.marked = <<>>, !.stale = {}]
    IN /\ table.rows # <<>>
       /\ TimeBecomes(OnModelReset(cleared))
       /\ mono' = TRUE /\ lastStamp' = NoTime /\ picked' = 0 /\ timeSteps' = timeSteps + 1
       /\ UNCHANGED <<savedPin, read>>

(* The texts of the column become timestamps; no view of time is told.     *)
EditTypeToTime ==
    \E k \in StampKeys :
        LET edited == [Now EXCEPT !.t.type[k] = "time"]
        IN /\ table.type[k] # "time"
           /\ TimeBecomes([edited EXCEPT !.stale = @ \cup {"edit", "order"}])
           /\ UnchangedClock /\ UnchangedPin

MoveTimeColumn ==
    \E i, j \in DOMAIN table.order :
        LET moved == [Now EXCEPT !.t.order = [@ EXCEPT ![i] = table.order[j], ![j] = table.order[i]]]
            cell(t) == IF ComputeTimeColumnIndex(t) = 0 THEN "" ELSE t.order[ComputeTimeColumnIndex(t)]
            other == cell(moved.t) # cell(table)
            history == [moved EXCEPT !.stale = IF other THEN @ \cup {"order", "swap"} ELSE @]
        IN /\ i < j
           /\ TimeBecomes(OnColumnsMoved(history))
           /\ UnchangedClock /\ UnchangedPin

SetAnchor ==
    \E r \in DOMAIN table.rows, colour \in Colours :
        LET id == table.rows[r].id
        IN /\ id \in DOMAIN marked => marked[id] # colour
           /\ TimeBecomes(OnAnchorChanged([Now EXCEPT !.marked =
                  [k \in DOMAIN marked \cup {id} |-> IF k = id THEN colour ELSE marked[k]]], id))
           /\ UnchangedClock /\ UnchangedPin
RemoveAnchor ==
    \E id \in DOMAIN marked :
        TimeBecomes(AnchorsRemoved(Now, {id})) /\ UnchangedClock /\ UnchangedPin
ClearAll ==
    /\ marked # <<>>
    /\ TimeBecomes(RebuildAnchorBuckets([Now EXCEPT !.marked = <<>>]))
    /\ UnchangedClock /\ UnchangedPin

SetBucketSize(s, size) ==
    LET pinned == [s EXCEPT !.h.pinned = TRUE]
    IN IF s.h.size = size THEN pinned ELSE Rebuild([pinned EXCEPT !.h = IndexReset([@ EXCEPT !.size = size])])
Zoom ==
    \E size \in {hist.size - 1, hist.size + 1} \cap DOMAIN Widths :
        /\ shown /\ bound
        /\ TimeBecomes(SetBucketSize(Now, size)) /\ picked' = size
        /\ UnchangedClock /\ UNCHANGED savedPin
ResetBucketSizeToAuto ==
    /\ shown /\ bound /\ hist.pinned
    /\ TimeBecomes(ApplyAutoBucketSize([Now EXCEPT !.h.pinned = FALSE])) /\ picked' = 0
    /\ UnchangedClock /\ UNCHANGED savedPin

FirstRowInBucket ==
    /\ shown /\ bound /\ hist.cache = NoRows /\ hist.buckets # <<>>
    /\ TimeBecomes([Now EXCEPT !.h.cache = BuildFirstRowCache(Now)])
    /\ UnchangedClock /\ UnchangedPin

PumpDeferredBind(s) ==
    IF ~s.h.deferred THEN s ELSE ApplyAutoBucketSize(Rebuild([s EXCEPT !.h.deferred = FALSE]))
ToggleHistogram ==
    /\ TimeBecomes(IF shown THEN [Now EXCEPT !.shown = FALSE]
               ELSE PumpDeferredBind([Now EXCEPT !.shown = TRUE]))
    /\ UnchangedClock /\ UnchangedPin

BindSources(s) ==
    LET bare == [Track(s) EXCEPT !.h.marks = <<>>, !.h.bits = 0, !.h.pinned = FALSE]
    IN IF ~s.shown THEN [bare EXCEPT !.h.deferred = TRUE]
       ELSE ApplyAutoBucketSize(Rebuild([bare EXCEPT !.h.deferred = FALSE]))

\* Mutant: the pin of the tab that is left is not kept.
BindForgettingPin(s, there) == [s |-> there, pin |-> 0]

(* The dock keeps the zoom of the tab it leaves in that tab's session and  *)
(* restores the zoom of the tab it comes to.  The empty tab has none.      *)
Bind(s, there) ==
    IF s.bound THEN [s |-> there, pin |-> IF s.h.pinned THEN s.h.size ELSE 0]
    ELSE [s |-> IF savedPin = 0 THEN there ELSE SetBucketSize(there, savedPin), pin |-> savedPin]
BindBecomes(b) == TimeBecomes(b.s) /\ savedPin' = b.pin
BindHistogram ==
    /\ BindBecomes(Bind(Now, BindSources([Now EXCEPT !.bound = ~@])))
    /\ UnchangedClock /\ UNCHANGED picked

(* A session as it opens, with the anchors of its saved configuration.     *)
TimeInit ==
    /\ \E types \in InitTypes :
          table = [rows |-> <<>>, order |-> SetToSeq(StampKeys) \o <<LevelKey>>,
                   type |-> [k \in StampKeys \cup {LevelKey} |-> IF k = LevelKey THEN "any" ELSE types[k]]]
    /\ mono = TRUE /\ lastStamp = NoTime
    /\ marked \in {<<>>, [k \in {2} |-> CHOOSE c \in Colours : TRUE]}
    /\ shown = TRUE /\ bound = TRUE
    /\ hist = [size |-> 1, pinned |-> FALSE, origin |-> 0, buckets |-> <<>>, min |-> NoTime, max |-> NoTime,
               marks |-> <<>>, bits |-> 0, cache |-> NoRows, deferred |-> FALSE,
               tcol |-> ComputeTimeColumnIndex(table), lcol |-> 0]
    /\ savedPin = 0 /\ picked = 0 /\ stale = {} /\ read = 0 /\ timeSteps = 0

TimeNext ==
    \/ LinesArrive
    \/ /\ timeSteps < MaxTimeSteps
       /\ \/ TimeReset \/ EditTypeToTime \/ MoveTimeColumn
          \/ SetAnchor \/ RemoveAnchor \/ ClearAll \/ Zoom \/ ResetBucketSizeToAuto
          \/ FirstRowInBucket \/ ToggleHistogram \/ BindHistogram

TimeSpec == TimeInit /\ [][TimeNext]_timeVars

-----------------------------------------------------------------------------
(* Properties                                                              *)

(* The histogram's state is well formed.                                   *)
TimeTypeOK ==
    /\ hist.size \in DOMAIN Widths /\ hist.origin \in Int
    /\ hist.buckets \in Seq([AllLevels -> Nat])
    /\ hist.marks \in Seq(SUBSET Colours) /\ hist.bits \in Nat
    /\ hist.tcol \in 0 .. Len(table.order) /\ hist.lcol \in 0 .. Len(table.order)
    /\ Len(table.rows) <= Retained
    /\ stale \subseteq {"edit", "swap", "front", "order"}

ColumnsKnown == shown /\ bound /\ (ColumnsTracked(Now) /\ "swap" \notin stale)
RowsAt(h, b, level) ==
    {r \in DOMAIN table.rows :
        LET ts == StampIn(table, h.tcol, r)
        IN /\ ts # NoTime /\ LevelForRow(table, h.lcol, r) = level
           /\ BucketStart(h, b) <= ts /\ ts < BucketStart(h, b + 1)}
Stamped == {r \in DOMAIN table.rows : StampIn(table, hist.tcol, r) # NoTime}

(* A visible histogram counts every row that has a timestamp exactly once, *)
(* in the bucket of its time and at its level: whatever order timestamps   *)
(* arrive in, after eviction, late promotion of the level column, zooming, *)
(* hiding, showing and switching tabs (HistogramModel, BucketIndex).       *)
BucketsCountRows ==
    ColumnsKnown =>
        /\ \A b \in DOMAIN hist.buckets, l \in AllLevels :
              hist.buckets[b][l] = Cardinality(RowsAt(hist, b, l))
        /\ \A r \in Stamped : BucketAt(hist, StampIn(table, hist.tcol, r)) # 0

(* The masks of a visible histogram name exactly the colours of the        *)
(* anchored rows of each bucket, their running count is exact, and a mark  *)
(* is there exactly where a click finds an anchored row.  A bucket added   *)
(* in front of marked ones is excepted: see MarksParallelToBuckets.        *)
MarksMatch ==
    /\ Len(hist.marks) = Len(hist.buckets) /\ hist.bits = SumBits(hist.marks)
    /\ \A b \in DOMAIN hist.marks :
          /\ hist.marks[b] = {marked[k] : k \in {k \in DOMAIN marked : BucketOfKey(Now, k) = b}}
          /\ hist.marks[b] # {} <=> FirstAnchoredRowInBucketRange(Now, b, b) # 0
MarksOnAnchoredBuckets == ColumnsKnown /\ "front" \notin stale => MarksMatch

(* HistogramModel keeps the masks parallel to the buckets.                 *)
MarksParallelToBuckets == ColumnsKnown => MarksMatch

(* The cached first row of a bucket is its first row as of now.            *)
FirstRowCacheFresh ==
    ColumnsKnown /\ hist.cache # NoRows => hist.cache = BuildFirstRowCache(Now)

(* A drag over columns of the widget filters exactly the rows the columns  *)
(* count.                                                                  *)
DragSelectsWhatItCovers ==
    ColumnsKnown => \A from \in 1 .. ColumnCount(hist) : \A to \in from .. ColumnCount(hist) :
        LET range == TimeRangeSelected(hist, from, to)
            covered == BucketRangeForColumn(hist, from)[1] .. BucketRangeForColumn(hist, to)[2]
        IN {r \in Stamped : StampIn(table, hist.tcol, r) \in range[1] .. range[2]}
           = {r \in Stamped : BucketAt(hist, StampIn(table, hist.tcol, r)) \in covered}

(* A zoom the user chose is the zoom of that tab's histogram until it is   *)
(* reset, whatever tabs are visited in between.                            *)
ZoomKept == bound => /\ hist.pinned <=> picked # 0
                     /\ picked # 0 => hist.size = picked

(* What the view may show: any rows, in any of its orders.                 *)
ViewsOf(rows) ==
    LET stamp(r) == StampIn(table, ComputeTimeColumnIndex(table), r)
        less(x, y) == \/ stamp(x) # NoTime /\ (stamp(y) = NoTime \/ stamp(x) < stamp(y))
                      \/ stamp(x) = stamp(y) /\ x < y
    IN {[sorted |-> FALSE, seq |-> SetToSortSeq(rows, <)],
        [sorted |-> FALSE, seq |-> SetToSortSeq(rows, >)],
        [sorted |-> TRUE, seq |-> SetToSortSeq(rows, less)],
        [sorted |-> TRUE, seq |-> Reverse(SetToSortSeq(rows, less))]}
IndexFirstOf(seq, x) == Min({p \in DOMAIN seq : seq[p] = x})
GotoIsRight ==
    LET stamp == [r \in DOMAIN table.rows |-> StampIn(table, ComputeTimeColumnIndex(table), r)]
    IN \A visible \in SUBSET DOMAIN table.rows : \A vis \in ViewsOf(visible), target \in Targets :
        LET found == FindFirstRowAtOrAfterTimestamp(table, mono, vis.sorted, vis.seq, target)
            due == {r \in visible : stamp[r] # NoTime /\ stamp[r] >= target}
        IN IF due = {} THEN found = 0
           ELSE /\ found \in due
                /\ IF vis.sorted
                   THEN \A p \in DOMAIN vis.seq : vis.seq[p] \in due => IndexFirstOf(vis.seq, found) <= p
                   ELSE \A r \in due : stamp[found] <= stamp[r]

(* "Go to timestamp" selects a visible row if one is at or after the time, *)
(* the earliest one, or the first of the view when it is sorted, with rows *)
(* missing timestamps or out of order in the search's way.  A change of    *)
(* which column is the first time column is excepted: see GotoAlwaysRight. *)
GotoFindsEarliest == "order" \notin stale => GotoIsRight

(* TimestampsAreMonotonic is true only while source order is time order.   *)
GotoAlwaysRight == GotoIsRight

(* Jumping on from anchor to anchor visits every anchored row of the view  *)
(* and comes back, and jumping back undoes jumping on.                     *)
AnchorTour ==
    LET anchored == {r \in DOMAIN table.rows : table.rows[r].id \in DOMAIN marked}
        tour[i \in 0 .. Cardinality(anchored)] ==
            JumpToAnchor(anchored, IF i = 0 THEN 0 ELSE tour[i - 1], TRUE)
    IN anchored # {} =>
        /\ {tour[i] : i \in 0 .. Cardinality(anchored) - 1} = anchored
        /\ tour[Cardinality(anchored)] = tour[0]
        /\ \A p \in anchored : JumpToAnchor(anchored, JumpToAnchor(anchored, p, TRUE), FALSE) = p

(* The incremental histogram equals the one built anew from the rows: its  *)
(* counts, masks, first-row cache, ranges and zoom.                        *)
HistogramIsOfTheRows ==
    /\ TimeTypeOK /\ BucketsCountRows /\ MarksOnAnchoredBuckets
    /\ FirstRowCacheFresh /\ DragSelectsWhatItCovers /\ ZoomKept

(* Jumps by time and from anchor to anchor land on the row they promise.   *)
JumpsLandRight == GotoFindsEarliest /\ AnchorTour
=============================================================================
