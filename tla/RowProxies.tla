----------------------------- MODULE RowProxies -----------------------------
(***************************************************************************)
(* The chain of models between a session's table and its view: the log     *)
(* rows, RowOrderProxyModel (newest first or not), LogFilterModel (rows    *)
(* accepted by the filter, in sort order) and the current index the view   *)
(* holds on it.  Rows are numbered from 1; 0 is an invalid index.          *)
(*                                                                         *)
(* A chain c is the record                                                 *)
(*   rows    the log rows, [id, val] with a value per key                  *)
(*   rev     RowOrderProxyModel::mReversed                                 *)
(*   keep    the filter: the values of FilterKey it accepts                *)
(*   acc     mAcceptedSourceRows                                           *)
(*   inv     mSourceRowToProxyRow                                          *)
(*   sortCol, asc   mSortColumn, mSortOrder                                *)
(*   cols    the columns, by key; type: how each key's values compare      *)
(*   cur     the view's current row, a persistent index on the filter      *)
(***************************************************************************)
EXTENDS Integers, Sequences, SequencesExt, FiniteSets, FiniteSetsExt

CONSTANTS
    Keys,           \* the columns' keys
    FilterKey,      \* the key the filter looks at
    Values,         \* what a cell may hold, besides Absent
    Absent,         \* no value, or one its column's type cannot represent
    Rank            \* [type][value]: the order of values under a column type

Cells == Values \cup {Absent}
Types == DOMAIN Rank
N(c) == Len(c.rows)

-----------------------------------------------------------------------------
(* RowOrderProxyModel                                                      *)

Mirror(c, r) == IF c.rev THEN N(c) + 1 - r ELSE r
MapToLog(c, r) == LET x == Mirror(c, r) IN IF x \in 1 .. N(c) THEN x ELSE 0

-----------------------------------------------------------------------------
(* Comparison: a value that is absent is greater than any other.           *)

CompareValues(t, x, y) ==
    CASE x = Absent /\ y = Absent -> 0
      [] x = Absent -> 1
      [] y = Absent -> -1
      [] OTHER -> Rank[t][x] - Rank[t][y]
CompareRows(c, l, r) ==
    LET k == c.cols[c.sortCol]
    IN CompareValues(c.type[k], c.rows[l].val[k], c.rows[r].val[k])

\* Mutant: insertion compares upwards whatever the order.
LessThanAscending(c, l, r) ==
    LET cmp == CompareRows(c, MapToLog(c, l), MapToLog(c, r))
    IN IF cmp = 0 THEN l < r ELSE cmp < 0

LessThanSourceRows(c, l, r) ==
    LET cmp == CompareRows(c, MapToLog(c, l), MapToLog(c, r))
    IN IF cmp = 0 THEN l < r ELSE IF c.asc THEN cmp < 0 ELSE cmp > 0

(* A stable sort of the rows in the order they are in.                     *)
ApplySortPermutation(c) ==
    LET cmp(i, j) == CompareRows(c, MapToLog(c, c.acc[i]), MapToLog(c, c.acc[j]))
        before(i, j) == \/ IF c.asc THEN cmp(i, j) < 0 ELSE cmp(i, j) > 0
                        \/ cmp(i, j) = 0 /\ i < j
        perm == SetToSortSeq(1 .. Len(c.acc), before)
    IN IF c.sortCol = 0 THEN c ELSE [c EXCEPT !.acc = <<>> \o [i \in 1 .. Len(c.acc) |-> c.acc[perm[i]]]]

-----------------------------------------------------------------------------
(* LogFilterModel: the mapping and its upkeep                              *)

Matches(c, logRow) == logRow # 0 /\ c.rows[logRow].val[FilterKey] \in c.keep
MatchesRulesAtSourceRow(c, r) == Matches(c, MapToLog(c, r))
FilterAcceptedRows(c) == {r \in 1 .. N(c) : Matches(c, r)}

\* Mutant: accepted log rows are taken for rows of the row order.
AcceptedAsLogRows(c) == [c EXCEPT !.acc = SetToSortSeq(FilterAcceptedRows(c), <)]

RecomputeAcceptedRows(c) ==
    [c EXCEPT !.acc = SetToSortSeq({Mirror(c, r) : r \in FilterAcceptedRows(c)}, <)]

RebuildReverseIndex(c) ==
    LET at(r) == {p \in DOMAIN c.acc : c.acc[p] = r}
    IN [c EXCEPT !.inv = <<>> \o [r \in 1 .. N(c) |-> IF at(r) = {} THEN 0 ELSE Max(at(r))]]

MapToSource(c, p) == IF p \in DOMAIN c.acc THEN c.acc[p] ELSE 0
MapFromSource(c, r) == IF r \in DOMAIN c.inv THEN c.inv[r] ELSE 0
ProxyToLog(c, p) == IF MapToSource(c, p) = 0 THEN 0 ELSE MapToLog(c, MapToSource(c, p))

SnapshotPersistentIndices(c) == MapToSource(c, c.cur)
RemapPersistentIndices(c, sourceRow) == [c EXCEPT !.cur = MapFromSource(c, sourceRow)]

(* The order is rebuilt inside one layout change.                          *)
RebuildAcceptedRows(c) ==
    LET sorted == ApplySortPermutation(RecomputeAcceptedRows(c))
    IN RemapPersistentIndices(RebuildReverseIndex(sorted), SnapshotPersistentIndices(c))

SortBy(c, col, ascending) ==
    LET chosen == [c EXCEPT !.sortCol = col, !.asc = ascending]
        sorted == IF col = 0 THEN [chosen EXCEPT !.acc = SetToSortSeq(ToSet(@), <)]
                  ELSE ApplySortPermutation(chosen)
    IN IF col = 0 /\ c.sortCol = 0 THEN c
       ELSE RemapPersistentIndices(RebuildReverseIndex(sorted), SnapshotPersistentIndices(c))

\* Mutant: the indexes the filter has just taken on the row order are not remapped.
SetReversedBeforeSnapshot(c, reversed) ==
    LET turned == [c EXCEPT !.rev = reversed]
    IN IF c.rev = reversed THEN c
       ELSE RemapPersistentIndices(
                RebuildReverseIndex(ApplySortPermutation(RecomputeAcceptedRows(turned))),
                SnapshotPersistentIndices(c))

(* The filter snapshots its indexes on the row order first; the row order  *)
(* then mirrors every index held on it, those included.                    *)
SetReversed(c, reversed) ==
    LET snapshot == SnapshotPersistentIndices(c)
        mirrored == IF snapshot = 0 THEN 0 ELSE N(c) + 1 - snapshot
        turned == [c EXCEPT !.rev = reversed]
    IN IF c.rev = reversed THEN c
       ELSE RemapPersistentIndices(
                RebuildReverseIndex(ApplySortPermutation(RecomputeAcceptedRows(turned))), mirrored)

(* Rows first..last of the row order are new.  Without a sort they go in   *)
(* as one block; with one, each by binary search.                          *)
InsertedAt(c, p, n) == [c EXCEPT !.cur = IF @ >= p THEN @ + n ELSE @]
LowerBound(c, r) ==
    LET search[lo \in 1 .. Len(c.acc) + 1, len \in 0 .. Len(c.acc)] ==
            IF len = 0 THEN lo
            ELSE LET half == len \div 2
                 IN IF LessThanSourceRows(c, c.acc[lo + half], r)
                    THEN search[lo + half + 1, len - half - 1] ELSE search[lo, half]
    IN search[1, Len(c.acc)]

InsertSorted(c, r) ==
    LET p == LowerBound(c, r)
    IN InsertedAt([c EXCEPT !.acc = InsertAt(@, p, r)], p, 1)
InsertBlock(c, first, fresh) ==
    LET p == Cardinality({i \in DOMAIN c.acc : c.acc[i] < first}) + 1
    IN InsertedAt([c EXCEPT !.acc = SubSeq(@, 1, p - 1) \o fresh \o SubSeq(@, p, Len(@))], p, Len(fresh))

OnSourceRowsInserted(c, first, last) ==
    LET n == last - first + 1
        shifted == [c EXCEPT !.acc = <<>> \o
                        [i \in 1 .. Len(c.acc) |-> IF c.acc[i] >= first THEN c.acc[i] + n ELSE c.acc[i]]]
        fresh == SetToSortSeq({r \in first .. last : MatchesRulesAtSourceRow(c, r)}, <)
    IN RebuildReverseIndex(
           IF fresh = <<>> THEN shifted
           ELSE IF c.sortCol = 0 THEN InsertBlock(shifted, first, fresh)
           ELSE FoldLeft(InsertSorted, shifted, fresh))

(* The log's new rows are its last ones: the first of a reversed order.    *)
RowsAppended(c, new) ==
    LET grown == [c EXCEPT !.rows = @ \o new]
    IN IF c.rev THEN OnSourceRowsInserted(grown, 1, Len(new))
       ELSE OnSourceRowsInserted(grown, N(c) + 1, N(c) + Len(new))

(* Proxy rows that show a removed row, and the runs they form.             *)
DroppedProxyRows(c, first, last) == {p \in DOMAIN c.acc : c.acc[p] \in first .. last}
CoalescedRuns(dropped) ==
    {<<a, b>> \in dropped \X dropped :
        /\ a <= b /\ a .. b \subseteq dropped
        /\ a - 1 \notin dropped /\ b + 1 \notin dropped}

(* What QItemSelectionModel makes of the current row when a run around it  *)
(* is about to go (Qt): the row above, or else the row below.              *)
CurrentBesideRun(c, a, b) ==
    IF a > 1 THEN a - 1 ELSE IF b < Len(c.acc) THEN b + 1 ELSE 0
\* Mutant: the rows below the run keep their numbers.
RunRemovedInPlace(c, a, b) == [c EXCEPT !.acc = SubSeq(@, 1, a - 1) \o SubSeq(@, b + 1, Len(@))]

RunRemoved(c, a, b) ==
    [c EXCEPT !.acc = SubSeq(@, 1, a - 1) \o SubSeq(@, b + 1, Len(@)),
              !.cur = IF @ > b THEN @ - (b - a + 1) ELSE @]
RowsShiftedDown(c, last, n) ==
    RebuildReverseIndex(
        [c EXCEPT !.acc = <<>> \o [i \in 1 .. Len(c.acc) |-> IF c.acc[i] > last THEN c.acc[i] - n ELSE c.acc[i]]])

(* Column from goes to position to; the sort follows its column.           *)
MoveColumn(c, from, to) ==
    LET col == c.sortCol
    IN [c EXCEPT !.cols = LET rest == RemoveAt(@, from) IN InsertAt(rest, to, c.cols[from]),
                 !.sortCol = CASE col = from -> to
                               [] col > from /\ col <= to -> col - 1
                               [] col < from /\ col >= to -> col + 1
                               [] OTHER -> col]

OnSourceModelReset(c) ==
    RebuildReverseIndex([c EXCEPT !.rows = <<>>, !.acc = <<>>, !.cur = 0])
=============================================================================
