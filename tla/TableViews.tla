----------------------------- MODULE TableViews -----------------------------
(***************************************************************************)
(* A session's table and the filter over it: the handlers of LogModel      *)
(* (append, end of stream, type edit, column move), what they signal, and  *)
(* what LogFilterModel and the main window do on each signal.  Signals are *)
(* direct calls on the GUI thread, so a handler is the composition, in the *)
(* code's order, of functions on the record                                *)
(*   [t, rule, pred, shown, lvlmap, active, cause].                        *)
(* The main window listens to the active tab only; the filter model        *)
(* listens always.                                                         *)
(***************************************************************************)
EXTENDS LogTable

CONSTANTS
    Batches,        \* what a batch may say: sequences of functions from Keys to values
    Configs,        \* column lists a configuration may hold
    Rules,          \* filters the user may set
    Retention,      \* mRetentionCap
    MaxSteps        \* bound on the behaviours checked

VARIABLES
    table,      \* the LogTable
    rule,       \* the leaf of the configured expression, or NoRule
    pred,       \* mCompiledExpression
    shown,      \* mAcceptedSourceRows, as a set: no sort is applied here
    lvlmap,     \* mLastBatchLevelDemoteMapping: column -> raw texts
    active,     \* the session's tab is the active one
    cause,      \* why the filter may be out of date (history variable)
    steps       \* bound on the behaviour

vars == <<table, rule, pred, shown, lvlmap, active, cause, steps>>

NoRule == [kind |-> "none", key |-> NoKey, vals |-> {}, adv |-> FALSE]
MatchAll == [kind |-> "all", col |-> 0, ids |-> {}, size |-> 0, strs |-> {}, resolved |-> FALSE]

State == [t |-> table, rule |-> rule, pred |-> pred, shown |-> shown,
          lvlmap |-> lvlmap, active |-> active, cause |-> cause]
Becomes(s) ==
    /\ table' = s.t /\ rule' = s.rule /\ pred' = s.pred /\ shown' = s.shown
    /\ lvlmap' = s.lvlmap /\ active' = s.active /\ cause' = s.cause
    /\ steps' = steps + 1

-----------------------------------------------------------------------------
(* Compiling and evaluating the filter                                     *)

(* Values a rule on a Level column stands for: those in the dictionary     *)
(* whose rank is the level of a selected name.                             *)
SelectedLevels(r) == {LevelOf[v] : v \in r.vals} \ {Unknown}
ExpandedByRank(t, r) ==
    {t.dict[r.key][j] : j \in {n \in DOMAIN t.ranks[r.key] :
        n <= Len(t.dict[r.key]) /\ t.ranks[r.key][n] \in SelectedLevels(r)}}

EnumRowPredicate(t, k, i, vals) ==
    LET dict == DictOf(t, k)
        found == vals \cap Range(dict)
    IN [kind |-> "enum", col |-> i, size |-> Len(dict), strs |-> vals \ found,
        ids |-> {j \in DOMAIN dict : dict[j] \in found}, resolved |-> found = vals]

(* A leaf that cannot be resolved carries no constraint.                   *)
CompileLeaf(t, r) ==
    LET i == ColumnIndexOf(t, r.key)
        level == t.cols[i].type = "level"
    IN CASE r.kind = "none" \/ r.vals = {} \/ i = 0 -> MatchAll
         [] r.kind = "string" -> [MatchAll EXCEPT !.kind = "string", !.col = i, !.strs = r.vals]
         [] ~level -> EnumRowPredicate(t, r.key, i, r.vals)
         [] r.key \notin DOMAIN t.ranks \/ r.key \notin DOMAIN t.dict -> MatchAll
         [] ExpandedByRank(t, r) = {} -> MatchAll
         [] OTHER -> EnumRowPredicate(t, r.key, i, ExpandedByRank(t, r))

IsText(t, r, i) == /\ i \in DOMAIN t.ids /\ t.ids[i] # NoKey
                   /\ t.rows[r].cell[t.ids[i]].tag \in {"text", "dict"}
MatchesRow(t, p, r) ==
    LET id == GetEnumValueId(t, r, p.col)
    IN CASE p.kind = "all" -> TRUE
         [] p.kind = "string" -> GetFormattedValue(t, r, p.col) \in p.strs
         [] p.ids # {} /\ id # 0 /\ id <= p.size -> id \in p.ids
         [] p.ids # {} /\ id # 0 /\ p.resolved -> FALSE
         [] OTHER -> IsText(t, r, p.col) /\ GetValue(t, r, p.col) \in p.strs

-----------------------------------------------------------------------------
(* What the listeners do                                                   *)

RebuildAcceptedRows(s) ==
    [s EXCEPT !.shown = {r \in DOMAIN s.t.rows : MatchesRow(s.t, s.pred, r)}]
RanksBehind(t, k) == k \in DOMAIN t.ranks /\ Len(t.ranks[k]) < Len(DictOf(t, k))
UpdateFilters(s) ==
    RebuildAcceptedRows([s EXCEPT !.pred = CompileLeaf(s.t, s.rule),
        !.cause = IF RanksBehind(s.t, s.rule.key) THEN {"overflow"} ELSE {}])

OnSourceRowsRemoved(s, n) == [s EXCEPT !.shown = {r - n : r \in {x \in @ : x > n}}]
OnSourceRowsInserted(s, from) ==
    [s EXCEPT !.shown = @ \cup {r \in from .. Len(s.t.rows) : MatchesRow(s.t, s.pred, r)}]
OnSourceDataChanged(s, first, last) ==
    IF s.pred.kind # "all" /\ s.pred.col \in first .. last THEN RebuildAcceptedRows(s) ELSE s

(* The window recompiles when a leaf is unresolved among the columns as    *)
(* they are now, the new ones included.                                    *)
OnColumnsInserted(s, before) ==
    LET late == s.rule.kind # "none" /\ ColumnIndexOf(before, s.rule.key) = 0
                /\ ColumnIndexOf(s.t, s.rule.key) # 0
    IN IF s.active /\ s.rule.kind # "none" /\ ColumnIndexOf(s.t, s.rule.key) = 0
       THEN UpdateFilters(s)
       ELSE [s EXCEPT !.cause = IF late THEN @ \cup {"late column"} ELSE @]

OnSourceColumnsMoved(s) ==
    IF s.active THEN UpdateFilters(s) ELSE [s EXCEPT !.cause = @ \cup {"background"}]

\* Mutant: a Level column is resolved like a plain enumeration.
ResolvedByTexts(s) ==
    LET i == ColumnIndexOf(s.t, s.rule.key)
    IN \/ i = 0
       \/ s.rule.key \in DOMAIN s.t.dict /\ s.rule.vals \subseteq Range(s.t.dict[s.rule.key])

EnumFilterFullyResolved(s) ==
    LET i == ColumnIndexOf(s.t, s.rule.key)
    IN \/ i = 0
       \/ /\ s.rule.key \in DOMAIN s.t.dict /\ s.t.cols[i].type # "level"
          /\ s.rule.vals \subseteq Range(s.t.dict[s.rule.key])

OnEnumColumnsChanged(s, reason, i) ==
    LET hit == s.rule.kind = "enum" /\ ColumnIndexOf(s.t, s.rule.key) = i
        concerned == hit /\ ~s.rule.adv
        raws == {v \in s.lvlmap[i] : LevelOf[v] \in SelectedLevels(s.rule)}
        renamed == IF reason = "demoted" /\ concerned /\ i \in DOMAIN s.lvlmap
                   THEN [s EXCEPT !.rule.vals = raws] ELSE s
        rebuild == concerned /\ (reason = "grew" => ~EnumFilterFullyResolved(s))
        missed == IF ~hit THEN {} ELSE IF ~s.active THEN {"background"}
                  ELSE IF s.rule.adv THEN {"advanced"} ELSE {}
    IN IF s.active /\ rebuild THEN UpdateFilters(renamed)
       ELSE [IF s.active THEN renamed ELSE s EXCEPT !.cause = @ \cup missed]

-----------------------------------------------------------------------------
(* LogModel's handlers                                                     *)

EnumColumns(t) == {i \in DOMAIN t.cols : t.cols[i].type \in EnumLike /\ t.cols[i].key \in DOMAIN t.dict}
KnownLevelTexts(t, i) ==
    LET k == t.cols[i].key
    IN IF t.cols[i].type = "level" /\ k \in DOMAIN t.ranks /\ k \in DOMAIN t.dict
       THEN {t.dict[k][j] : j \in {n \in DOMAIN t.ranks[k] :
                n <= Len(t.dict[k]) /\ t.ranks[k][n] # Unknown}}
       ELSE {}

(* The dictionaries before and after the batch, compared column by column. *)
AnnounceEnumChange(b, s, i) ==
    LET k == b.cols[i].key
        gone == k \notin DOMAIN s.t.dict
        kept == IF KnownLevelTexts(b, i) = {} THEN s
                ELSE [s EXCEPT !.lvlmap = Put(@, i, KnownLevelTexts(b, i))]
    IN IF i \notin EnumColumns(b) THEN s
       ELSE IF gone THEN OnEnumColumnsChanged(kept, "demoted", i)
       ELSE IF b.cols[i].type = "enum" /\ s.t.cols[i].type = "level"
            THEN OnEnumColumnsChanged(s, "promoted", i)
       ELSE IF Len(s.t.dict[k]) # Len(b.dict[k])
            THEN OnEnumColumnsChanged(s, "grew", i) ELSE s

AnnounceLateDemotions(b, s, i) ==
    IF s.t.cols[i].key \in s.t.demoted /\ i \notin {j \in EnumColumns(b) : b.cols[j].key \notin DOMAIN s.t.dict}
    THEN OnEnumColumnsChanged(s, "demoted", i) ELSE s

AnnounceBackfill(b, s) ==
    LET range == s.t.backfill
        promoted(acc, i) ==
            IF i \in range[1] .. range[2] /\ acc.t.cols[i].type \in EnumLike /\ i \notin EnumColumns(b)
            THEN OnEnumColumnsChanged(acc, "promoted", i) ELSE acc
    IN IF range = NoRange \/ s.t.rows = <<>> THEN s
       ELSE FoldLeft(promoted, OnSourceDataChanged(s, range[1], range[2]), Upto(1, Len(s.t.cols)))

Moved(s, src, dest) ==
    LET moved == OnSourceColumnsMoved([s EXCEPT !.t = MoveColumn(@, src, dest)])
    IN IF src = dest THEN s ELSE moved

(* New time columns go to the front, a fresh Level column to second place. *)
BubbleTimeColumns(b, s) ==
    LET step(acc, i) == IF s.t.cols[i].type = "time" /\ i # 1 THEN Moved(acc, i, 1) ELSE acc
    IN FoldLeft(step, s, Upto(Len(b.cols) + 1, Len(s.t.cols)))
BubbleLevelColumns(s) ==
    LET step(acc, k) == IF ShouldBubbleLevelColumn(acc.t, ColumnIndexOf(acc.t, k))
                        THEN Moved(acc, ColumnIndexOf(acc.t, k), 2) ELSE acc
    IN FoldLeft(step, [s EXCEPT !.t.bubbles = <<>>], s.t.bubbles)

(* LogModel::AppendBatch: collapse of a long batch, eviction, append, and  *)
(* then what the listeners are told of the table b before it.              *)
NewestOf(batch) ==
    IF Len(batch) > Retention THEN SubSeq(batch, Len(batch) - Retention + 1, Len(batch)) ELSE batch
EvictFor(s, lines) ==
    LET total == Len(s.t.rows) + Len(lines)
        drop == IF total > Retention THEN total - Retention ELSE 0
    IN OnSourceRowsRemoved([s EXCEPT !.t = EvictPrefixRows(@, drop)], drop)
AppendRows(s, lines) ==
    OnSourceRowsInserted([s EXCEPT !.t = AppendBatch(@, lines), !.lvlmap = <<>>], Len(s.t.rows) + 1)
AnnounceColumns(b, s) == IF Len(s.t.cols) > Len(b.cols) THEN OnColumnsInserted(s, b) ELSE s
AnnounceEnums(b, s) ==
    LET diff(acc, i) == AnnounceEnumChange(b, acc, i)
        late(acc, i) == AnnounceLateDemotions(b, acc, i)
    IN FoldLeft(late, FoldLeft(diff, s, Upto(1, Len(b.cols))), Upto(1, Len(s.t.cols)))
BubbleColumns(b, s) ==
    BubbleLevelColumns(IF Len(s.t.cols) > Len(b.cols) THEN BubbleTimeColumns(b, s) ELSE s)

AnnounceBatch(b, s) ==
    BubbleColumns(b, AnnounceBackfill(b, AnnounceEnums(b, AnnounceColumns(b, s))))
BatchOnto(s, lines) == AnnounceBatch(s.t, AppendRows(s, lines))
ModelAppendBatch(s, batch) == BatchOnto(EvictFor(s, NewestOf(batch)), NewestOf(batch))

ModelEndStreaming(s) ==
    LET b == s.t
        after == [s EXCEPT !.t = FinalizeAutoDetection(b), !.lvlmap = <<>>]
        was(i) == b.cols[i].type
        tell(acc, i) ==
            LET now == acc.t.cols[i].type
                kept == IF KnownLevelTexts(b, i) = {} THEN acc
                        ELSE [acc EXCEPT !.lvlmap = Put(@, i, KnownLevelTexts(b, i))]
            IN CASE was(i) \notin EnumLike /\ now \in EnumLike -> OnEnumColumnsChanged(acc, "promoted", i)
                 [] was(i) = "enum" /\ now = "level" -> OnEnumColumnsChanged(acc, "promoted", i)
                 [] was(i) \in EnumLike /\ now \notin EnumLike -> OnEnumColumnsChanged(kept, "demoted", i)
                 [] OTHER -> acc
    IN BubbleLevelColumns(FoldLeft(tell, after, Upto(1, Len(b.cols))))

(* What the listeners are told when column i of s has become that of t.    *)
AnnounceTypeEdit(s, i, t) ==
    LET previous == s.t.cols[i].type
        now == t.cols[i].type
        k == s.t.cols[i].key
        promoted == \/ previous \notin EnumLike /\ now \in EnumLike
                    \/ previous = "enum" /\ now = "level"
        demoted == \/ previous \in EnumLike /\ now \notin EnumLike
                   \/ previous = "level" /\ now = "enum"
        silent == /\ ~promoted /\ ~demoted /\ k \in DOMAIN s.t.dict
                  /\ k \in DOMAIN t.dict => t.dict[k] # s.t.dict[k]
        done == [s EXCEPT !.t = t, !.cause = IF silent THEN @ \cup {"silent edit"} ELSE @]
        told == IF promoted THEN OnEnumColumnsChanged(done, "promoted", i)
                ELSE IF demoted THEN OnEnumColumnsChanged(done, "demoted", i) ELSE done
    IN IF t.rows = <<>> THEN told ELSE OnSourceDataChanged(told, i, i)

(* The column editor: the type is written, the rows reconciled, the        *)
(* listeners told when enum-ness changed, then the column is repainted.    *)
ApplyColumnTypeEdit(s, i, type, auto) ==
    LET written == [s.t EXCEPT !.cols[i].type = type, !.cols[i].auto = auto]
        edited == OnUserChangedColumnType(written, i, s.t.cols[i].type)
    IN AnnounceTypeEdit(s, i, IF type = "any" /\ auto THEN RescanColumnForAutoDetection(edited, i) ELSE edited)

-----------------------------------------------------------------------------
(* ValidateFilterAgainstColumns: what the simple editor can hold.          *)
SimpleRepresentable(t, r) ==
    LET type == t.cols[ColumnIndexOf(t, r.key)].type
    IN /\ ColumnIndexOf(t, r.key) # 0
       /\ IF r.kind = "enum" THEN type \in EnumLike ELSE type \in {"any", "string"}

(* A query may name any key.  A leaf the simple editor could not load is   *)
(* kept as advanced.                                                       *)
ApplyAdvancedFilterResult(s, r) ==
    UpdateFilters([s EXCEPT !.rule = [r EXCEPT !.adv = ~SimpleRepresentable(s.t, r)]])
ClearFilter(s) == UpdateFilters([s EXCEPT !.rule = NoRule])

(* A configuration is loaded, which empties the model, and a stream opens. *)
ApplyLoadedConfiguration(cols, r) ==
    LET empty == OnConfigurationReloaded(EmptyTable(<<>>), cols)
        s == UpdateFilters([t |-> empty, rule |-> NoRule, pred |-> MatchAll, shown |-> {},
                            lvlmap |-> <<>>, active |-> TRUE, cause |-> {}])
        filtered == IF r = NoRule \/ ~(r.adv \/ SimpleRepresentable(empty, r)) THEN s
                    ELSE UpdateFilters([s EXCEPT !.rule = r])
    IN [filtered EXCEPT !.t = BeginStreaming(@)]

Starts(s) ==
    /\ table = s.t /\ rule = s.rule /\ pred = s.pred /\ shown = s.shown
    /\ lvlmap = s.lvlmap /\ active = s.active /\ cause = s.cause
    /\ steps = 0
Init == \E cols \in Configs, r \in Rules \cup {NoRule} : Starts(ApplyLoadedConfiguration(cols, r))

Batch == \E lines \in Batches : Becomes(ModelAppendBatch(State, lines))

EndStreaming == table.streaming /\ Becomes(ModelEndStreaming(State))
AppendFile == ~table.streaming /\ Becomes([State EXCEPT !.t = AppendStreaming(@)])

EditColumn ==
    /\ active
    /\ \E i \in DOMAIN table.cols, type \in Types, auto \in BOOLEAN :
          /\ auto => type = "any"
          /\ <<type, auto>> # <<table.cols[i].type, table.cols[i].auto>>
          /\ Becomes(ApplyColumnTypeEdit(State, i, type, auto))

UserMovesColumn ==
    /\ active
    /\ \E src, dest \in DOMAIN table.cols :
          src # dest /\ Becomes(Moved(State, src, dest))

SetRule ==
    /\ active
    /\ \/ \E r \in Rules : Becomes(ApplyAdvancedFilterResult(State, r))
       \/ rule # NoRule /\ Becomes(ClearFilter(State))

SwitchTab == Becomes([State EXCEPT !.active = ~@])

Next == /\ steps < MaxSteps
        /\ \/ Batch \/ EndStreaming \/ AppendFile \/ EditColumn \/ UserMovesColumn
           \/ SetRule \/ SwitchTab
Spec == Init /\ [][Next]_vars

-----------------------------------------------------------------------------
TypeOK ==
    /\ \A i \in DOMAIN table.cols : table.cols[i].type \in Types
    /\ Len(table.ids) = Len(table.cols)
    /\ \A r \in DOMAIN table.rows : \A k \in Keys :
          table.rows[r].cell[k].tag \in {"none", "text", "int", "time", "dict"}
    /\ shown \subseteq DOMAIN table.rows
    /\ Len(table.rows) <= Retention

(* Whatever was promoted, demoted, re-detected, moved or evicted, the cell *)
(* of a row still reads what its line said, directly and through the       *)
(* column that shows the key: no dictionary is dropped under a reference,  *)
(* and no column is bound to another column's key.                         *)
CellsReadTheirLine ==
    \A r \in DOMAIN table.rows :
        /\ \A k \in Keys : Resolve(table, k, table.rows[r].cell[k]) = table.rows[r].said[k]
        /\ \A i \in DOMAIN table.cols :
              GetValue(table, r, i) = table.rows[r].said[table.cols[i].key]

(* An auto-detected enumeration holds no plain text of its own: every row, *)
(* old or new, is encoded, so a predicate on ids misses none.              *)
Unencoded(t, k) == {r \in DOMAIN t.rows : t.rows[r].cell[k].tag = "text"
                                          /\ t.rows[r].cell[k].v \notin LongTexts}
AutoEnumFullyEncoded ==
    \A i \in DOMAIN table.cols :
        (table.cols[i].type \in EnumLike /\ table.cols[i].auto)
            => Unencoded(table, table.cols[i].key) = {}

(* The level painted for a row is the level of its own text.               *)
LevelsAreTheRowsOwn ==
    \A i \in DOMAIN table.cols : \A r \in DOMAIN table.rows :
        LET level == GetDisplayLevelForRow(table, r, i)
        IN level # 0 => \/ level = LevelOf[table.rows[r].said[table.cols[i].key]]
                        \/ level = Unknown /\ ~table.cols[i].auto

(* Through every change of type, promotion, demotion and eviction a cell   *)
(* reads what its line said, and the encodings that filters and painting   *)
(* rely on agree with it.                                                  *)
EncodingsAreFaithful ==
    TypeOK /\ CellsReadTheirLine /\ AutoEnumFullyEncoded /\ LevelsAreTheRowsOwn

(* What the rule asks for, said without ids, ranks or dictionaries.        *)
Selected ==
    LET i == ColumnIndexOf(table, rule.key)
        said(r) == table.rows[r].said[rule.key]
        tag(r) == table.rows[r].cell[rule.key].tag
        level(r) == tag(r) \in {"text", "dict"} /\ LevelOf[said(r)] \in SelectedLevels(rule)
    IN {r \in DOMAIN table.rows :
            CASE CompileLeaf(table, rule).kind = "all" -> TRUE
              [] rule.kind = "string" ->
                    (IF tag(r) = "time" /\ table.cols[i].fmt # "strftime" THEN "{}" ELSE said(r))
                        \in rule.vals
              [] table.cols[i].type = "level" -> level(r)
              [] OTHER -> tag(r) \in {"text", "dict"} /\ said(r) \in rule.vals}

(* The rows shown are the rows the filter selects, through every promotion *)
(* and demotion of the filtered column, as long as none of the known ways  *)
(* to miss an update has happened: signals that came while the tab was in  *)
(* the background, a dictionary that came or went under an advanced        *)
(* filter, a column that appeared after its filter, a type edit that       *)
(* rebuilt or dropped a dictionary without a signal, a pinned dictionary   *)
(* that overflowed and so left ranks behind or plain text beside           *)
(* references.                                                             *)
FilterShowsSelected ==
    (cause = {} /\ (rule.kind = "enum" /\ rule.key \in DOMAIN table.dict
                        => Unencoded(table, rule.key) = {}))
        => shown = Selected

(* The claim that the predicates are kept in sync with the live dictionary *)
(* (main_window.cpp, OnEnumColumnsChangedApplyFilterRebuild), for a tab    *)
(* that was active all along.                                              *)
FilterFollowsDictionary ==
    (cause \subseteq {"advanced"} /\ Unencoded(table, "lvl") = {}) => shown = Selected

(* The claim that a clause dropped because its column is not there yet     *)
(* corrects itself: once the column exists the active tab filters by it.   *)
LateColumnFiltered ==
    (active /\ rule.kind = "string" /\ ColumnIndexOf(table, rule.key) # 0) => pred.kind # "all"

(* The claim that a change to Time back-fills the rows already there.      *)
TimeEditApplies ==
    \A i \in DOMAIN table.cols : \A r \in DOMAIN table.rows :
        LET v == table.rows[r].said[table.cols[i].key]
        IN (table.cols[i].type = "time" /\ v \in TimeTexts)
              => /\ table.rows[r].cell[table.cols[i].key].tag = "time"
                 /\ GetFormattedValue(table, r, i) = v
=============================================================================
