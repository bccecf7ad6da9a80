--------------------------- MODULE FilterEditing -----------------------------
(***************************************************************************)
(* The filters of a tab (main_window.cpp, log_session.cpp) and the two     *)
(* dialogs that edit them.  The simple filters are kept as a list of leaf  *)
(* rules with a menu entry each; the expression of the configuration is    *)
(* rebuilt from them and from the advanced sub-trees it already holds.     *)
(* AdvancedFilterEditor is a modal query field; FilterEditor is a modeless *)
(* form that knows its column by index, so columns may move under it.      *)
(***************************************************************************)
EXTENDS FilterEvaluation

CONSTANTS
    Columns,      \* the columns of the loaded log, [keys, type]
    NumRows,      \* its rows
    Phrases,      \* what the user types next: sets of token sequences per step
    FormValues,   \* what the user enters in the form, [type, match, s, lo, hi, vals]
    MaxPhrases,   \* bound: phrases the user types
    MaxFilters    \* bound: filter ids handed out

VARIABLES
    columns,     \* LogConfiguration::columns
    expr,        \* LogConfiguration::expression
    simple,      \* mSimpleLeaves in mSimpleLeafOrder: sequence of [id, rule]
    menu,        \* filter entries of the Filters menu: sequence of ids
    clearAll,    \* "Clear all filters" is enabled
    compiled,    \* the compiled expression of the filter proxy
    dirty,       \* mFiltersDirty
    query,       \* AdvancedFilterEditor: [open, text]; typed counts the phrases so far
    form,        \* FilterEditor: [open, id, index]
    saved,       \* the session file: [columns, expr]
    lastId,      \* last QUuid handed out
    asked        \* ghost: the rows the user last asked for, if the query said so

editVars == <<columns, expr, simple, menu, clearAll, compiled, dirty, query, form, saved, lastId, asked>>

NoForm == [open |-> FALSE, id |-> 0, index |-> 0]

EditInit ==
    /\ columns = Columns
    /\ expr = MatchAll /\ compiled = CompiledMatchAll
    /\ simple = <<>> /\ menu = <<>> /\ clearAll = FALSE /\ dirty = FALSE
    /\ query = [open |-> FALSE, text |-> <<>>, typed |-> 0] /\ form = NoForm
    /\ saved = [columns |-> Columns, expr |-> MatchAll]
    /\ lastId = 0 /\ asked = {}

-----------------------------------------------------------------------------
(* ValidateFilterAgainstColumns: the reason a rule does not fit, or "ok". *)
TypesMatch(rule, column) ==
    CASE rule.type = "Time" -> column.type = "Time"
      [] rule.type = "Enumeration" -> column.type = "Enumeration"
      [] rule.type = "Boolean" -> column.type = "Boolean"
      [] rule.type = "Number" -> column.type = "Number"
      [] rule.type = "String" -> column.type \notin {"Time", "Enumeration", "Boolean", "Number"}

ValidateFilterAgainstColumns(rule, cols) ==
    LET row == ResolveLeafColumnByKeys(rule.keys, cols)
    IN CASE row = 0 -> "OutOfRangeRow"
         [] row # 0 /\ rule.type = "Enumeration" /\ rule.vals = <<>> -> "EmptyEnumSelection"
         [] row # 0 /\ ~(rule.type = "Enumeration" /\ rule.vals = <<>>) /\ ~TypesMatch(rule, cols[row]) -> "TypeMismatch"
         [] OTHER -> IF \/ rule.type \in {"Time", "Number"} /\ rule.lo = {} /\ rule.hi = {}
                        \/ rule.type = "Boolean" /\ Sides(rule.vals) = {}
                        \/ rule.type = "String" /\ (rule.s = {} \/ rule.match = "none")
                     THEN "MissingPayload" ELSE "ok"

(* Mutant: any rule on a column that exists is taken for a simple filter. *)
FitsAnyType(rule, cols) == ResolveLeafColumnByKeys(rule.keys, cols) # 0

Fits(rule, cols) == ValidateFilterAgainstColumns(rule, cols) = "ok"

-----------------------------------------------------------------------------
(* Shared steps, on a record of the filter state so that a handler can chain *)
(* them: MirrorSessionStateToConfiguration, UpdateFilters, AddLogFilter,     *)
(* ClearFilter.                                                              *)
F0 == [expr |-> expr, simple |-> simple, menu |-> menu, clearAll |-> clearAll,
       compiled |-> compiled, dirty |-> dirty, lastId |-> lastId]

KeepsAdvanced(e) ==
    CASE e.op = "and" -> SelectSeq(e.kids, LAMBDA k : k.op # "leaf")
      [] e.op \in {"or", "not"} -> <<e>>
      [] e.op = "leaf" -> <<>>

(* Mutant: a single filter becomes the root of the expression. *)
RebuildUnwrapsOneLeaf(f) ==
    LET kids == [i \in 1..Len(f.simple) |-> MakeLeaf(f.simple[i].rule)] \o KeepsAdvanced(f.expr)
    IN [f EXCEPT !.expr = IF Len(kids) = 1 THEN kids[1] ELSE MakeAnd(kids)]

RebuildFilterExpressionFromSimpleLeaves(f) ==
    [f EXCEPT !.expr = MakeAnd([i \in 1..Len(f.simple) |-> MakeLeaf(f.simple[i].rule)] \o KeepsAdvanced(f.expr))]

UpdateFilters(f, cols) == [f EXCEPT !.compiled = CompileExpression(f.expr, cols)]

MirrorAndUpdate(f, cols) == UpdateFilters(RebuildFilterExpressionFromSimpleLeaves(f), cols)

SyncClearAllFiltersEnabled(f) == [f EXCEPT !.clearAll = ~IsMatchAll(f.expr)]

AddLogFilter(f, id, rule, deferSync, cols) ==
    LET listed == [f EXCEPT !.simple = Append(f.simple, [id |-> id, rule |-> rule]), !.dirty = TRUE]
        synced == IF deferSync THEN listed ELSE MirrorAndUpdate(listed, cols)
    IN [synced EXCEPT !.menu = Append(f.menu, id), !.clearAll = TRUE]

(* Mutant: the menu entry goes only when the change is synchronised. *)
ClearFilterKeepsEntry(f, id, deferSync, cols) ==
    LET erased == [f EXCEPT !.simple = SelectSeq(f.simple, LAMBDA x : x.id # id), !.dirty = TRUE]
    IN IF deferSync THEN erased
       ELSE SyncClearAllFiltersEnabled(MirrorAndUpdate([erased EXCEPT !.menu = SelectSeq(f.menu, LAMBDA x : x # id)], cols))

ClearFilter(f, id, deferSync, cols) ==
    LET erased == [f EXCEPT !.simple = SelectSeq(f.simple, LAMBDA x : x.id # id), !.dirty = TRUE,
                            !.menu = SelectSeq(f.menu, LAMBDA x : x # id)]
    IN IF deferSync THEN erased ELSE SyncClearAllFiltersEnabled(MirrorAndUpdate(erased, cols))

ResetSimpleFilterState(f) == [f EXCEPT !.simple = <<>>, !.menu = <<>>, !.clearAll = FALSE]

RECURSIVE AddFresh(_, _, _)
AddFresh(f, rules, cols) ==
    IF rules = <<>> THEN f
    ELSE AddFresh(AddLogFilter([f EXCEPT !.lastId = f.lastId + 1], f.lastId + 1, rules[1], TRUE, cols), Tail(rules), cols)

Becomes(f) ==
    /\ expr' = f.expr /\ simple' = f.simple /\ menu' = f.menu /\ clearAll' = f.clearAll
    /\ compiled' = f.compiled /\ dirty' = f.dirty /\ lastId' = f.lastId

-----------------------------------------------------------------------------
(* The advanced editor. *)

(* AdvancedFilterEditor::ReparseAndUpdate: the cached result, which also     *)
(* enables OK.  A pattern the regex engine rejects disables it.              *)
InvalidPattern(t) == "(" \in ToSet(t.b)

RECURSIVE FindInvalidRegex(_)
FindInvalidRegex(e) ==
    CASE e.op = "leaf" -> e.rule.match = "RegularExpression" /\ \E t \in e.rule.s : InvalidPattern(t)
      [] e.op = "not" -> FindInvalidRegex(e.kid)
      [] OTHER -> \E i \in DOMAIN e.kids : FindInvalidRegex(e.kids[i])

Acceptable(got) == IF got.ok /\ ~FindInvalidRegex(got.e) THEN {got.e} ELSE {}
ReparseAndUpdate(text) == Acceptable(ParseQuery(text))

OpenAdvancedFilter ==
    /\ ~query.open
    /\ query' = [query EXCEPT !.open = TRUE, !.text = FormatExpression(expr)]
    /\ UNCHANGED <<columns, expr, simple, menu, clearAll, compiled, dirty, form, saved, lastId, asked>>

(* The user empties the field or goes on typing. *)
TypeQuery ==
    /\ query.open
    /\ \/ query.text # <<>> /\ query' = [query EXCEPT !.text = <<>>]
       \/ /\ query.typed < MaxPhrases
          /\ \E ph \in Phrases[query.typed + 1] :
               query' = [query EXCEPT !.text = @ \o ph, !.typed = @ + 1]
    /\ UNCHANGED <<columns, expr, simple, menu, clearAll, compiled, dirty, form, saved, lastId, asked>>

PromoteToColumnKeys(rule, cols) ==
    LET row == ResolveLeafColumnByKeys(rule.keys, cols)
    IN IF row = 0 THEN rule ELSE [rule EXCEPT !.keys = cols[row].keys]

(* Mutant: the leaf is kept without the AND around it. *)
KeepBare(e) == e

(* A leaf the form could not load stays advanced, wrapped in an AND so that *)
(* the next rebuild does not take it for a simple leaf.                     *)
KeepAsAdvanced(e) == IF e.op = "leaf" THEN MakeAnd(<<e>>) ELSE e

ApplyAdvancedFilterResult(f, result, cols) ==
    LET top    == IF result.op = "and" THEN result.kids ELSE <<result>>
        isSimple(k) == k.op = "leaf" /\ Fits(k.rule, cols)
        leaves == SelectSeq(top, isSimple)
        rules  == [i \in 1..Len(leaves) |-> PromoteToColumnKeys(leaves[i].rule, cols)]
        others == SelectSeq(top, LAMBDA k : ~isSimple(k))
        rest   == MakeAnd([i \in 1..Len(others) |-> KeepAsAdvanced(others[i])])
        split  == AddFresh([ResetSimpleFilterState(f) EXCEPT !.expr = rest], rules, cols)
    IN [SyncClearAllFiltersEnabled(MirrorAndUpdate(split, cols)) EXCEPT !.dirty = TRUE]

(* The rows a tree stands for, clauses without a column or payload ignored:  *)
(* no set at all when nothing is left of it.                                 *)
Rows == 0..(NumRows - 1)
RECURSIVE Means(_, _)
Means(e, cols) ==
    LET all == UNION {Means(e.kids[i], cols) : i \in DOMAIN e.kids}
    IN CASE e.op = "leaf" -> {{r \in Rows : MatchesRow(p, r)} : p \in CompileLeaf(e.rule, cols)}
         [] e.op = "and" -> IF e.kids = <<>> THEN {Rows} ELSE IF all = {} THEN {} ELSE {{r \in Rows : \A s \in all : r \in s}}
         [] e.op = "or" -> IF all = {} THEN {} ELSE {UNION all}
         [] e.op = "not" -> {Rows \ s : s \in Means(e.kid, cols)}

Accepted(verdict) == {r \in Rows : \A s \in verdict : r \in s}
RowsOf(e, cols) == Accepted(Means(e, cols))

AcceptQuery ==
    /\ query.open
    /\ \E result \in ReparseAndUpdate(query.text) :
         /\ Becomes(ApplyAdvancedFilterResult(F0, result, columns))
         /\ lastId' <= MaxFilters
         /\ asked' = {RowsOf(result, columns)}
    /\ query' = [query EXCEPT !.open = FALSE, !.text = <<>>]
    /\ UNCHANGED <<columns, form, saved>>

RejectQuery ==
    /\ query.open /\ query' = [query EXCEPT !.open = FALSE, !.text = <<>>]
    /\ UNCHANGED <<columns, expr, simple, menu, clearAll, compiled, dirty, form, saved, lastId, asked>>

-----------------------------------------------------------------------------
(* The form.  The modal query dialog blocks it. *)

RuleOf(id) == {simple[i].rule : i \in {j \in DOMAIN simple : simple[j].id = id}}

(* AddFilter for a new filter, on the column the header menu was opened on. *)
AddFilter(i) ==
    /\ ~query.open /\ ~form.open /\ lastId < MaxFilters
    /\ form' = [open |-> TRUE, id |-> lastId + 1, index |-> i]
    /\ lastId' = lastId + 1
    /\ UNCHANGED <<columns, expr, simple, menu, clearAll, compiled, dirty, query, saved, asked>>

(* Menu entry "Edit": a rule that no longer fits its column is removed first. *)
EditFilter(id) ==
    /\ ~query.open /\ ~form.open /\ id \in ToSet(menu)
    /\ \E rule \in RuleOf(id) :
         LET reason == ValidateFilterAgainstColumns(rule, columns)
         IN CASE reason = "ok" ->
                   /\ form' = [open |-> TRUE, id |-> id, index |-> ResolveLeafColumnByKeys(rule.keys, columns)]
                   /\ UNCHANGED <<expr, simple, menu, clearAll, compiled, dirty, lastId, asked>>
              [] reason \in {"EmptyEnumSelection", "MissingPayload"} ->
                   /\ Becomes(ClearFilter(F0, id, FALSE, columns)) /\ asked' = {} /\ UNCHANGED form
              [] OTHER ->
                   /\ Becomes(ClearFilter(F0, id, FALSE, columns)) /\ asked' = {}
                   /\ form' = [open |-> TRUE, id |-> id, index |-> 1]
    /\ UNCHANGED <<columns, query, saved>>

(* OnOkClicked reads the type of the column now at the index, and the slots  *)
(* FilterSubmitted, FilterTimeStampSubmitted, ... refuse a bad payload by    *)
(* clearing the filter.                                                      *)
Refused(v) == \/ v.match = "RegularExpression" /\ \E t \in v.s : InvalidPattern(t)
              \/ \E a \in v.lo, b \in v.hi : a > b
              \/ v.type \in {"Time", "Number"} /\ v.lo = {} /\ v.hi = {}

SubmitForm(v) ==
    LET column == columns[form.index]
        rule   == [type |-> v.type, keys |-> column.keys, match |-> v.match, s |-> v.s, lo |-> v.lo, hi |-> v.hi,
                   vals |-> v.vals]
    IN /\ ~query.open /\ form.open
       /\ v.type = (IF column.type \in {"Time", "Enumeration", "Boolean", "Number"} THEN column.type ELSE "String")
       /\ Becomes(IF Refused(v) THEN ClearFilter(F0, form.id, FALSE, columns)
                  ELSE AddLogFilter(ClearFilter(F0, form.id, TRUE, columns), form.id, rule, FALSE, columns))
       /\ form' = NoForm /\ asked' = {}
       /\ UNCHANGED <<columns, query, saved>>

CancelForm ==
    /\ ~query.open /\ form.open /\ form' = NoForm
    /\ UNCHANGED <<columns, expr, simple, menu, clearAll, compiled, dirty, query, saved, lastId, asked>>

-----------------------------------------------------------------------------
(* The menu, the header and the session file. *)

RemoveFilter(id) ==
    /\ ~query.open /\ id \in ToSet(menu)
    /\ Becomes(ClearFilter(F0, id, FALSE, columns)) /\ asked' = {}
    /\ UNCHANGED <<columns, query, form, saved>>

ClearAllFilters ==
    /\ ~query.open /\ clearAll
    /\ Becomes([MirrorAndUpdate([ResetSimpleFilterState(F0) EXCEPT !.expr = MatchAll], columns) EXCEPT !.dirty = TRUE])
    /\ asked' = {}
    /\ UNCHANGED <<columns, query, form, saved>>

(* A header section is dragged over its neighbour. *)
MoveColumn(i) ==
    /\ ~query.open /\ i + 1 \in DOMAIN columns
    /\ columns' = [columns EXCEPT ![i] = columns[i + 1], ![i + 1] = columns[i]]
    /\ compiled' = CompileExpression(expr, columns')
    /\ UNCHANGED <<expr, simple, menu, clearAll, dirty, query, form, saved, lastId, asked>>

SaveConfiguration ==
    /\ ~query.open
    /\ LET f == RebuildFilterExpressionFromSimpleLeaves(F0)
       IN expr' = f.expr /\ saved' = [columns |-> columns, expr |-> f.expr]
    /\ dirty' = FALSE
    /\ UNCHANGED <<columns, simple, menu, clearAll, compiled, query, form, lastId, asked>>

(* RebuildFiltersFromConfiguration: the top-level leaves of the file become  *)
(* simple filters again, those that do not fit a column are dropped.         *)
LoadConfiguration ==
    /\ ~query.open
    /\ LET top    == IF saved.expr.op = "and" THEN saved.expr.kids ELSE <<saved.expr>>
           leaves == SelectSeq(top, LAMBDA k : k.op = "leaf" /\ Fits(k.rule, saved.columns))
           rules  == [i \in 1..Len(leaves) |-> leaves[i].rule]
           loaded == AddFresh([ResetSimpleFilterState(F0) EXCEPT !.expr = saved.expr], rules, saved.columns)
       IN Becomes([SyncClearAllFiltersEnabled(MirrorAndUpdate(loaded, saved.columns)) EXCEPT !.dirty = FALSE])
    /\ lastId' <= MaxFilters
    /\ columns' = saved.columns
    /\ asked' = IF expr = saved.expr THEN asked ELSE {}
    /\ UNCHANGED <<query, form, saved>>

EditNext ==
    \/ OpenAdvancedFilter \/ TypeQuery \/ AcceptQuery \/ RejectQuery
    \/ \E i \in DOMAIN columns : AddFilter(i) \/ MoveColumn(i)
    \/ \E id \in 1..MaxFilters : EditFilter(id) \/ RemoveFilter(id)
    \/ \E v \in FormValues : SubmitForm(v)
    \/ CancelForm \/ ClearAllFilters \/ SaveConfiguration \/ LoadConfiguration

EditSpec == EditInit /\ [][EditNext]_editVars

-----------------------------------------------------------------------------
Shown == FilterAcceptedRows(compiled, NumRows)

EditTypeOK ==
    /\ ToSet(columns) = ToSet(Columns) /\ expr.op = "and" /\ lastId \in 0..MaxFilters
    /\ \A i \in DOMAIN simple : simple[i].id \in 1..lastId
    /\ clearAll \in BOOLEAN /\ dirty \in BOOLEAN
    /\ query.typed \in 0..MaxPhrases /\ form.index \in 0..Len(columns)
    /\ asked \subseteq SUBSET Rows

(* The rows shown are those the query the user accepted stands for: neither  *)
(* its split into simple filters and advanced sub-trees, nor the reordering, *)
(* nor the bitsets, nor saving and reloading the session change them.        *)
ShownIsAsked == \A rows \in asked : Shown = rows

(* The bitset path and the row-by-row path accept the same rows. *)
PathsAgree == BitsetRows(compiled, NumRows) = {r \in Rows : EvaluateExpression(compiled, r)}

(* The Filters menu lists exactly the simple filters, in order; they are     *)
(* exactly the leaves at the top of the expression; and "Clear all" is       *)
(* offered exactly when something is filtered.                               *)
MenuMirrorsFilters ==
    /\ menu = [i \in 1..Len(simple) |-> simple[i].id]
    /\ LET top == SelectSeq(expr.kids, LAMBDA k : k.op = "leaf")
       IN top = [i \in 1..Len(simple) |-> MakeLeaf(simple[i].rule)]
    /\ clearAll = ~IsMatchAll(expr)

(* Every simple filter can be edited in the form and survives a reload: it   *)
(* fits the column it is bound to, although columns move while the form is   *)
(* open and queries put rules of any type on any column.                     *)
SimpleFiltersFit == \A i \in DOMAIN simple : ValidateFilterAgainstColumns(simple[i].rule, columns) = "ok"

(* A bound that has no literal: a denormal, an infinity, a year outside ISO. *)
RECURSIVE AtTheEdge(_)
AtTheEdge(e) ==
    CASE e.op = "leaf" ->
           LET bounds == e.rule.lo \cup e.rule.hi
           IN \/ e.rule.type = "Time" /\ ~(bounds \subseteq 0..LastTime)
              \/ e.rule.type = "Number" /\ bounds \cap {Inf, -Inf, Denormal, -Denormal} # {}
      [] e.op = "not" -> AtTheEdge(e.kid)
      [] OTHER -> \E i \in DOMAIN e.kids : AtTheEdge(e.kids[i])

SameAnswer(got, e) == got.ok /\ RowsOf(got.e, columns) = RowsOf(e, columns)
RoundTrips(e) == SameAnswer(ParseQuery(FormatExpression(e)), e)

(* Opening the query editor on the current filters and accepting at once     *)
(* changes nothing, except where a bound has no literal.  The filters stay   *)
(* as they are while the editor is open.                                     *)
ReopenKeepsFilters == query.open \/ AtTheEdge(expr) \/ RoundTrips(expr)

(* The rows shown are those asked for, on both evaluation paths.  The modal *)
(* query editor changes neither while it is open.                          *)
AnswerIsAsked == EditTypeOK /\ (query.open \/ (ShownIsAsked /\ PathsAgree))

(* The filter set stays editable in all its views: the menu mirrors it, the *)
(* form and a reload accept it, and reopening the query changes nothing.   *)
FiltersStayEditable == MenuMirrorsFilters /\ SimpleFiltersFit /\ ReopenKeepsFilters

(* query_parser.hpp: printing round-trips with ParseQuery for every tree the *)
(* parser can produce.                                                       *)
QueryRoundTrips == \A e \in ReparseAndUpdate(query.text) : RoundTrips(e)
=============================================================================
