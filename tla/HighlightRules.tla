--------------------------- MODULE HighlightRules ---------------------------
(***************************************************************************)
(* Highlight rules: the HighlightRuleSet of every tab, which caches one    *)
(* rule index per row, and the one HighlightRulesEditor of the window,     *)
(* which works on a buffer for the tab it is bound to and leaves a draft   *)
(* with a tab when it is rebound.                                          *)
(*                                                                         *)
(* A column is the sequence of its keys, a rule is [keys, needle, enabled] *)
(* and a row carries one value under one key; name, colours and the other  *)
(* match types of a rule are left out.  The editor's form always shows     *)
(* local[current], so only what GatherForm writes back is modelled.        *)
(***************************************************************************)
EXTENDS Naturals, FiniteSets, Sequences, SequencesExt, FiniteSetsExt

CONSTANTS
    RuleTabs,       \* tabs the window may have
    NewColumns,     \* columns a batch may bring
    LogRows,        \* rows a batch may bring: [key, value]
    RuleFiles,      \* configurations a user may load: [cols, rules]
    RuleNeedles,    \* texts a rule may look for, "" for none
    NoDraft, NoEditor,
    MaxRuleRows,    \* bound: rows of a tab, and its retention cap
    MaxRules,       \* bound: rules in the editor
    MaxRuleSteps    \* bound: steps of a behaviour

Columns == Seq(STRING)
HighlightRule == [keys : Seq(STRING), needle : RuleNeedles, enabled : BOOLEAN]
EditorDraft == [local : Seq(HighlightRule), baseline : Seq(HighlightRule), current : Nat]
EditorBuffer == [session : RuleTabs, shown : BOOLEAN, local : Seq(HighlightRule), baseline : Seq(HighlightRule),
                 current : Nat, cols : Seq(Columns)]

ASSUME RuleAssumption ==
    /\ MaxRuleRows \in Nat \ {0} /\ MaxRules \in Nat \ {0} /\ MaxRuleSteps \in Nat
    /\ "" \in RuleNeedles /\ NewColumns \subseteq Columns \ {<<>>}
    /\ LogRows \subseteq [key : STRING, value : STRING]
    /\ RuleFiles \subseteq [cols : Seq(Columns), rules : Seq(HighlightRule)]
    /\ NoDraft \notin EditorDraft /\ NoEditor \notin EditorBuffer

VARIABLES
    open,       \* the tabs of the window
    active,     \* the tab it shows
    cols,       \* LogConfiguration::columns of every tab
    rows,       \* rows of its table
    config,     \* LogConfiguration::highlightRules
    rules,      \* its HighlightRuleSet: [rules, compiled, match]
    drafts,     \* its HighlightEditorDraft: [local, baseline, current]
    editor,     \* HighlightRulesEditor: [session, shown, local, baseline, current, cols]
    typed,      \* what the user last saw in the editor for it (history)
    missed,     \* its columns moved while it was in the background (history)
    blanked,    \* New Session emptied its configuration (history)
    dropped,    \* a session ended unasked while it had edits (history)
    ruleSteps

ruleVars == <<open, active, cols, rows, config, rules, drafts, editor,
              typed, missed, blanked, dropped, ruleSteps>>

-----------------------------------------------------------------------------
(* HighlightRuleSet.                                                       *)

\* The first column that has all of the keys; 0 for none.
ResolveColumnByKeys(keys, columns) ==
    LET hits == {i \in DOMAIN columns : Range(keys) \subseteq Range(columns[i])}
    IN IF keys = <<>> \/ hits = {} THEN 0 ELSE Min(hits)

Inert == [col |-> 0, needle |-> ""]
CompileRule(rule, columns) ==
    LET col == ResolveColumnByKeys(rule.keys, columns)
    IN IF rule.enabled /\ col > 0 /\ rule.needle # ""
       THEN [col |-> col, needle |-> rule.needle] ELSE Inert

RecompileAll(rs, columns) == <<>> \o [i \in DOMAIN rs |-> CompileRule(rs[i], columns)]

\* Predicates keep the column index they were compiled with.
MatchesRow(predicate, columns, row) ==
    /\ predicate # Inert /\ predicate.col <= Len(columns)
    /\ row.key \in Range(columns[predicate.col])
    /\ row.value = predicate.needle

\* The last rule that matches; 0 is NO_MATCH.
EvaluateRow(compiled, columns, row) ==
    Max({0} \cup {i \in DOMAIN compiled : MatchesRow(compiled[i], columns, row)})
EvaluateRows(compiled, columns, rs) ==
    <<>> \o [i \in DOMAIN rs |-> EvaluateRow(compiled, columns, rs[i])]

SetRules(rs, columns, table) ==
    LET compiled == RecompileAll(rs, columns)
    IN [rules |-> rs, compiled |-> compiled, match |-> EvaluateRows(compiled, columns, table)]

\* Without rules the row cache is left as it is.
RebindColumns(h, columns, table) ==
    IF h.rules = <<>> THEN [h EXCEPT !.compiled = <<>>] ELSE SetRules(h.rules, columns, table)

\* Without an active rule the cache only grows.
OnRowsAppended(h, columns, table, n) ==
    [h EXCEPT !.match = @ \o EvaluateRows(h.compiled, columns, SubSeq(table, Len(table) - n + 1, Len(table)))]

OnRowsEvictedIgnored(h, n) == h
OnRowsEvicted(h, n) == [h EXCEPT !.match = SubSeq(@, Min({n, Len(@)}) + 1, Len(@))]

ClearMatches(h) == [h EXCEPT !.match = <<>>]

-----------------------------------------------------------------------------
(* HighlightRulesEditor.                                                   *)

\* What the column box holds of a column: its first key, if it has any.
FirstKey(column) == IF column = <<>> THEN <<>> ELSE <<column[1]>>

\* The form holds the column's first key, or none, and writes it back.
GatherForm(e) ==
    IF e.current = 0 THEN e
    ELSE LET col == ResolveColumnByKeys(e.local[e.current].keys, e.cols)
         IN [e EXCEPT !.local[e.current].keys = IF col = 0 THEN <<>> ELSE FirstKey(e.cols[col])]

\* RebuildList: the selection stays within the list.
Selected(row, rs) == IF rs = <<>> THEN 0 ELSE Max({1, Min({row, Len(rs)})})
RebuildList(e, row) == [e EXCEPT !.current = Selected(IF row > 0 THEN row ELSE @, e.local)]
SetColumns(e, columns) == RebuildList([e EXCEPT !.cols = columns], e.current)
IsDirty(d) == d # NoDraft /\ d.local # d.baseline
DraftOf(e) == [local |-> e.local, baseline |-> e.baseline, current |-> e.current]
RestoreDraft(e, d) == RebuildList([e EXCEPT !.local = d.local, !.baseline = d.baseline], d.current)
Committed(rs) == [local |-> rs, baseline |-> rs, current |-> IF rs = <<>> THEN 0 ELSE 1]
ValidateRule(rule) == rule.keys # <<>> /\ rule.needle # ""

-----------------------------------------------------------------------------
(* MainWindow: binding the editor to tabs.  s is [editor, draft].          *)

CaptureHighlightRulesEditorDraft(s) ==
    LET e == GatherForm(s.editor)
    IN [editor |-> e, draft |-> [s.draft EXCEPT ![e.session] = DraftOf(e)]]

RestoreHighlightRulesEditorDraft(s, t) ==
    LET d == IF s.draft[t] # NoDraft THEN s.draft[t] ELSE Committed(config[t])
    IN [s EXCEPT !.editor = [RestoreDraft(SetColumns(@, cols[t]), d) EXCEPT !.session = t]]

RebindNoCapture(s, t) ==
    IF s.editor = NoEditor THEN s
    ELSE IF s.editor.session = t THEN [s EXCEPT !.editor = SetColumns(@, cols[t])]
    ELSE RestoreHighlightRulesEditorDraft(s, t)
\* RebindSharedDocks when another tab becomes active.
Rebind(s, t) ==
    IF s.editor = NoEditor THEN s
    ELSE IF s.editor.session = t THEN [s EXCEPT !.editor = SetColumns(@, cols[t])]
    ELSE RestoreHighlightRulesEditorDraft(CaptureHighlightRulesEditorDraft(s), t)

Bound(t) == editor # NoEditor /\ editor.session = t
Here == [editor |-> editor, draft |-> drafts]
\* What the user sees of a buffer: its rules, whatever their keys.
Seen(rs) == <<>> \o [i \in DOMAIN rs |-> [needle |-> rs[i].needle, enabled |-> rs[i].enabled]]
Nothing == <<>>
HasEdits(t) == ~blanked[t] /\ typed[t] # Nothing /\ typed[t] # <<Seen(config[t])>>

\* PrepareSessionClose: the buffer is captured first so that CloseDecision
\* sees it; a dirty draft asks, anything else may close or be kept.
PrepareUncaptured(t) == Here
Prepare(t) == IF Bound(t) THEN CaptureHighlightRulesEditorDraft(Here) ELSE Here
Asked(t) == IsDirty(Prepare(t).draft[t])
Ended(s, t) == [s EXCEPT !.draft[t] = NoDraft]

RuleStep == ruleSteps < MaxRuleSteps /\ ruleSteps' = ruleSteps + 1

-----------------------------------------------------------------------------
(* The table of a tab changes.                                             *)

\* LogModel::AppendBatch with its signals in order: rowsRemoved,
\* rowsInserted, columnsInserted and, for a column that turns out to hold
\* levels, columnsMoved, which only the active tab's window listens to.
Bubble(columns) == <<columns[Len(columns)]>> \o SubSeq(columns, 1, Len(columns) - 1)
AppendBatch(t, row, new, bubble) ==
    LET kept  == SubSeq(rows[t], IF Len(rows[t]) = MaxRuleRows THEN 2 ELSE 1, Len(rows[t]))
        table == Append(kept, row)
        wide  == cols[t] \o new
        moved == IF bubble THEN Bubble(wide) ELSE wide
        h1    == OnRowsEvicted(rules[t], Len(rows[t]) - Len(kept))
        h2    == OnRowsAppended(h1, wide, table, 1)
        h3    == IF new # <<>> THEN RebindColumns(h2, wide, table) ELSE h2
        h4    == IF bubble /\ t = active THEN RebindColumns(h3, moved, table) ELSE h3
    IN /\ RuleStep /\ t \in open
       /\ new # <<>> => new[1] \notin Range(cols[t])
       /\ bubble => Len(wide) > 1
       /\ rows' = [rows EXCEPT ![t] = table]
       /\ cols' = [cols EXCEPT ![t] = moved]
       /\ rules' = [rules EXCEPT ![t] = h4]
       /\ editor' = IF Bound(t) /\ t = active /\ new # <<>> THEN SetColumns(editor, wide) ELSE editor
       /\ missed' = [missed EXCEPT ![t] = (@ /\ new = <<>>) \/ (bubble /\ t # active)]
       /\ UNCHANGED <<open, active, config, drafts, typed, blanked, dropped>>

\* OnSourceColumnsMoved: the user drags a header of the active tab.
MoveColumn ==
    /\ RuleStep /\ Len(cols[active]) > 1
    /\ cols' = [cols EXCEPT ![active] = Bubble(@)]
    /\ rules' = [rules EXCEPT ![active] = RebindColumns(@, Bubble(cols[active]), rows[active])]
    /\ missed' = [missed EXCEPT ![active] = FALSE]
    /\ UNCHANGED <<open, active, rows, config, drafts, editor, typed, blanked, dropped>>

-----------------------------------------------------------------------------
(* Sessions begin and end.                                                 *)

\* History of an ending session t: typed is closed, and edits the user was
\* not asked about are recorded.
EndHistory(t) ==
    /\ typed' = [typed EXCEPT ![t] = Nothing]
    /\ dropped' = (dropped \/ (~Asked(t) /\ HasEdits(t)))

\* The prompt or a failed save keeps the session: the draft stays captured.
KeepSession(t) ==
    /\ RuleStep /\ t \in open
    /\ editor' = Prepare(t).editor /\ drafts' = Prepare(t).draft
    /\ UNCHANGED <<open, active, cols, rows, config, rules, typed, missed, blanked, dropped>>

\* A destructive open: LogModel::Reset keeps columns, rules and the buffer.
ReplaceSource ==
    LET s == Ended(Prepare(active), active)
    IN /\ RuleStep
       /\ editor' = s.editor /\ drafts' = s.draft
       /\ rows' = [rows EXCEPT ![active] = <<>>]
       /\ rules' = [rules EXCEPT ![active] = ClearMatches(@)]
       /\ EndHistory(active)
       /\ UNCHANGED <<open, active, cols, config, missed, blanked>>

\* New Session: the configuration is reset, the HighlightRuleSet and the
\* editor are not told.
NewSession ==
    LET s == Ended(Prepare(active), active)
    IN /\ RuleStep
       /\ editor' = s.editor /\ drafts' = s.draft
       /\ rows' = [rows EXCEPT ![active] = <<>>]
       /\ cols' = [cols EXCEPT ![active] = <<>>]
       /\ config' = [config EXCEPT ![active] = <<>>]
       /\ rules' = [rules EXCEPT ![active] = ClearMatches(@)]
       /\ blanked' = [blanked EXCEPT ![active] = TRUE]
       /\ EndHistory(active)
       /\ UNCHANGED <<open, active, missed>>

\* ApplyLoadedConfiguration on the active tab, or the configuration of a
\* bundle on the tab that opened it.  It asks nobody.
LoadConfigKeepsDraft(t, file) ==
    /\ RuleStep /\ t \in open
    /\ rows' = [rows EXCEPT ![t] = <<>>]
    /\ cols' = [cols EXCEPT ![t] = file.cols]
    /\ config' = [config EXCEPT ![t] = file.rules]
    /\ rules' = [rules EXCEPT ![t] = SetRules(file.rules, file.cols, <<>>)]
    /\ UNCHANGED <<editor, drafts>>
    /\ blanked' = [blanked EXCEPT ![t] = FALSE]
    /\ missed' = [missed EXCEPT ![t] = FALSE]
    /\ typed' = [typed EXCEPT ![t] = Nothing]
    /\ UNCHANGED <<open, active, dropped>>
LoadConfig(t, file) ==
    /\ RuleStep /\ t \in open
    /\ rows' = [rows EXCEPT ![t] = <<>>]
    /\ cols' = [cols EXCEPT ![t] = file.cols]
    /\ config' = [config EXCEPT ![t] = file.rules]
    /\ rules' = [rules EXCEPT ![t] = SetRules(file.rules, file.cols, <<>>)]
    /\ editor' = IF Bound(t)
                 THEN LET e == SetColumns(editor, file.cols)
                      IN RestoreDraft(e, Committed(file.rules))
                 ELSE editor
    /\ drafts' = [drafts EXCEPT ![t] = NoDraft]
    /\ blanked' = [blanked EXCEPT ![t] = FALSE]
    /\ missed' = [missed EXCEPT ![t] = FALSE]
    /\ typed' = [typed EXCEPT ![t] = Nothing]
    /\ UNCHANGED <<open, active, dropped>>

Activate(t) ==
    LET s == Rebind(Here, t)
    IN /\ RuleStep /\ t \in open \ {active}
       /\ active' = t /\ editor' = s.editor /\ drafts' = s.draft
       /\ UNCHANGED <<open, cols, rows, config, rules, typed, missed, blanked, dropped>>

\* A new tab starts from an empty configuration and becomes active.
AddTab(t) ==
    LET s == Rebind(Here, t)
    IN /\ RuleStep /\ t \notin open
       /\ open' = open \cup {t} /\ active' = t
       /\ editor' = s.editor /\ drafts' = s.draft
       /\ UNCHANGED <<cols, rows, config, rules, typed, missed, blanked, dropped>>

\* CloseHostedTab: closing the active tab shows another one, and saving from the
\* prompt shows the closing tab first.  The state of a closed tab is gone.
CloseHostedTab(t, next, saving) ==
    LET p     == Prepare(t)
        shown == IF saving THEN Rebind(p, t) ELSE p
        s     == Rebind(Ended(shown, t), next)
    IN /\ RuleStep /\ t \in open /\ next \in open \ {t}
       /\ saving => Asked(t)
       /\ t # active => next = active \/ saving
       /\ open' = open \ {t} /\ active' = next
       /\ editor' = s.editor /\ drafts' = [s.draft EXCEPT ![t] = NoDraft]
       /\ cols' = [cols EXCEPT ![t] = <<>>] /\ rows' = [rows EXCEPT ![t] = <<>>]
       /\ config' = [config EXCEPT ![t] = <<>>]
       /\ rules' = [rules EXCEPT ![t] = SetRules(<<>>, <<>>, <<>>)]
       /\ missed' = [missed EXCEPT ![t] = FALSE] /\ blanked' = [blanked EXCEPT ![t] = FALSE]
       /\ EndHistory(t)

-----------------------------------------------------------------------------
(* The user works in the editor.                                           *)

\* OpenHighlightRulesEditor: an open editor is restored again, too.
OpenEditor ==
    LET new == [session |-> active, shown |-> TRUE, local |-> config[active],
                baseline |-> config[active], current |-> Selected(1, config[active]), cols |-> cols[active]]
        e   == IF editor = NoEditor THEN new ELSE editor
        s   == RestoreHighlightRulesEditorDraft([Here EXCEPT !.editor = e], active)
    IN /\ RuleStep
       /\ editor' = [s.editor EXCEPT !.shown = TRUE] /\ drafts' = s.draft
       /\ typed' = [typed EXCEPT ![active] = IF @ = Nothing THEN @ ELSE <<Seen(s.editor.local)>>]
       /\ UNCHANGED <<open, active, cols, rows, config, rules, missed, blanked, dropped>>

Showing == editor # NoEditor /\ editor.shown
\* Every edit of the user ends in a buffer e and is seen at once.
Edited(e) ==
    /\ RuleStep
    /\ editor' = e
    /\ typed' = [typed EXCEPT ![e.session] = <<Seen(e.local)>>]
    /\ UNCHANGED <<open, active, cols, rows, config, rules, drafts, missed, blanked, dropped>>

NewRule == [keys |-> IF editor.cols = <<>> THEN <<>> ELSE FirstKey(editor.cols[1]),
            needle |-> "", enabled |-> TRUE]
OnNewClicked ==
    /\ Showing /\ Len(editor.local) < MaxRules
    /\ Edited(RebuildList([editor EXCEPT !.local = Append(@, NewRule)], Len(editor.local) + 1))
OnDuplicateClicked ==
    /\ Showing /\ editor.current > 0 /\ Len(editor.local) < MaxRules
    /\ Edited(RebuildList([editor EXCEPT !.local = InsertAt(@, editor.current + 1, editor.local[editor.current])],
                          editor.current + 1))
OnDeleteClicked ==
    /\ Showing /\ editor.current > 0
    /\ Edited(RebuildList([editor EXCEPT !.local = RemoveAt(@, editor.current)], editor.current))
\* OnMoveUpClicked and OnMoveDownClicked.
OnMoveClicked(to) ==
    LET i == editor.current
    IN /\ Showing /\ i > 0 /\ to \in {i - 1, i + 1} \cap DOMAIN editor.local
       /\ Edited(RebuildList([editor EXCEPT !.local[i] = editor.local[to], !.local[to] = editor.local[i]], to))
OnSelectionChanged(row) ==
    /\ Showing /\ row \in DOMAIN editor.local
    /\ RuleStep /\ editor' = [editor EXCEPT !.current = row]
    /\ UNCHANGED <<open, active, cols, rows, config, rules, drafts, typed, missed, blanked, dropped>>
\* OnFieldEdited and OnTypeChanged gather the whole form.
OnFieldEdited(needle, enabled) ==
    /\ Showing /\ editor.current > 0
    /\ LET e == [editor EXCEPT !.local[editor.current] = [@ EXCEPT !.needle = needle, !.enabled = enabled]]
       IN Edited(GatherForm(e))
OnColumnChanged(i) ==
    /\ Showing /\ editor.current > 0 /\ i \in 0 .. Len(editor.cols)
    /\ Edited([editor EXCEPT !.local[editor.current].keys =
                   IF i = 0 THEN <<>> ELSE FirstKey(editor.cols[i])])

\* OnSaveClicked and the rulesSaved slot.
SavedToActiveConfigOnly(e) == [rules EXCEPT ![e.session] = @]
SavedRules(e) == [rules EXCEPT ![e.session] = SetRules(e.local, cols[e.session], rows[e.session])]
OnSaveClicked ==
    LET e == [editor EXCEPT !.baseline = editor.local]
        s == CaptureHighlightRulesEditorDraft([Here EXCEPT !.editor = e])
    IN /\ RuleStep /\ Showing /\ editor.local # editor.baseline
       /\ \A i \in DOMAIN editor.local : ValidateRule(editor.local[i])
       /\ config' = [config EXCEPT ![e.session] = e.local]
       /\ rules' = SavedRules(e)
       /\ missed' = [missed EXCEPT ![e.session] = FALSE]
       /\ blanked' = [blanked EXCEPT ![e.session] = FALSE]
       /\ editor' = s.editor /\ drafts' = s.draft
       /\ typed' = [typed EXCEPT ![e.session] = <<Seen(e.local)>>]
       /\ UNCHANGED <<open, active, cols, rows, dropped>>
OnRevertClicked ==
    /\ Showing /\ editor.local # editor.baseline
    /\ Edited(RebuildList([editor EXCEPT !.local = editor.baseline], editor.current))

\* closeEvent: dirty edits are dropped after the user agreed.
CloseEditor ==
    LET e == GatherForm(editor)
        d == e.local # e.baseline
    IN /\ RuleStep /\ Showing
       /\ editor' = IF d THEN [RebuildList([e EXCEPT !.local = e.baseline], e.current) EXCEPT !.shown = FALSE]
                    ELSE [e EXCEPT !.shown = FALSE]
       /\ drafts' = IF d THEN [drafts EXCEPT ![e.session] = NoDraft] ELSE drafts
       /\ typed' = [typed EXCEPT ![e.session] = IF d THEN <<Seen(e.baseline)>> ELSE @]
       /\ UNCHANGED <<open, active, cols, rows, config, rules, missed, blanked, dropped>>

-----------------------------------------------------------------------------
RuleInit ==
    /\ open \in {S \in SUBSET RuleTabs : Cardinality(S) = 1} /\ active \in open
    /\ cols = [t \in RuleTabs |-> <<>>] /\ rows = [t \in RuleTabs |-> <<>>]
    /\ config = [t \in RuleTabs |-> <<>>]
    /\ rules = [t \in RuleTabs |-> SetRules(<<>>, <<>>, <<>>)]
    /\ drafts = [t \in RuleTabs |-> NoDraft]
    /\ editor = NoEditor
    /\ typed = [t \in RuleTabs |-> Nothing]
    /\ missed = [t \in RuleTabs |-> FALSE] /\ blanked = [t \in RuleTabs |-> FALSE]
    /\ dropped = FALSE
    /\ ruleSteps = 0

TableStep ==
    \/ \E t \in open, row \in LogRows, new \in {<<>>} \cup {<<c>> : c \in NewColumns}, b \in BOOLEAN :
           AppendBatch(t, row, new, b)
    \/ MoveColumn
SessionStep ==
    \/ \E t \in open : KeepSession(t)
    \/ ReplaceSource
    \/ NewSession
    \/ \E t \in open, f \in RuleFiles : LoadConfig(t, f)
    \/ \E t \in RuleTabs : Activate(t)
    \/ \E t \in RuleTabs : AddTab(t)
    \/ \E t, next \in open, saving \in BOOLEAN : CloseHostedTab(t, next, saving)
EditorStep ==
    \/ OpenEditor
    \/ OnNewClicked
    \/ OnDuplicateClicked
    \/ OnDeleteClicked
    \/ \E to \in 1 .. MaxRules : OnMoveClicked(to)
    \/ \E row \in 1 .. MaxRules : OnSelectionChanged(row)
    \/ \E needle \in RuleNeedles, enabled \in BOOLEAN : OnFieldEdited(needle, enabled)
    \/ \E i \in 0 .. Cardinality(NewColumns) : OnColumnChanged(i)
    \/ OnSaveClicked
    \/ OnRevertClicked
    \/ CloseEditor

RuleNext == TableStep \/ SessionStep \/ EditorStep
RuleSpec == RuleInit /\ [][RuleNext]_ruleVars

-----------------------------------------------------------------------------
(* Properties.                                                             *)

\* log_session.cpp keeps the row cache in step with appends, evictions,
\* resets and new columns: every row is painted by the last of its tab's
\* rules that matches it, unless a column of the tab moved while it was in
\* the background (main_window.cpp:2827 listens to the active tab only).
HighlightsMatchRows ==
    \A t \in open : ~missed[t] =>
        rules[t].match = EvaluateRows(RecompileAll(rules[t].rules, cols[t]), cols[t], rows[t])

\* The rules a tab paints with are those its configuration saves, until New
\* Session empties the configuration.
PaintedRulesAreSaved ==
    \A t \in open : ~blanked[t] => rules[t].rules = config[t]

\* main_window.cpp:1927: unsaved edits of one tab survive any number of
\* switches and never appear in the editor of another.
DraftsSurviveSwitching ==
    editor # NoEditor /\ typed[editor.session] # Nothing =>
        typed[editor.session] = <<Seen(editor.local)>>

\* highlight_rules_editor.cpp:550: after a configuration is loaded Save can
\* not write a stale buffer over it: what the editor and every draft count
\* as saved is what the configuration of their tab holds.
BaselineIsCommitted ==
    /\ editor # NoEditor /\ ~blanked[editor.session] => editor.baseline = config[editor.session]
    /\ \A t \in open : drafts[t] # NoDraft /\ ~blanked[t] => drafts[t].baseline = config[t]

\* main_window.cpp:9025: a close, New Session or destructive open never goes
\* ahead without asking while the editor or a draft holds edits.
EditsAskedAbout == ~dropped

\* Rows are painted by the rules that are saved, and edits that are not saved
\* yet stay with their tab until the user has been asked about them.
RulesPaintedAndKept ==
    /\ HighlightsMatchRows /\ PaintedRulesAreSaved
    /\ DraftsSurviveSwitching /\ BaselineIsCommitted /\ EditsAskedAbout

\* main_window.cpp:3721 has New Session "tear down all loaded state": a row is
\* painted by a rule only in a session whose configuration has rules.
BlankSessionPaintsNothing ==
    \A t \in open : config[t] = <<>> => \A i \in DOMAIN rules[t].match : rules[t].match[i] = 0
=============================================================================
