------------------------ MODULE HighlightRulesProofs ------------------------
(***************************************************************************)
(* Proofs about the highlight rules: rows are painted by the rules that    *)
(* are saved, and edits stay with their tab (RulesPaintedAndKept).         *)
(***************************************************************************)
EXTENDS HighlightRules, SequenceTheorems, FiniteSetTheorems, TLAPS

-----------------------------------------------------------------------------
(* The inductive invariant.                                                *)

Predicates == {Inert} \cup [col : Nat \ {0}, needle : RuleNeedles]
RuleSet == [rules : Seq(HighlightRule), compiled : Seq(Predicates), match : Seq(Nat)]
(* The editor is on a rule of its list, and bound to the tab that shows.   *)
IsBuffer(e) == e \in EditorBuffer /\ e.current <= Len(e.local)

TablesTyped ==
    /\ open \subseteq RuleTabs /\ active \in open
    /\ cols \in [RuleTabs -> Seq(Columns)] /\ rows \in [RuleTabs -> Seq(LogRows)]
    /\ config \in [RuleTabs -> Seq(HighlightRule)] /\ rules \in [RuleTabs -> RuleSet]
    /\ missed \in [RuleTabs -> BOOLEAN] /\ blanked \in [RuleTabs -> BOOLEAN]
(* What was compiled paints any row as the rules compiled now would.  It   *)
(* need not be the same: New Session empties the columns and compiles      *)
(* nothing.                                                                *)
PaintsAlike(h, columns) ==
    \A row \in LogRows :
        EvaluateRow(h.compiled, columns, row) = EvaluateRow(RecompileAll(h.rules, columns), columns, row)
Painted(h, columns, table) == h.match = EvaluateRows(RecompileAll(h.rules, columns), columns, table)

(* A tab without rules is right whatever its columns did: RebindColumns    *)
(* leaves its rows alone.                                                  *)
RowsPainted ==
    \A t \in RuleTabs :
        /\ rules[t].rules = <<>> => rules[t].compiled = <<>>
        /\ rules[t].rules = <<>> \/ ~missed[t] =>
               PaintsAlike(rules[t], cols[t]) /\ Painted(rules[t], cols[t], rows[t])

RulesSaved == \A t \in RuleTabs : ~blanked[t] => rules[t].rules = config[t]

(* What the user typed for a tab is in the editor or in the tab's draft,   *)
(* and what either counts as saved is what the tab's configuration holds.  *)
(* s is [editor, draft]; ty, cf and bl are typed, config and blanked.      *)
Held(s, t) == s.editor # NoEditor /\ s.editor.session = t
EditsSafe(s, ty, cf, bl) ==
    /\ s = [editor |-> s.editor, draft |-> s.draft]
    /\ s.draft \in [RuleTabs -> EditorDraft \cup {NoDraft}]
    /\ s.editor # NoEditor => IsBuffer(s.editor)
    /\ \A t \in RuleTabs : ~bl[t] =>
          /\ Held(s, t) => s.editor.baseline = cf[t]
          /\ s.draft[t] # NoDraft => s.draft[t].baseline = cf[t]
    /\ \A t \in RuleTabs : ty[t] # Nothing =>
          IF Held(s, t) THEN ty[t] = <<Seen(s.editor.local)>>
          ELSE s.draft[t] # NoDraft /\ ty[t] = <<Seen(s.draft[t].local)>>

Tables == TablesTyped /\ RowsPainted /\ RulesSaved
Edits ==
    /\ DOMAIN typed = RuleTabs /\ EditsSafe(Here, typed, config, blanked)
    /\ editor # NoEditor => editor.session = active
    /\ EditsAskedAbout
RuleInv == Tables /\ Edits

-----------------------------------------------------------------------------
(* Compiling and evaluating rules.                                         *)

(* A set of numbers that is not empty has a least one: the ground the      *)
(* column and rule indices stand on, as Min and Max choose one.            *)
LEMMA LeastNat ==
    ASSUME NEW T \in SUBSET Nat, T # {}
    PROVE  \E m \in T : \A k \in T : m <= k
<1> DEFINE R == OpToRel(<, Nat)
<1>1. IsWellFoundedOn(R, Nat)
  BY NatLessThanWellFounded
<1>2. PICK m \in T : \A k \in T : ~ (<<k, m>> \in R)
  BY <1>1, WFMin, Zenon
<1>3. \A k, n \in Nat : k < n => <<k, n>> \in R
  BY DEF OpToRel
<1> HIDE DEF R
<1>4. \A k \in T : ~ (k < m) /\ k \in Nat /\ m \in Nat
  BY <1>2, <1>3
<1> QED BY <1>4

(* Min picks the least number of a set.                                    *)
LEMMA MinNat ==
    ASSUME NEW T \in SUBSET Nat, T # {}
    PROVE  Min(T) \in T /\ \A k \in T : Min(T) <= k
<1>1. PICK m \in T : \A k \in T : m <= k
  BY LeastNat
<1> QED BY <1>1, Zenon DEF Min

(* Max picks the largest number of a bounded set: EvaluateRow's last       *)
(* matching rule exists.                                                   *)
LEMMA MaxNat ==
    ASSUME NEW n \in Nat, NEW T \in SUBSET (0 .. n), T # {}
    PROVE  Max(T) \in T /\ \A k \in T : k <= Max(T)
<1> DEFINE U == {u \in 0 .. n : n - u \in T}
<1>1. U \in SUBSET Nat
  OBVIOUS
<1>2. U # {}
  <2>1. PICK k \in T : TRUE
    OBVIOUS
  <2>2. n - k \in U
    BY <2>1
  <2> QED BY <2>2
<1> HIDE DEF U
<1>3. PICK u \in U : \A v \in U : u <= v
  BY <1>1, <1>2, LeastNat
<1>4. ASSUME NEW k \in T
      PROVE  n - u >= k
  <2>1. n - k \in U /\ k \in Nat
    BY DEF U
  <2>2. u <= n - k /\ u \in Nat
    BY <1>3, <1>1, <2>1
  <2> QED BY <2>1, <2>2
<1>5. n - u \in T
  BY <1>3 DEF U
<1>6. Max(T) \in T /\ \A k \in T : Max(T) >= k
  BY <1>4, <1>5, Zenon DEF Max
<1> QED BY <1>6

(* A sequence written element by element, as RecompileAll and EvaluateRows *)
(* return one.                                                             *)
LEMMA ForEach ==
    ASSUME NEW S, NEW n \in Nat, NEW f \in [1 .. n -> S]
    PROVE  <<>> \o f = f /\ f \in Seq(S) /\ Len(f) = n /\ DOMAIN f = 1 .. n
BY SMT

(* ResolveColumnByKeys returns a column of the table, or 0.                *)
LEMMA ColumnResolved ==
    ASSUME NEW columns \in Seq(Columns), NEW keys
    PROVE  ResolveColumnByKeys(keys, columns) \in 0 .. Len(columns)
<1> DEFINE hits == {i \in DOMAIN columns : Range(keys) \subseteq Range(columns[i])}
<1>1. hits \in SUBSET (1 .. Len(columns)) /\ hits \in SUBSET Nat
  OBVIOUS
<1>2. CASE keys = <<>> \/ hits = {}
  BY <1>2 DEF ResolveColumnByKeys
<1>3. CASE keys # <<>> /\ hits # {}
  <2>1. ResolveColumnByKeys(keys, columns) = Min(hits)
    BY <1>3 DEF ResolveColumnByKeys
  <2> HIDE DEF hits
  <2>2. Min(hits) \in hits
    BY <1>1, <1>3, MinNat
  <2>3. Min(hits) \in 1 .. Len(columns)
    BY <1>1, <2>2
  <2> QED BY <2>1, <2>3
<1> QED BY <1>2, <1>3

(* RecompileAll compiles one predicate for every rule.                     *)
LEMMA Compiled ==
    ASSUME NEW rs \in Seq(HighlightRule), NEW columns \in Seq(Columns)
    PROVE  /\ RecompileAll(rs, columns) \in Seq(Predicates) /\ Len(RecompileAll(rs, columns)) = Len(rs)
           /\ RecompileAll(rs, columns) = [i \in 1 .. Len(rs) |-> CompileRule(rs[i], columns)]
<1>1. ASSUME NEW i \in 1 .. Len(rs)
      PROVE  CompileRule(rs[i], columns) \in Predicates
  <2>1. rs[i] \in HighlightRule
    OBVIOUS
  <2>2. ResolveColumnByKeys(rs[i].keys, columns) \in 0 .. Len(columns)
    BY ColumnResolved
  <2> DEFINE col == ResolveColumnByKeys(rs[i].keys, columns)
  <2>3. col \in Nat /\ rs[i].needle \in RuleNeedles
    BY <2>1, <2>2 DEF HighlightRule
  <2>4. \/ CompileRule(rs[i], columns) = Inert
        \/ /\ col > 0
           /\ CompileRule(rs[i], columns) = [col |-> col, needle |-> rs[i].needle]
    BY DEF CompileRule
  <2> HIDE DEF col
  <2> QED BY <2>3, <2>4 DEF Predicates
<1> DEFINE f == [i \in 1 .. Len(rs) |-> CompileRule(rs[i], columns)]
<1>2. f \in [1 .. Len(rs) -> Predicates]
  BY <1>1
<1>3. RecompileAll(rs, columns) = <<>> \o f
  BY DEF RecompileAll
<1> HIDE DEF f
<1>4. <<>> \o f = f /\ f \in Seq(Predicates) /\ Len(f) = Len(rs)
  BY <1>2, ForEach
<1> QED BY <1>3, <1>4 DEF f

(* EvaluateRows returns one rule index for every row.                      *)
LEMMA Evaluated ==
    ASSUME NEW ps \in Seq(Predicates), NEW columns, NEW rs \in Seq(LogRows)
    PROVE  /\ EvaluateRows(ps, columns, rs) \in Seq(Nat) /\ Len(EvaluateRows(ps, columns, rs)) = Len(rs)
           /\ EvaluateRows(ps, columns, rs) = [i \in 1 .. Len(rs) |-> EvaluateRow(ps, columns, rs[i])]
<1>1. ASSUME NEW row
      PROVE  EvaluateRow(ps, columns, row) \in Nat
  <2> DEFINE T == {0} \cup {i \in DOMAIN ps : MatchesRow(ps[i], columns, row)}
  <2>1. T \in SUBSET (0 .. Len(ps)) /\ T # {} /\ Len(ps) \in Nat
    OBVIOUS
  <2>2. EvaluateRow(ps, columns, row) = Max(T)
    BY DEF EvaluateRow
  <2> HIDE DEF T
  <2>3. Max(T) \in T
    BY <2>1, MaxNat
  <2>4. T \in SUBSET Nat
    BY <2>1
  <2> QED BY <2>2, <2>3, <2>4
<1> DEFINE f == [i \in 1 .. Len(rs) |-> EvaluateRow(ps, columns, rs[i])]
<1>2. f \in [1 .. Len(rs) -> Nat]
  BY <1>1
<1>3. EvaluateRows(ps, columns, rs) = <<>> \o f
  BY DEF EvaluateRows
<1> HIDE DEF f
<1>4. <<>> \o f = f /\ f \in Seq(Nat) /\ Len(f) = Len(rs)
  BY <1>2, ForEach
<1> QED BY <1>3, <1>4 DEF f

(* Without predicates no rule matches.                                     *)
LEMMA NothingMatches ==
    ASSUME NEW columns, NEW row
    PROVE  EvaluateRow(<<>>, columns, row) = Max({0})
<1>1. {i \in DOMAIN <<>> : MatchesRow(<<>>[i], columns, row)} = {}
  OBVIOUS
<1> QED BY <1>1 DEF EvaluateRow

(* Without columns no predicate matches: what New Session leaves compiled  *)
(* paints nothing.                                                         *)
LEMMA NoColumns ==
    ASSUME NEW ps \in Seq(Predicates), NEW row
    PROVE  EvaluateRow(ps, <<>>, row) = Max({0})
<1>1. ASSUME NEW i \in DOMAIN ps
      PROVE  ~MatchesRow(ps[i], <<>>, row)
  <2>1. ps[i] \in Predicates
    OBVIOUS
  <2> HIDE DEF Inert
  <2> QED BY <2>1 DEF MatchesRow, Predicates
<1>2. {i \in DOMAIN ps : MatchesRow(ps[i], <<>>, row)} = {}
  BY <1>1
<1> QED BY <1>2 DEF EvaluateRow

(* Without rules nothing is compiled.                                      *)
LEMMA RecompiledNone == ASSUME NEW columns PROVE RecompileAll(<<>>, columns) = <<>>
<1>1. [i \in DOMAIN <<>> |-> CompileRule(<<>>[i], columns)] = <<>>
  OBVIOUS
<1> QED BY <1>1 DEF RecompileAll

(* HighlightRuleSet::SetRules compiles and evaluates everything again: the *)
(* cache is right for the table it was given.                              *)
LEMMA SetRulesRight ==
    ASSUME NEW rs \in Seq(HighlightRule), NEW columns \in Seq(Columns), NEW table \in Seq(LogRows)
    PROVE  /\ SetRules(rs, columns, table) \in RuleSet /\ SetRules(rs, columns, table).rules = rs
           /\ rs = <<>> => SetRules(rs, columns, table).compiled = <<>>
           /\ PaintsAlike(SetRules(rs, columns, table), columns)
           /\ Painted(SetRules(rs, columns, table), columns, table)
<1>1. RecompileAll(rs, columns) \in Seq(Predicates)
  BY Compiled
<1>2. EvaluateRows(RecompileAll(rs, columns), columns, table) \in Seq(Nat)
  BY <1>1, Evaluated
<1> QED BY <1>1, <1>2, RecompiledNone DEF SetRules, RuleSet, PaintsAlike, Painted

-----------------------------------------------------------------------------
(* The row cache follows the table.                                        *)

Right(h, columns, table) == PaintsAlike(h, columns) /\ Painted(h, columns, table)
Same(h, g) == g \in RuleSet /\ g.rules = h.rules /\ (h.rules = <<>> => g.compiled = <<>>)

(* Without rules the columns do not matter, which is why RebindColumns may *)
(* leave the row cache as it is.                                           *)
LEMMA RightWithoutRules ==
    ASSUME NEW h \in RuleSet, h.rules = <<>>, h.compiled = <<>>, NEW from, NEW columns \in Seq(Columns),
           NEW table \in Seq(LogRows), Painted(h, from, table)
    PROVE  Right(h, columns, table)
<1>1. EvaluateRows(<<>>, from, table) = EvaluateRows(<<>>, columns, table)
  BY NothingMatches DEF EvaluateRows
<1> QED BY <1>1, RecompiledNone DEF Right, PaintsAlike, Painted

(* HighlightRuleSet::RebindColumns keeps the rules and leaves a cache that *)
(* is right for the new columns.                                           *)
LEMMA Rebound ==
    ASSUME NEW h \in RuleSet, NEW from, NEW columns \in Seq(Columns), NEW table \in Seq(LogRows),
           h.rules = <<>> => Painted(h, from, table)
    PROVE  /\ Same(h, RebindColumns(h, columns, table))
           /\ Right(RebindColumns(h, columns, table), columns, table)
<1>1. CASE h.rules = <<>>
  <2> DEFINE g == [h EXCEPT !.compiled = <<>>]
  <2>0. <<>> \in Seq(Predicates)
    BY EmptySeq
  <2>1. RebindColumns(h, columns, table) = g /\ g \in RuleSet /\ g.rules = <<>> /\ g.compiled = <<>> /\ g.match = h.match
    <3>1. RebindColumns(h, columns, table) = g
      BY <1>1 DEF RebindColumns
    <3>2. g.rules = <<>> /\ g.compiled = <<>> /\ g.match = h.match
      BY <1>1 DEF RuleSet
    <3>3. g \in RuleSet
      BY <2>0 DEF RuleSet
    <3> QED BY <3>1, <3>2, <3>3
  <2>2. Painted(g, from, table)
    BY <1>1, <2>1 DEF Painted
  <2> HIDE DEF g
  <2> QED BY <1>1, <2>1, <2>2, RightWithoutRules DEF Same
<1>2. CASE h.rules # <<>>
  <2>1. h.rules \in Seq(HighlightRule)
    BY DEF RuleSet
  <2>2. RebindColumns(h, columns, table) = SetRules(h.rules, columns, table)
    BY <1>2 DEF RebindColumns
  <2> QED BY <2>1, <2>2, SetRulesRight DEF Same, Right
<1> QED BY <1>1, <1>2

(* One row in, at most k out.                                              *)
OneMore(h, g, columns, row, k) ==
    /\ g \in RuleSet /\ g.rules = h.rules /\ g.compiled = h.compiled
    /\ k <= Len(h.match) =>
          g.match = SubSeq(h.match, k + 1, Len(h.match)) \o <<EvaluateRow(h.compiled, columns, row)>>
    /\ EvaluateRow(h.compiled, columns, row) \in Nat

(* OnRowsEvicted of k rows and OnRowsAppended of one: the cache loses its  *)
(* first k entries and gains that of the row.                              *)
LEMMA BatchTyped ==
    ASSUME NEW h \in RuleSet, NEW columns \in Seq(Columns), NEW kept \in Seq(LogRows), NEW row \in LogRows, NEW k \in Nat,
           NEW table, table = Append(kept, row), NEW g, g = OnRowsAppended(OnRowsEvicted(h, k), columns, table, 1)
    PROVE  OneMore(h, g, columns, row, k)
<1>0. PICK n : n = Min({k, Len(h.match)})
  OBVIOUS
<1> DEFINE old == SubSeq(h.match, n + 1, Len(h.match))
           e == OnRowsEvicted(h, k)
<1>1. h.match \in Seq(Nat) /\ h.compiled \in Seq(Predicates) /\ h.rules \in Seq(HighlightRule)
  BY DEF RuleSet
<1>2. n \in {k, Len(h.match)} /\ n <= k /\ n <= Len(h.match)
  <2>1. {k, Len(h.match)} \in SUBSET Nat
    BY <1>1
  <2> QED BY <1>0, <2>1, MinNat
<1>3. e = [h EXCEPT !.match = old]
  BY <1>0 DEF OnRowsEvicted, RuleSet
<1>4. old \in Seq(Nat)
  <2> DEFINE match == h.match
             i == n + 1
             j == Len(match)
  <2>1. i \in 1 .. Len(match) + 1 /\ j \in i - 1 .. Len(match) /\ match \in Seq(Nat)
    BY <1>1, <1>2
  <2> HIDE DEF match, i, j
  <2>2. SubSeq(match, i, j) \in Seq(Nat)
    BY <2>1, SubSeqProperties
  <2> QED BY <2>2 DEF match, i, j
<1>5. SubSeq(table, Len(table) - 1 + 1, Len(table)) = <<row>>
  <2>1. table \in Seq(LogRows) /\ Len(table) \in Nat \ {0} /\ table[Len(table)] = row
    BY AppendProperties
  <2> DEFINE m == Len(table)
  <2>2. m - 1 + 1 = m /\ m \in 1 .. Len(table)
    BY <2>1
  <2> HIDE DEF m
  <2>3. SubSeq(table, m, m) = <<table[m]>>
    <3>1. SubSeq(table, m, m) \in Seq(LogRows) /\ Len(SubSeq(table, m, m)) = 1 /\ SubSeq(table, m, m)[1] = table[m]
      BY <2>1, <2>2
    <3>2. <<table[m]>> \in Seq(LogRows) /\ Len(<<table[m]>>) = 1 /\ <<table[m]>>[1] = table[m]
      BY <2>1, <2>2
    <3> DEFINE one == SubSeq(table, m, m)
               two == <<table[m]>>
    <3>3. \A i \in 1 .. Len(one) : i = 1
      BY <3>1
    <3> HIDE DEF one, two
    <3>4. Len(one) = Len(two) /\ \A i \in 1 .. Len(one) : one[i] = two[i]
      BY <3>1, <3>2, <3>3 DEF one, two
    <3>5. one \in Seq(LogRows) /\ two \in Seq(LogRows)
      BY <3>1, <3>2 DEF one, two
    <3>6. one = two
      BY <3>4, <3>5, SeqEqual
    <3> QED BY <3>6 DEF one, two
  <2> QED BY <2>1, <2>2, <2>3 DEF m
<1>6. EvaluateRows(h.compiled, columns, <<row>>) = <<EvaluateRow(h.compiled, columns, row)>>
      /\ EvaluateRow(h.compiled, columns, row) \in Nat
  <2>1. <<row>> \in Seq(LogRows) /\ Len(<<row>>) = 1 /\ <<row>>[1] = row
    OBVIOUS
  <2> DEFINE one == EvaluateRows(h.compiled, columns, <<row>>)
  <2>2. one \in Seq(Nat) /\ Len(one) = 1 /\ one = [i \in 1 .. 1 |-> EvaluateRow(h.compiled, columns, <<row>>[i])]
    BY <1>1, <2>1, Evaluated
  <2>3. one[1] = EvaluateRow(h.compiled, columns, row) /\ one[1] \in Nat
    BY <2>1, <2>2
  <2> HIDE DEF one
  <2>4. one = <<one[1]>>
    BY <2>2
  <2> QED BY <2>3, <2>4 DEF one
<1> HIDE DEF old
<1>7. e.match = old /\ e.compiled = h.compiled /\ e.rules = h.rules /\ e \in RuleSet
  BY <1>3, <1>4 DEF RuleSet
<1> HIDE DEF e
<1>8. OnRowsAppended(e, columns, table, 1) = [e EXCEPT !.match = old \o <<EvaluateRow(h.compiled, columns, row)>>]
  BY <1>5, <1>6, <1>7 DEF OnRowsAppended, RuleSet
<1>9. old \o <<EvaluateRow(h.compiled, columns, row)>> \in Seq(Nat)
  BY <1>4, <1>6
<1>10. k <= Len(h.match) => n = k
  BY <1>1, <1>2
<1> QED BY <1>4, <1>6, <1>7, <1>8, <1>9, <1>10 DEF OneMore, e, old, RuleSet

(* The table after one row was appended to it.                             *)
LEMMA Appended ==
    ASSUME NEW S, NEW kept \in Seq(S), NEW row \in S, NEW table, table = Append(kept, row)
    PROVE  /\ table \in Seq(S) /\ Len(kept) \in Nat /\ Len(table) = Len(kept) + 1
           /\ \A i \in 1 .. Len(kept) : table[i] = kept[i]
           /\ table[Len(kept) + 1] = row
           /\ \A i \in 1 .. Len(table) : i \in 1 .. Len(kept) \/ i = Len(kept) + 1
BY AppendProperties

(* Evicting and appending keep a right cache right, if the rows that went  *)
(* are those the table lost.                                               *)
LEMMA BatchPainted ==
    ASSUME NEW h \in RuleSet, NEW columns \in Seq(Columns), NEW rs \in Seq(LogRows), NEW row \in LogRows,
           NEW k \in Nat, k <= Len(rs), Right(h, columns, rs),
           NEW kept \in Seq(LogRows), Len(kept) = Len(rs) - k, \A i \in 1 .. Len(kept) : kept[i] = rs[i + k],
           NEW table, table = Append(kept, row),
           NEW g, g = OnRowsAppended(OnRowsEvicted(h, k), columns, table, 1)
    PROVE  Right(g, columns, table)
<1> DEFINE ps == RecompileAll(h.rules, columns)
           v(r) == EvaluateRow(ps, columns, r)
           match == h.match
<1> HIDE DEF v, match
<1>1. /\ table \in Seq(LogRows) /\ Len(kept) \in Nat /\ Len(table) = Len(kept) + 1
      /\ \A i \in 1 .. Len(kept) : table[i] = kept[i]
      /\ table[Len(kept) + 1] = row
      /\ \A i \in 1 .. Len(table) : i \in 1 .. Len(kept) \/ i = Len(kept) + 1
  <2>1. PICK full : full = Append(kept, row)
    OBVIOUS
  <2>2. /\ full \in Seq(LogRows) /\ Len(full) = Len(kept) + 1
        /\ \A i \in 1 .. Len(kept) : full[i] = kept[i]
        /\ full[Len(kept) + 1] = row
    BY <2>1, AppendProperties
  <2>3. Len(kept) \in Nat /\ table = full
    BY <2>1
  <2>4. \A i \in 1 .. Len(full) : i \in 1 .. Len(kept) \/ i = Len(kept) + 1
    BY <2>2, <2>3
  <2> QED BY <2>2, <2>3, <2>4
<1>2. ps \in Seq(Predicates) /\ match \in Seq(Nat)
  BY Compiled DEF RuleSet, match
<1>3. match = [i \in 1 .. Len(rs) |-> v(rs[i])] /\ Len(match) = Len(rs)
  <2>1. match = EvaluateRows(ps, columns, rs)
    BY DEF Right, Painted, match
  <2> QED BY <1>2, <2>1, Evaluated DEF v
<1>4. EvaluateRows(ps, columns, table) = [i \in 1 .. Len(table) |-> v(table[i])]
      /\ EvaluateRows(ps, columns, table) \in Seq(Nat) /\ Len(EvaluateRows(ps, columns, table)) = Len(table)
  BY <1>1, <1>2, Evaluated DEF v
<1>5. k <= Len(h.match)
  BY <1>2, <1>3 DEF match
<1>6. /\ g \in RuleSet /\ g.rules = h.rules /\ g.compiled = h.compiled
      /\ g.match = SubSeq(h.match, k + 1, Len(h.match)) \o <<EvaluateRow(h.compiled, columns, row)>>
      /\ EvaluateRow(h.compiled, columns, row) \in Nat
  <2>1. OneMore(h, g, columns, row, k)
    BY BatchTyped
  <2> QED BY <1>5, <2>1 DEF OneMore
<1>7. EvaluateRow(h.compiled, columns, row) = v(row)
  BY DEF Right, PaintsAlike, v
<1>8. Len(match) \in Nat /\ Len(rs) \in Nat
  BY <1>2, <1>3, <1>6 DEF match
<1> DEFINE old == SubSeq(match, k + 1, Len(match))
<1>9. old \in Seq(Nat) /\ Len(old) = Len(kept) /\ \A i \in 1 .. Len(kept) : old[i] = match[i + k]
  <2>1. \A i \in k + 1 .. Len(match) : match[i] \in Nat
    BY <1>2, <1>8
  <2>2. old \in Seq(Nat) /\ Len(old) = IF k + 1 <= Len(match) THEN Len(match) - (k + 1) + 1 ELSE 0
    BY <1>8, <2>1, SubSeqProperties
  <2>3. \A i \in 1 .. Len(match) - (k + 1) + 1 : old[i] = match[k + 1 + i - 1]
    BY <1>8, <2>1, SubSeqProperties
  <2> HIDE DEF old
  <2>4. Len(old) = Len(kept)
    BY <1>3, <1>8, <2>2
  <2>5. ASSUME NEW i \in 1 .. Len(kept)
        PROVE  old[i] = match[i + k]
    <3>1. k + 1 + i - 1 = i + k /\ i \in 1 .. Len(match) - (k + 1) + 1
      BY <1>1, <1>3, <1>8
    <3> QED BY <2>3, <3>1
  <2> QED BY <2>2, <2>4, <2>5
<1>10. g.match = old \o <<v(row)>> /\ v(row) \in Nat
  BY <1>6, <1>7, <1>8 DEF match
<1> HIDE DEF old
<1>11. \A i \in 1 .. Len(kept) : old[i] = v(kept[i])
  <2>1. SUFFICES ASSUME NEW i \in 1 .. Len(kept)
                 PROVE  old[i] = v(kept[i])
    OBVIOUS
  <2>2. i + k \in 1 .. Len(rs) /\ kept[i] = rs[i + k]
    BY <1>8
  <2>3. match[i + k] = v(rs[i + k])
    BY <1>3, <2>2
  <2> QED BY <1>9, <2>2, <2>3
<1>12. /\ g.match \in Seq(Nat) /\ Len(g.match) = Len(table)
       /\ \A i \in 1 .. Len(table) : g.match[i] = v(table[i])
  <2>1. PICK x : x = v(row)
    OBVIOUS
  <2>2. g.match = Append(old, x) /\ x \in Nat /\ old \in Seq(Nat)
    BY <1>9, <1>10, <2>1, AppendIsConcat
  <2>3. /\ g.match \in Seq(Nat) /\ Len(g.match) = Len(old) + 1
        /\ \A i \in 1 .. Len(old) : g.match[i] = old[i]
        /\ g.match[Len(old) + 1] = x
    <3>1. /\ Append(old, x) \in Seq(Nat) /\ Len(Append(old, x)) = Len(old) + 1
          /\ \A i \in 1 .. Len(old) : Append(old, x)[i] = old[i]
          /\ Append(old, x)[Len(old) + 1] = x
      BY <2>2, AppendProperties
    <3> QED BY <2>2, <3>1
  <2>4. ASSUME NEW i \in 1 .. Len(table)
        PROVE  g.match[i] = v(table[i])
    <3>1. CASE i \in 1 .. Len(kept)
      BY <1>1, <1>9, <1>11, <2>3, <3>1
    <3>2. CASE i = Len(kept) + 1
      BY <1>1, <1>9, <2>1, <2>3, <3>2
    <3> QED BY <1>1, <3>1, <3>2
  <2> QED BY <1>1, <1>9, <2>3, <2>4
<1>13. g.match = EvaluateRows(ps, columns, table)
  <2> DEFINE e == EvaluateRows(ps, columns, table)
  <2>1. e \in Seq(Nat) /\ Len(e) = Len(table) /\ \A i \in 1 .. Len(table) : e[i] = v(table[i])
    BY <1>4
  <2> HIDE DEF e
  <2>2. Len(e) = Len(g.match) /\ \A i \in 1 .. Len(e) : e[i] = g.match[i]
    BY <1>12, <2>1
  <2>3. e = g.match
    BY <1>12, <2>1, <2>2, SeqEqual
  <2> QED BY <2>3 DEF e
<1> QED BY <1>6, <1>13 DEF Painted, PaintsAlike, Right

-----------------------------------------------------------------------------
(* The buffer of the editor.                                               *)

(* The same buffer, on another rule or with other columns.                 *)
SameBuffer(e, f) ==
    /\ IsBuffer(f) /\ f.session = e.session /\ f.shown = e.shown
    /\ f.local = e.local /\ f.baseline = e.baseline
(* The same text, whatever the keys of its rules.                          *)
SameText(e, f) ==
    /\ IsBuffer(f) /\ f.session = e.session
    /\ f.baseline = e.baseline /\ Seen(f.local) = Seen(e.local)
(* The buffer of tab t holds d.                                            *)
HoldsDraft(f, d, t) == IsBuffer(f) /\ f.session = t /\ f.local = d.local /\ f.baseline = d.baseline

(* RebuildList keeps the selection within the list.                        *)
LEMMA SelectedWithin ==
    ASSUME NEW row \in Nat, NEW rs \in Seq(HighlightRule)
    PROVE  Selected(row, rs) \in 0 .. Len(rs)
<1>1. Len(rs) \in Nat
  OBVIOUS
<1>2. CASE rs = <<>>
  BY <1>1, <1>2 DEF Selected
<1>3. CASE rs # <<>>
  <2>1. {row, Len(rs)} \in SUBSET Nat /\ Len(rs) > 0
    BY <1>1, <1>3
  <2>2. PICK low : low = Min({row, Len(rs)})
    OBVIOUS
  <2>3. low \in {row, Len(rs)} /\ low <= Len(rs)
    BY <2>1, <2>2, MinNat
  <2>4. {1, low} \in SUBSET (0 .. Len(rs)) /\ {1, low} # {}
    BY <1>1, <2>1, <2>3
  <2>5. Max({1, low}) \in {1, low}
    BY <1>1, <2>4, MaxNat
  <2>6. Selected(row, rs) = Max({1, low})
    BY <1>3, <2>2 DEF Selected
  <2> QED BY <2>4, <2>5, <2>6
<1> QED BY <1>2, <1>3

(* HighlightRulesEditor::RebuildList changes the selection and nothing     *)
(* else.                                                                   *)
LEMMA Rebuilt ==
    ASSUME NEW e \in EditorBuffer, NEW row \in Nat
    PROVE  SameBuffer(e, RebuildList(e, row))
<1> DEFINE r == IF row > 0 THEN row ELSE e.current
           c == Selected(r, e.local)
<1>1. r \in Nat /\ e.local \in Seq(HighlightRule)
  BY DEF EditorBuffer
<1>2. RebuildList(e, row) = [e EXCEPT !.current = c]
  BY DEF RebuildList, EditorBuffer
<1> HIDE DEF r
<1>3. c \in 0 .. Len(e.local) /\ Len(e.local) \in Nat
  BY <1>1, SelectedWithin
<1> HIDE DEF c
<1>4. PICK f : f = RebuildList(e, row)
  OBVIOUS
<1>5. f \in EditorBuffer /\ f.current = c
  <2>1. c \in Nat
    BY <1>3
  <2> QED BY <1>2, <1>4, <2>1 DEF EditorBuffer
<1>6. f.session = e.session /\ f.shown = e.shown /\ f.local = e.local /\ f.baseline = e.baseline
  BY <1>2, <1>4 DEF EditorBuffer
<1>7. SameBuffer(e, f)
  BY <1>3, <1>5, <1>6 DEF SameBuffer, IsBuffer
<1> QED BY <1>4, <1>7

(* HighlightRulesEditor::SetColumns leaves the rules of the buffer alone.  *)
LEMMA ColumnsSet ==
    ASSUME NEW e \in EditorBuffer, NEW columns \in Seq(Columns)
    PROVE  SameBuffer(e, SetColumns(e, columns))
<1> DEFINE f == [e EXCEPT !.cols = columns]
<1>1. f \in EditorBuffer /\ e.current \in Nat
  BY DEF EditorBuffer
<1>2. f.session = e.session /\ f.shown = e.shown /\ f.local = e.local /\ f.baseline = e.baseline
  BY DEF EditorBuffer
<1>3. SetColumns(e, columns) = RebuildList(f, e.current)
  BY DEF SetColumns
<1> HIDE DEF f
<1>4. SameBuffer(f, RebuildList(f, e.current))
  BY <1>1, Rebuilt
<1> QED BY <1>2, <1>3, <1>4 DEF SameBuffer

(* HighlightRulesEditor::RestoreDraft takes the rules and the baseline     *)
(* from the draft.                                                         *)
LEMMA DraftRestored ==
    ASSUME NEW e \in EditorBuffer, NEW d \in EditorDraft
    PROVE  HoldsDraft(RestoreDraft(e, d), d, e.session) /\ RestoreDraft(e, d).shown = e.shown
<1> DEFINE f == [e EXCEPT !.local = d.local, !.baseline = d.baseline]
<1>1. f \in EditorBuffer /\ d.current \in Nat
  BY DEF EditorBuffer, EditorDraft
<1>2. f.session = e.session /\ f.shown = e.shown /\ f.local = d.local /\ f.baseline = d.baseline
  BY DEF EditorBuffer
<1>3. RestoreDraft(e, d) = RebuildList(f, d.current)
  BY DEF RestoreDraft
<1> HIDE DEF f
<1>4. SameBuffer(f, RebuildList(f, d.current))
  BY <1>1, Rebuilt
<1> QED BY <1>2, <1>3, <1>4 DEF SameBuffer, HoldsDraft

(* What a configuration has saved is a draft without edits.                *)
LEMMA CommittedIsDraft ==
    ASSUME NEW rs \in Seq(HighlightRule)
    PROVE  Committed(rs) \in EditorDraft /\ Committed(rs).local = rs /\ Committed(rs).baseline = rs
BY DEF Committed, EditorDraft

(* The column box writes back at most one key.                             *)
LEMMA FirstKeyTyped ==
    ASSUME NEW column \in Seq(STRING)
    PROVE  FirstKey(column) \in Seq(STRING)
<1>1. CASE column = <<>>
  BY <1>1 DEF FirstKey
<1>2. CASE column # <<>>
  <2>1. column[1] \in STRING
    BY <1>2, EmptySeq
  <2>2. <<column[1]>> \in Seq(STRING)
    BY <2>1
  <2> QED BY <1>2, <2>2 DEF FirstKey
<1> QED BY <1>1, <1>2

(* HighlightRulesEditor::GatherForm may change the keys of the rule it     *)
(* shows and nothing the user sees.                                        *)
LEMMA Gathered ==
    ASSUME NEW e, IsBuffer(e)
    PROVE  SameText(e, GatherForm(e)) /\ Len(GatherForm(e).local) = Len(e.local)
<1>1. e \in EditorBuffer /\ e.current \in 0 .. Len(e.local) /\ e.local \in Seq(HighlightRule) /\ e.cols \in Seq(Columns)
  BY DEF IsBuffer, EditorBuffer
<1>2. CASE e.current = 0
  BY <1>1, <1>2 DEF GatherForm, SameText, IsBuffer
<1>3. CASE e.current # 0
  <2> DEFINE i == e.current
             col == ResolveColumnByKeys(e.local[i].keys, e.cols)
             keys == IF col = 0 THEN <<>> ELSE FirstKey(e.cols[col])
             rule == [e.local[i] EXCEPT !.keys = keys]
             local == [e.local EXCEPT ![i] = rule]
  <2>1. i \in 1 .. Len(e.local) /\ e.local[i] \in HighlightRule
    BY <1>1, <1>3
  <2>2. keys \in Seq(STRING)
    <3>1. col \in 0 .. Len(e.cols)
      BY <1>1, ColumnResolved
    <3> HIDE DEF col
    <3>2. CASE col = 0
      BY <3>2
    <3>3. CASE col # 0
      <4>1. e.cols[col] \in Seq(STRING)
        BY <1>1, <3>1, <3>3 DEF Columns
      <4>2. FirstKey(e.cols[col]) \in Seq(STRING)
        BY <4>1, FirstKeyTyped
      <4> QED BY <3>3, <4>2
    <3> QED BY <3>2, <3>3
  <2>3. GatherForm(e) = [e EXCEPT !.local = local]
    BY <1>1, <1>3, <2>1 DEF GatherForm, EditorBuffer
  <2> HIDE DEF keys
  <2>4. rule \in HighlightRule /\ rule.needle = e.local[i].needle /\ rule.enabled = e.local[i].enabled
    BY <2>1, <2>2 DEF HighlightRule
  <2> HIDE DEF rule
  <2>5. local \in Seq(HighlightRule) /\ Len(local) = Len(e.local)
        /\ \A j \in 1 .. Len(e.local) : local[j] = IF j = i THEN rule ELSE e.local[j]
    BY <1>1, <2>1, <2>4, ExceptSeq
  <2> HIDE DEF local
  <2>6. Seen(local) = Seen(e.local)
    <3>1. DOMAIN local = 1 .. Len(e.local) /\ DOMAIN e.local = 1 .. Len(e.local)
      BY <1>1, <2>5
    <3>2. \A j \in 1 .. Len(e.local) : local[j].needle = e.local[j].needle /\ local[j].enabled = e.local[j].enabled
      BY <2>4, <2>5
    <3>3. [j \in DOMAIN local |-> [needle |-> local[j].needle, enabled |-> local[j].enabled]]
          = [j \in DOMAIN e.local |-> [needle |-> e.local[j].needle, enabled |-> e.local[j].enabled]]
      BY <3>1, <3>2
    <3> QED BY <3>3 DEF Seen
  <2> QED BY <1>1, <2>3, <2>5, <2>6 DEF SameText, IsBuffer, EditorBuffer
<1> QED BY <1>2, <1>3

(* HighlightRulesEditor::CaptureDraft returns the rules and the baseline   *)
(* of the buffer.                                                          *)
LEMMA DraftIsDraft ==
    ASSUME NEW e, IsBuffer(e)
    PROVE  DraftOf(e) \in EditorDraft /\ DraftOf(e) # NoDraft /\ DraftOf(e).local = e.local /\ DraftOf(e).baseline = e.baseline
<1>1. DraftOf(e) \in EditorDraft /\ DraftOf(e).local = e.local /\ DraftOf(e).baseline = e.baseline
  BY DEF DraftOf, EditorDraft, IsBuffer, EditorBuffer
<1> QED BY <1>1, RuleAssumption

-----------------------------------------------------------------------------
(* Drafts.                                                                 *)

DraftsHold(s, ty) ==
    \A t \in RuleTabs : ty[t] # Nothing => s.draft[t] # NoDraft /\ ty[t] = <<Seen(s.draft[t].local)>>
DraftFor(s, t) == IF s.draft[t] # NoDraft THEN s.draft[t] ELSE Committed(config[t])

(* CaptureHighlightRulesEditorDraft: the buffer becomes the draft of its   *)
(* tab, and no edit is lost with it.                                       *)
LEMMA Captures ==
    ASSUME NEW s, NEW ty, NEW cf, NEW bl, EditsSafe(s, ty, cf, bl), s.editor # NoEditor,
           NEW r, r = CaptureHighlightRulesEditorDraft(s)
    PROVE  /\ EditsSafe(r, ty, cf, bl) /\ DraftsHold(r, ty)
           /\ Held(r, s.editor.session) /\ SameText(s.editor, r.editor)
           /\ r.draft = [s.draft EXCEPT ![s.editor.session] = DraftOf(r.editor)]
<1> DEFINE u == s.editor.session
<1>1. IsBuffer(s.editor) /\ u \in RuleTabs
  BY DEF EditsSafe, IsBuffer, EditorBuffer
<1>2. PICK e : e = GatherForm(s.editor)
  OBVIOUS
<1>3. SameText(s.editor, e)
  BY <1>1, <1>2, Gathered
<1>4. IsBuffer(e) /\ e.session = u /\ e.baseline = s.editor.baseline /\ Seen(e.local) = Seen(s.editor.local)
  BY <1>3 DEF SameText
<1>5. PICK d : d = DraftOf(e)
  OBVIOUS
<1>6. d \in EditorDraft /\ d # NoDraft /\ d.local = e.local /\ d.baseline = e.baseline
  BY <1>4, <1>5, DraftIsDraft
<1>7. r = [editor |-> e, draft |-> [s.draft EXCEPT ![u] = d]]
  BY <1>2, <1>4, <1>5 DEF CaptureHighlightRulesEditorDraft
<1>8. r.editor = e /\ r.draft = [s.draft EXCEPT ![u] = d] /\ e # NoEditor
  <2>1. e # NoEditor
    BY <1>4, RuleAssumption DEF IsBuffer
  <2> QED BY <1>7, <2>1
<1>9. s.draft \in [RuleTabs -> EditorDraft \cup {NoDraft}]
  BY DEF EditsSafe
<1>10. r.draft[u] = d /\ \A t \in RuleTabs \ {u} : r.draft[t] = s.draft[t]
  BY <1>1, <1>8, <1>9
<1>11. \A t \in RuleTabs : Held(r, t) <=> t = u
  BY <1>4, <1>8 DEF Held
<1>12. \A t \in RuleTabs : Held(s, t) <=> t = u
  BY DEF Held
<1>13. ASSUME NEW t \in RuleTabs, ~bl[t]
       PROVE  /\ Held(r, t) => r.editor.baseline = cf[t]
              /\ r.draft[t] # NoDraft => r.draft[t].baseline = cf[t]
  <2>1. Held(s, t) => s.editor.baseline = cf[t]
    BY <1>13 DEF EditsSafe
  <2>2. s.draft[t] # NoDraft => s.draft[t].baseline = cf[t]
    BY <1>13 DEF EditsSafe
  <2> QED BY <1>4, <1>6, <1>8, <1>10, <1>11, <1>12, <2>1, <2>2
<1>14. ASSUME NEW t \in RuleTabs, ty[t] # Nothing
       PROVE  /\ r.draft[t] # NoDraft /\ ty[t] = <<Seen(r.draft[t].local)>>
              /\ Held(r, t) => ty[t] = <<Seen(r.editor.local)>>
  <2>1. IF Held(s, t) THEN ty[t] = <<Seen(s.editor.local)>>
        ELSE s.draft[t] # NoDraft /\ ty[t] = <<Seen(s.draft[t].local)>>
    BY <1>14 DEF EditsSafe
  <2> QED BY <1>4, <1>6, <1>8, <1>10, <1>11, <1>12, <2>1
<1>15. DraftsHold(r, ty)
  BY <1>14 DEF DraftsHold
<1>16. EditsSafe(r, ty, cf, bl)
  <2>1. r = [editor |-> r.editor, draft |-> r.draft] /\ r.draft \in [RuleTabs -> EditorDraft \cup {NoDraft}]
    BY <1>6, <1>7, <1>8, <1>9
  <2> QED BY <1>4, <1>8, <1>13, <1>14, <2>1 DEF EditsSafe
<1>17. Held(r, u)
  BY <1>1, <1>11
<1> QED BY <1>3, <1>5, <1>8, <1>15, <1>16, <1>17

(* RestoreHighlightRulesEditorDraft: the draft of a tab, or what the tab   *)
(* has saved, becomes the buffer.                                          *)
LEMMA Restores ==
    ASSUME NEW s, NEW t \in RuleTabs, TablesTyped, s = [editor |-> s.editor, draft |-> s.draft],
           s.draft \in [RuleTabs -> EditorDraft \cup {NoDraft}], IsBuffer(s.editor),
           NEW r, r = RestoreHighlightRulesEditorDraft(s, t)
    PROVE  /\ r = [editor |-> r.editor, draft |-> s.draft]
           /\ HoldsDraft(r.editor, DraftFor(s, t), t) /\ r.editor # NoEditor
<1>1. PICK d : d = DraftFor(s, t)
  OBVIOUS
<1>2. d \in EditorDraft
  <2>1. config[t] \in Seq(HighlightRule)
    BY DEF TablesTyped
  <2> QED BY <1>1, <2>1, CommittedIsDraft DEF DraftFor
<1>3. cols[t] \in Seq(Columns)
  BY DEF TablesTyped
<1>4. PICK e : e = SetColumns(s.editor, cols[t])
  OBVIOUS
<1>5. SameBuffer(s.editor, e)
  BY <1>3, <1>4, ColumnsSet DEF IsBuffer
<1>6. e \in EditorBuffer
  BY <1>5 DEF SameBuffer, IsBuffer
<1>7. PICK f : f = RestoreDraft(e, d)
  OBVIOUS
<1>8. HoldsDraft(f, d, e.session)
  BY <1>2, <1>6, <1>7, DraftRestored
<1>9. PICK g : g = [f EXCEPT !.session = t]
  OBVIOUS
<1>10. f \in EditorBuffer /\ f.current <= Len(f.local) /\ f.local = d.local /\ f.baseline = d.baseline
  BY <1>8 DEF HoldsDraft, IsBuffer
<1>11. g \in EditorBuffer /\ g.session = t /\ g.local = f.local /\ g.baseline = f.baseline /\ g.current = f.current
  BY <1>9, <1>10 DEF EditorBuffer
<1>12. HoldsDraft(g, d, t)
  BY <1>10, <1>11 DEF HoldsDraft, IsBuffer
<1>13. r = [s EXCEPT !.editor = g]
  BY <1>1, <1>4, <1>7, <1>9 DEF RestoreHighlightRulesEditorDraft, DraftFor
<1>14. r.editor = g /\ r = [editor |-> g, draft |-> s.draft]
  BY <1>13
<1>15. g # NoEditor
  BY <1>11, RuleAssumption
<1> QED BY <1>1, <1>12, <1>14, <1>15

(* Restoring another tab is safe once every edit is in a draft.            *)
LEMMA RestoreSafe ==
    ASSUME NEW s, NEW t \in RuleTabs, TablesTyped, NEW ty, NEW bl, EditsSafe(s, ty, config, bl),
           s.editor # NoEditor, DraftsHold(s, ty), NEW r, r = RestoreHighlightRulesEditorDraft(s, t)
    PROVE  EditsSafe(r, ty, config, bl) /\ Held(r, t)
<1>1. /\ s = [editor |-> s.editor, draft |-> s.draft] /\ IsBuffer(s.editor)
      /\ s.draft \in [RuleTabs -> EditorDraft \cup {NoDraft}]
  BY DEF EditsSafe
<1>2. /\ r = [editor |-> r.editor, draft |-> s.draft]
      /\ HoldsDraft(r.editor, DraftFor(s, t), t) /\ r.editor # NoEditor
  BY <1>1, Restores
<1>3. r.draft = s.draft /\ r = [editor |-> r.editor, draft |-> r.draft]
  BY <1>2
<1>4. PICK d : d = DraftFor(s, t)
  OBVIOUS
<1>5. IsBuffer(r.editor) /\ r.editor.session = t /\ r.editor.local = d.local /\ r.editor.baseline = d.baseline
  BY <1>2, <1>4 DEF HoldsDraft
<1>6. \A v \in RuleTabs : Held(r, v) <=> v = t
  BY <1>2, <1>5 DEF Held
<1>7. config[t] \in Seq(HighlightRule)
  BY DEF TablesTyped
<1>8. s.draft[t] = NoDraft => d.baseline = config[t]
  BY <1>4, <1>7, CommittedIsDraft DEF DraftFor
<1>9. s.draft[t] # NoDraft => d = s.draft[t]
  BY <1>4 DEF DraftFor
<1>10. ASSUME NEW v \in RuleTabs, ~bl[v]
       PROVE  /\ Held(r, v) => r.editor.baseline = config[v]
              /\ r.draft[v] # NoDraft => r.draft[v].baseline = config[v]
  <2>1. s.draft[v] # NoDraft => s.draft[v].baseline = config[v]
    BY <1>10 DEF EditsSafe
  <2> QED BY <1>3, <1>5, <1>6, <1>8, <1>9, <2>1
<1>11. ASSUME NEW v \in RuleTabs, ty[v] # Nothing
       PROVE  IF Held(r, v) THEN ty[v] = <<Seen(r.editor.local)>>
              ELSE r.draft[v] # NoDraft /\ ty[v] = <<Seen(r.draft[v].local)>>
  <2>1. s.draft[v] # NoDraft /\ ty[v] = <<Seen(s.draft[v].local)>>
    BY <1>11 DEF DraftsHold
  <2> QED BY <1>3, <1>5, <1>6, <1>9, <2>1
<1>12. EditsSafe(r, ty, config, bl)
  BY <1>1, <1>3, <1>5, <1>10, <1>11 DEF EditsSafe
<1> QED BY <1>6, <1>12

-----------------------------------------------------------------------------
(* What may happen to a safe edit.                                         *)

(* The same text in the buffer is as safe.                                 *)
LEMMA SameTextSafe ==
    ASSUME NEW s, NEW ty, NEW cf, NEW bl, EditsSafe(s, ty, cf, bl), s.editor # NoEditor,
           NEW e, SameText(s.editor, e), NEW r, r = [s EXCEPT !.editor = e]
    PROVE  EditsSafe(r, ty, cf, bl) /\ Held(r, s.editor.session)
<1>1. IsBuffer(e) /\ e.session = s.editor.session /\ e.baseline = s.editor.baseline /\ Seen(e.local) = Seen(s.editor.local)
  BY DEF SameText
<1>2. s = [editor |-> s.editor, draft |-> s.draft]
  BY DEF EditsSafe
<1>3. r = [editor |-> e, draft |-> s.draft] /\ r.editor = e /\ r.draft = s.draft
  BY <1>2
<1>4. e # NoEditor
  BY <1>1, RuleAssumption DEF IsBuffer
<1>5. \A t : Held(r, t) <=> Held(s, t)
  BY <1>1, <1>3, <1>4 DEF Held
<1>6. Held(r, s.editor.session)
  BY <1>5 DEF Held
<1> QED BY <1>1, <1>3, <1>5, <1>6 DEF EditsSafe

(* A buffer with another selection or other columns shows the same text.   *)
LEMMA SameBufferText == ASSUME NEW e, NEW f, SameBuffer(e, f) PROVE SameText(e, f)
BY DEF SameBuffer, SameText

(* MainWindow::RebindSharedDocks: the editor moves to a tab and no edit is *)
(* lost or shown for another one.                                          *)
LEMMA RebindSafe ==
    ASSUME NEW s, NEW t \in RuleTabs, TablesTyped, NEW ty, NEW bl, EditsSafe(s, ty, config, bl),
           NEW r, r = Rebind(s, t)
    PROVE  EditsSafe(r, ty, config, bl) /\ (r.editor # NoEditor => r.editor.session = t)
<1>1. CASE s.editor = NoEditor
  BY <1>1 DEF Rebind
<1>2. CASE s.editor # NoEditor /\ s.editor.session = t
  <2>1. PICK e : e = SetColumns(s.editor, cols[t])
    OBVIOUS
  <2>2. s.editor \in EditorBuffer /\ cols[t] \in Seq(Columns)
    BY <1>2 DEF EditsSafe, IsBuffer, TablesTyped
  <2>3. SameText(s.editor, e)
    BY <2>1, <2>2, ColumnsSet, SameBufferText
  <2>4. r = [s EXCEPT !.editor = e]
    BY <1>2, <2>1 DEF Rebind
  <2>5. EditsSafe(r, ty, config, bl) /\ Held(r, s.editor.session)
    BY <1>2, <2>3, <2>4, SameTextSafe
  <2> QED BY <1>2, <2>5 DEF Held
<1>3. CASE s.editor # NoEditor /\ s.editor.session # t
  <2>1. PICK c : c = CaptureHighlightRulesEditorDraft(s)
    OBVIOUS
  <2>2. EditsSafe(c, ty, config, bl) /\ DraftsHold(c, ty) /\ Held(c, s.editor.session)
    BY <1>3, <2>1, Captures
  <2>3. c.editor # NoEditor
    BY <2>2 DEF Held
  <2>4. r = RestoreHighlightRulesEditorDraft(c, t)
    BY <1>3, <2>1 DEF Rebind
  <2>5. EditsSafe(r, ty, config, bl) /\ Held(r, t)
    BY <2>2, <2>3, <2>4, RestoreSafe
  <2> QED BY <2>5 DEF Held
<1> QED BY <1>1, <1>2, <1>3

(* What is typed for a tab that ends is closed with its draft.             *)
SafelyEnded(s, t, ty, cf, bl, r, tz) ==
    /\ EditsSafe(r, tz, cf, bl) /\ DOMAIN tz = RuleTabs
    /\ r.editor = s.editor /\ r.draft = [s.draft EXCEPT ![t] = NoDraft] /\ r.draft[t] = NoDraft

(* What is typed for a tab that ends goes with its draft.                  *)
LEMMA EndedSafe ==
    ASSUME NEW s, NEW t \in RuleTabs, NEW ty, NEW cf, NEW bl, EditsSafe(s, ty, cf, bl), DOMAIN ty = RuleTabs
    PROVE  SafelyEnded(s, t, ty, cf, bl, Ended(s, t), [ty EXCEPT ![t] = Nothing])
<1>a. PICK r : r = Ended(s, t)
  OBVIOUS
<1>b. PICK tz : tz = [ty EXCEPT ![t] = Nothing]
  OBVIOUS
<1>1. s = [editor |-> s.editor, draft |-> s.draft] /\ s.draft \in [RuleTabs -> EditorDraft \cup {NoDraft}]
  BY DEF EditsSafe
<1>2. r = [editor |-> s.editor, draft |-> [s.draft EXCEPT ![t] = NoDraft]]
      /\ r.editor = s.editor /\ r.draft = [s.draft EXCEPT ![t] = NoDraft]
  BY <1>1, <1>a DEF Ended
<1>3. r.draft[t] = NoDraft /\ \A v \in RuleTabs \ {t} : r.draft[v] = s.draft[v]
  BY <1>1, <1>2
<1>4. tz[t] = Nothing /\ \A v \in RuleTabs \ {t} : tz[v] = ty[v]
  BY <1>b
<1>5. \A v : Held(r, v) <=> Held(s, v)
  BY <1>2 DEF Held
<1>6. ASSUME NEW v \in RuleTabs, ~bl[v]
      PROVE  /\ Held(r, v) => r.editor.baseline = cf[v]
             /\ r.draft[v] # NoDraft => r.draft[v].baseline = cf[v]
  <2>1. /\ Held(s, v) => s.editor.baseline = cf[v]
        /\ s.draft[v] # NoDraft => s.draft[v].baseline = cf[v]
    BY <1>6 DEF EditsSafe
  <2> QED BY <1>2, <1>3, <1>5, <2>1
<1>7. ASSUME NEW v \in RuleTabs, tz[v] # Nothing
      PROVE  IF Held(r, v) THEN tz[v] = <<Seen(r.editor.local)>>
             ELSE r.draft[v] # NoDraft /\ tz[v] = <<Seen(r.draft[v].local)>>
  <2>1. v # t /\ ty[v] # Nothing
    BY <1>4, <1>7
  <2>2. IF Held(s, v) THEN ty[v] = <<Seen(s.editor.local)>>
        ELSE s.draft[v] # NoDraft /\ ty[v] = <<Seen(s.draft[v].local)>>
    BY <2>1 DEF EditsSafe
  <2> QED BY <1>2, <1>3, <1>4, <1>5, <2>1, <2>2
<1>8. r = [editor |-> r.editor, draft |-> r.draft] /\ r.draft \in [RuleTabs -> EditorDraft \cup {NoDraft}]
      /\ (r.editor # NoEditor => IsBuffer(r.editor))
  BY <1>1, <1>2 DEF EditsSafe
<1>9. EditsSafe(r, tz, cf, bl)
  BY <1>6, <1>7, <1>8 DEF EditsSafe
<1>10. DOMAIN tz = RuleTabs
  BY <1>b
<1> QED BY <1>a, <1>b, <1>2, <1>3, <1>9, <1>10 DEF SafelyEnded

(* Configurations may be replaced where neither the buffer nor a draft     *)
(* counts anything as saved.                                               *)
LEMMA OtherConfig ==
    ASSUME NEW s, NEW ty, NEW cf, NEW bl, EditsSafe(s, ty, cf, bl), NEW cz, NEW bz,
           \A v \in RuleTabs : ~bz[v] =>
               (~bl[v] /\ cz[v] = cf[v]) \/ (~Held(s, v) /\ s.draft[v] = NoDraft)
    PROVE  EditsSafe(s, ty, cz, bz)
BY DEF EditsSafe

(* MainWindow::PrepareSessionClose sees every edit: the captured draft of  *)
(* a tab with edits is dirty, so the user is asked.                        *)
LEMMA PrepareSafe ==
    ASSUME NEW t \in RuleTabs, EditsSafe(Here, typed, config, blanked), NEW r, r = Prepare(t)
    PROVE  /\ EditsSafe(r, typed, config, blanked)
           /\ r.editor = NoEditor <=> editor = NoEditor
           /\ r.editor # NoEditor => r.editor.session = editor.session
           /\ HasEdits(t) => Asked(t)
<1>0. Here.editor = editor /\ Here.draft = drafts
  BY DEF Here
<1>1. CASE Bound(t)
  <2>1. r = CaptureHighlightRulesEditorDraft(Here) /\ editor # NoEditor /\ editor.session = t
    BY <1>1 DEF Prepare, Bound
  <2>2. /\ EditsSafe(r, typed, config, blanked) /\ DraftsHold(r, typed) /\ Held(r, t)
        /\ SameText(editor, r.editor)
        /\ r.draft = [drafts EXCEPT ![t] = DraftOf(r.editor)]
    BY <1>0, <2>1, Captures
  <2>3. r.draft[t] = DraftOf(r.editor)
    BY <1>0, <2>2 DEF EditsSafe
  <2>4. IsBuffer(r.editor) /\ r.editor.baseline = editor.baseline
    BY <2>2 DEF SameText
  <2>5. DraftOf(r.editor) # NoDraft /\ DraftOf(r.editor).local = r.editor.local /\ DraftOf(r.editor).baseline = r.editor.baseline
    BY <2>4, DraftIsDraft
  <2>6. ASSUME HasEdits(t) PROVE Asked(t)
    <3>1. ~blanked[t] /\ typed[t] # Nothing /\ typed[t] # <<Seen(config[t])>>
      BY <2>6 DEF HasEdits
    <3>2. typed[t] = <<Seen(r.draft[t].local)>>
      BY <2>2, <3>1 DEF DraftsHold
    <3>3. r.draft[t].baseline = config[t]
      BY <2>2, <2>3, <2>5, <3>1 DEF EditsSafe
    <3>4. IsDirty(r.draft[t])
      BY <2>3, <2>5, <3>1, <3>2, <3>3 DEF IsDirty
    <3> QED BY <3>4 DEF Asked
  <2> QED BY <2>1, <2>2, <2>6 DEF Held
<1>2. CASE ~Bound(t)
  <2>1. r = Here
    BY <1>2 DEF Prepare
  <2>2. ASSUME HasEdits(t) PROVE Asked(t)
    <3>1. ~blanked[t] /\ typed[t] # Nothing /\ typed[t] # <<Seen(config[t])>>
      BY <2>2 DEF HasEdits
    <3>2. ~Held(Here, t)
      BY <1>0, <1>2 DEF Held, Bound
    <3>3. drafts[t] # NoDraft /\ typed[t] = <<Seen(drafts[t].local)>> /\ drafts[t].baseline = config[t]
      BY <1>0, <3>1, <3>2 DEF EditsSafe
    <3>4. IsDirty(drafts[t])
      BY <3>1, <3>3 DEF IsDirty
    <3> QED BY <1>0, <2>1, <3>4 DEF Asked
  <2> QED BY <1>0, <2>1, <2>2
<1> QED BY <1>1, <1>2

(* The user edits the buffer: what was typed is what it holds.             *)
LEMMA EditedSafe ==
    ASSUME EditsSafe(Here, typed, config, blanked), DOMAIN typed = RuleTabs, editor # NoEditor,
           NEW e, IsBuffer(e), e.session = editor.session, e.baseline = editor.baseline,
           NEW r, r = [editor |-> e, draft |-> drafts], NEW ty, ty = [typed EXCEPT ![e.session] = <<Seen(e.local)>>]
    PROVE  EditsSafe(r, ty, config, blanked) /\ e # NoEditor /\ DOMAIN ty = RuleTabs
<1>0. Here.editor = editor /\ Here.draft = drafts /\ r.editor = e /\ r.draft = drafts
  BY DEF Here
<1>1. e.session \in RuleTabs /\ e # NoEditor
  BY RuleAssumption DEF IsBuffer, EditorBuffer
<1>2. ty[e.session] = <<Seen(e.local)>> /\ \A v \in RuleTabs \ {e.session} : ty[v] = typed[v]
  BY <1>1
<1>3. \A v : (Held(r, v) <=> v = e.session) /\ (Held(Here, v) <=> v = e.session)
  BY <1>0, <1>1 DEF Held
<1>4. ASSUME NEW v \in RuleTabs, ~blanked[v]
      PROVE  /\ Held(r, v) => r.editor.baseline = config[v]
             /\ r.draft[v] # NoDraft => r.draft[v].baseline = config[v]
  BY <1>0, <1>3, <1>4 DEF EditsSafe
<1>5. ASSUME NEW v \in RuleTabs, ty[v] # Nothing
      PROVE  IF Held(r, v) THEN ty[v] = <<Seen(r.editor.local)>>
             ELSE r.draft[v] # NoDraft /\ ty[v] = <<Seen(r.draft[v].local)>>
  BY <1>0, <1>2, <1>3, <1>5 DEF EditsSafe
<1>6. r.draft \in [RuleTabs -> EditorDraft \cup {NoDraft}] /\ r = [editor |-> r.editor, draft |-> r.draft]
  BY <1>0 DEF EditsSafe
<1>7. EditsSafe(r, ty, config, blanked)
  BY <1>0, <1>4, <1>5, <1>6 DEF EditsSafe
<1> QED BY <1>1, <1>7

-----------------------------------------------------------------------------
(* The two halves of the invariant.                                        *)

(* One tab of the tables is replaced by one that is right.                 *)
LEMMA OneTab ==
    ASSUME Tables, NEW t \in RuleTabs, NEW h \in RuleSet, NEW columns \in Seq(Columns), NEW table \in Seq(LogRows),
           NEW cf \in Seq(HighlightRule), NEW miss \in BOOLEAN, NEW bl \in BOOLEAN,
           h.rules = <<>> => h.compiled = <<>>,
           h.rules = <<>> \/ ~miss => Right(h, columns, table),
           ~bl => h.rules = cf,
           open' \subseteq RuleTabs, active' \in open',
           cols' = [cols EXCEPT ![t] = columns], rows' = [rows EXCEPT ![t] = table],
           config' = [config EXCEPT ![t] = cf], rules' = [rules EXCEPT ![t] = h],
           missed' = [missed EXCEPT ![t] = miss], blanked' = [blanked EXCEPT ![t] = bl]
    PROVE  Tables'
<1>1. TablesTyped
  BY DEF Tables
<1>2. TablesTyped'
  BY <1>1 DEF TablesTyped
<1>3. /\ cols'[t] = columns /\ rows'[t] = table /\ config'[t] = cf /\ rules'[t] = h /\ missed'[t] = miss /\ blanked'[t] = bl
      /\ \A v \in RuleTabs \ {t} : /\ cols'[v] = cols[v] /\ rows'[v] = rows[v] /\ config'[v] = config[v]
                                   /\ rules'[v] = rules[v] /\ missed'[v] = missed[v] /\ blanked'[v] = blanked[v]
  BY <1>1 DEF TablesTyped
<1>4. ASSUME NEW v \in RuleTabs
      PROVE  /\ rules'[v].rules = <<>> => rules'[v].compiled = <<>>
             /\ rules'[v].rules = <<>> \/ ~missed'[v] =>
                    PaintsAlike(rules'[v], cols'[v]) /\ Painted(rules'[v], cols'[v], rows'[v])
             /\ ~blanked'[v] => rules'[v].rules = config'[v]
  <2>1. CASE v = t
    BY <1>3, <2>1 DEF Right
  <2>2. CASE v # t
    <3>1. /\ rules[v].rules = <<>> => rules[v].compiled = <<>>
          /\ rules[v].rules = <<>> \/ ~missed[v] =>
                 PaintsAlike(rules[v], cols[v]) /\ Painted(rules[v], cols[v], rows[v])
          /\ ~blanked[v] => rules[v].rules = config[v]
      BY DEF Tables, RowsPainted, RulesSaved
    <3> QED BY <1>3, <2>2, <3>1
  <2> QED BY <2>1, <2>2
<1>5. RowsPainted' /\ RulesSaved'
  BY <1>4 DEF RowsPainted, RulesSaved
<1> QED BY <1>2, <1>5 DEF Tables

(* Steps of the editor leave the tables as they are.                       *)
LEMMA TablesStay ==
    ASSUME Tables, UNCHANGED <<cols, rows, config, rules, missed, blanked>>,
           open' \subseteq RuleTabs, active' \in open'
    PROVE  Tables'
BY DEF Tables, TablesTyped, RowsPainted, RulesSaved

(* What is known of one tab.                                               *)
TabRight(h, columns, table, cf, miss, bl) ==
    /\ h \in RuleSet /\ columns \in Seq(Columns) /\ table \in Seq(LogRows) /\ cf \in Seq(HighlightRule)
    /\ miss \in BOOLEAN /\ bl \in BOOLEAN
    /\ h.rules = <<>> => h.compiled = <<>>
    /\ h.rules = <<>> \/ ~miss => Right(h, columns, table)
    /\ ~bl => h.rules = cf

(* What the invariant says of one tab.                                     *)
LEMMA TabOf ==
    ASSUME Tables, NEW t \in RuleTabs
    PROVE  TabRight(rules[t], cols[t], rows[t], config[t], missed[t], blanked[t])
BY DEF Tables, TablesTyped, RowsPainted, RulesSaved, TabRight, Right

(* The buffer and the drafts after a step, as one record.                  *)
LEMMA EditsAre ==
    ASSUME NEW r, r.editor = editor', r.draft = drafts', EditsSafe(r, typed', config', blanked'),
           DOMAIN typed' = RuleTabs, editor' # NoEditor => editor'.session = active', ~dropped'
    PROVE  Edits'
<1>1. Here' = [editor |-> editor', draft |-> drafts']
  BY DEF Here
<1>2. r = Here'
  BY <1>1 DEF EditsSafe
<1>3. EditsSafe(Here', typed', config', blanked')
  BY <1>2
<1> QED BY <1>3 DEF Edits, EditsAskedAbout

(* Steps of the tables leave the editor as it is.                          *)
LEMMA EditsStay ==
    ASSUME Edits, UNCHANGED <<active, config, blanked, drafts, editor, typed, dropped>>
    PROVE  Edits'
<1>1. Here' = Here
  BY DEF Here
<1>2. EditsSafe(Here, typed, config, blanked)
  BY DEF Edits
<1>3. EditsSafe(Here', typed', config', blanked')
  BY <1>1, <1>2
<1> QED BY <1>3 DEF Edits, EditsAskedAbout

(* A column moved to the front leaves a list of columns.                   *)
LEMMA Bubbled ==
    ASSUME NEW columns \in Seq(Columns), Len(columns) > 1
    PROVE  Bubble(columns) \in Seq(Columns)
<1>1. columns[Len(columns)] \in Columns /\ Len(columns) \in Nat
  OBVIOUS
<1>2. <<columns[Len(columns)]>> \in Seq(Columns)
  BY <1>1
<1>3. SubSeq(columns, 1, Len(columns) - 1) \in Seq(Columns)
  BY <1>1
<1> QED BY <1>2, <1>3 DEF Bubble

(* The user drags a header of the active tab:                              *)
(* MainWindow::OnSourceColumnsMoved rebinds its rules.                     *)
LEMMA ColumnMoved ==
    ASSUME Tables, Edits, MoveColumn
    PROVE  Tables' /\ Edits'
<1>1. /\ Len(cols[active]) > 1
      /\ cols' = [cols EXCEPT ![active] = Bubble(@)]
      /\ rules' = [rules EXCEPT ![active] = RebindColumns(@, Bubble(cols[active]), rows[active])]
      /\ missed' = [missed EXCEPT ![active] = FALSE]
      /\ UNCHANGED <<open, active, rows, config, drafts, editor, typed, blanked, dropped>>
  BY DEF MoveColumn
<1>2. active \in RuleTabs /\ active \in open /\ open \subseteq RuleTabs /\ TablesTyped
  BY DEF Tables, TablesTyped
<1>3. TabRight(rules[active], cols[active], rows[active], config[active], missed[active], blanked[active])
  BY <1>2, TabOf
<1>4. PICK columns : columns = Bubble(cols[active])
  OBVIOUS
<1>5. columns \in Seq(Columns)
  BY <1>1, <1>3, <1>4, Bubbled DEF TabRight
<1>6. PICK h : h = RebindColumns(rules[active], columns, rows[active])
  OBVIOUS
<1>7. Same(rules[active], h) /\ Right(h, columns, rows[active])
  BY <1>3, <1>5, <1>6, Rebound DEF TabRight, Right
<1>8. h \in RuleSet /\ (h.rules = <<>> => h.compiled = <<>>) /\ h.rules = rules[active].rules
  BY <1>7 DEF Same
<1>9. /\ cols' = [cols EXCEPT ![active] = columns] /\ rows' = [rows EXCEPT ![active] = rows[active]]
      /\ config' = [config EXCEPT ![active] = config[active]] /\ rules' = [rules EXCEPT ![active] = h]
      /\ missed' = [missed EXCEPT ![active] = FALSE] /\ blanked' = [blanked EXCEPT ![active] = blanked[active]]
  BY <1>1, <1>2, <1>4, <1>6 DEF TablesTyped
<1>10. Tables'
  <2>1. rows[active] \in Seq(LogRows) /\ config[active] \in Seq(HighlightRule) /\ blanked[active] \in BOOLEAN
        /\ (~blanked[active] => h.rules = config[active])
    BY <1>3, <1>8 DEF TabRight
  <2>2. open' \subseteq RuleTabs /\ active' \in open'
    BY <1>1, <1>2
  <2> QED BY <1>2, <1>5, <1>7, <1>8, <1>9, <2>1, <2>2, OneTab
<1>11. Edits'
  BY <1>1, EditsStay
<1> QED BY <1>10, <1>11

-----------------------------------------------------------------------------
(* A batch arrives.                                                        *)

Repainted(h, g, columns, table, miss) == Same(h, g) /\ (g.rules = <<>> \/ ~miss => Right(g, columns, table))
Trimmed(table, kept, k) ==
    /\ kept \in Seq(LogRows) /\ k \in Nat /\ k <= Len(table) /\ Len(kept) = Len(table) - k
    /\ \A i \in 1 .. Len(kept) : kept[i] = table[i + k]

(* The signals of one batch, in order.                                     *)
Signals(h, columns, row, new, bubble, shown, miss, kept, k, full, wide, moved, h2, h3, h4, m) ==
    /\ row \in LogRows /\ new \in Seq(Columns) /\ moved \in Seq(Columns)
    /\ bubble \in BOOLEAN /\ shown \in BOOLEAN /\ m \in BOOLEAN /\ miss \in BOOLEAN
    /\ full = Append(kept, row) /\ wide = columns \o new /\ (~bubble => moved = wide)
    /\ h2 = OnRowsAppended(OnRowsEvicted(h, k), wide, full, 1)
    /\ h3 = IF new # <<>> THEN RebindColumns(h2, wide, full) ELSE h2
    /\ h4 = IF bubble /\ shown THEN RebindColumns(h3, moved, full) ELSE h3
    /\ m <=> (miss /\ new = <<>>) \/ (bubble /\ ~shown)

(* The signals of one batch in order (rowsRemoved, rowsInserted,           *)
(* columnsInserted, columnsMoved): the cache is right at the end, unless a *)
(* column moved in a background tab.                                       *)
LEMMA BatchRebinds ==
    ASSUME NEW h, NEW columns, NEW table, NEW miss, NEW cf, NEW bl, TabRight(h, columns, table, cf, miss, bl),
           NEW row, NEW new, NEW bubble, NEW shown, NEW kept, NEW k, Trimmed(table, kept, k),
           NEW full, NEW wide, NEW moved, NEW h2, NEW h3, NEW h4, NEW m,
           Signals(h, columns, row, new, bubble, shown, miss, kept, k, full, wide, moved, h2, h3, h4, m)
    PROVE  Repainted(h, h4, moved, full, m)
<1>a. /\ row \in LogRows /\ new \in Seq(Columns) /\ moved \in Seq(Columns)
      /\ bubble \in BOOLEAN /\ shown \in BOOLEAN /\ m \in BOOLEAN /\ miss \in BOOLEAN
      /\ full = Append(kept, row) /\ wide = columns \o new /\ (~bubble => moved = wide)
      /\ h2 = OnRowsAppended(OnRowsEvicted(h, k), wide, full, 1)
      /\ h3 = IF new # <<>> THEN RebindColumns(h2, wide, full) ELSE h2
      /\ h4 = IF bubble /\ shown THEN RebindColumns(h3, moved, full) ELSE h3
      /\ m <=> (miss /\ new = <<>>) \/ (bubble /\ ~shown)
  BY DEF Signals
<1>0. /\ kept \in Seq(LogRows) /\ k \in Nat /\ k <= Len(table) /\ Len(kept) = Len(table) - k
      /\ \A i \in 1 .. Len(kept) : kept[i] = table[i + k]
  BY DEF Trimmed
<1>1. h \in RuleSet /\ columns \in Seq(Columns) /\ table \in Seq(LogRows) /\ (h.rules = <<>> => h.compiled = <<>>)
      /\ (h.rules = <<>> \/ ~miss => Right(h, columns, table))
  BY DEF TabRight
<1>2. wide \in Seq(Columns)
  BY <1>a, <1>1
<1>3. full \in Seq(LogRows)
  BY <1>a, <1>0, Appended
<1>4. h2 \in RuleSet /\ h2.rules = h.rules /\ h2.compiled = h.compiled
  <2>1. OneMore(h, h2, wide, row, k)
    BY <1>a, <1>0, <1>1, <1>2, BatchTyped
  <2> QED BY <1>a, <2>1 DEF OneMore
<1>5. new = <<>> => wide = columns
  BY <1>a, <1>1
<1>6. ASSUME h.rules = <<>> \/ (~miss /\ new = <<>>)
      PROVE  Right(h2, wide, full)
  <2>1. Right(h, columns, table)
    BY <1>a, <1>1, <1>6
  <2>2. Right(h, wide, table)
    <3>1. CASE new = <<>>
      BY <1>a, <1>5, <2>1, <3>1
    <3>2. CASE new # <<>>
      <4>1. h.rules = <<>> /\ h.compiled = <<>> /\ Painted(h, columns, table)
        BY <1>a, <1>1, <1>6, <2>1, <3>2 DEF Right
      <4> QED BY <1>a, <1>1, <1>2, <4>1, RightWithoutRules
    <3> QED BY <1>a, <3>1, <3>2
  <2> QED BY <1>a, <1>0, <1>1, <1>2, <2>2, BatchPainted
<1>7. Same(h, h3) /\ h3.rules = h.rules
      /\ (h.rules = <<>> \/ ~(miss /\ new = <<>>) => Right(h3, wide, full))
  <2>1. CASE new = <<>>
    BY <1>a, <1>1, <1>4, <1>6, <2>1 DEF Same
  <2>2. CASE new # <<>>
    <3>1. h2.rules = <<>> => Painted(h2, wide, full)
      BY <1>a, <1>4, <1>6 DEF Right
    <3>2. h3 = RebindColumns(h2, wide, full)
      BY <1>a, <2>2
    <3>3. Same(h2, h3) /\ Right(h3, wide, full)
      BY <1>a, <1>2, <1>3, <1>4, <3>1, <3>2, Rebound
    <3> QED BY <1>a, <1>4, <3>3 DEF Same
  <2> QED BY <1>a, <2>1, <2>2
<1>8. h3 \in RuleSet /\ (h3.rules = <<>> => h3.compiled = <<>>)
  BY <1>a, <1>7 DEF Same
<1>9. CASE bubble /\ shown
  <2>1. h3.rules = <<>> => Painted(h3, wide, full)
    BY <1>a, <1>7 DEF Right
  <2>2. h4 = RebindColumns(h3, moved, full)
    BY <1>a, <1>9
  <2>3. Same(h3, RebindColumns(h3, moved, full)) /\ Right(RebindColumns(h3, moved, full), moved, full)
    BY <1>a, <1>3, <1>8, <2>1, Rebound
  <2> QED BY <1>a, <1>7, <2>2, <2>3 DEF Same, Repainted
<1>10. CASE bubble /\ ~shown
  <2>1. h4 = h3
    BY <1>a, <1>10
  <2>2. h4.rules = <<>> => Right(h4, moved, full)
    <3>1. SUFFICES ASSUME h3.rules = <<>>
                   PROVE  Right(h3, moved, full)
      BY <1>a, <2>1
    <3>2. Painted(h3, wide, full) /\ h3.compiled = <<>>
      BY <1>a, <1>7, <1>8, <3>1 DEF Right
    <3> QED BY <1>a, <1>3, <1>8, <3>1, <3>2, RightWithoutRules
  <2> QED BY <1>a, <1>7, <1>10, <2>1, <2>2 DEF Same, Repainted
<1>11. CASE ~bubble
  BY <1>a, <1>7, <1>11 DEF Same, Repainted
<1> QED BY <1>a, <1>9, <1>10, <1>11

(* What a table keeps when it makes room for a row.                        *)
LEMMA Kept ==
    ASSUME NEW table \in Seq(LogRows), NEW n \in Nat \ {0},
           NEW kept, kept = SubSeq(table, IF Len(table) = n THEN 2 ELSE 1, Len(table)),
           NEW k, k = Len(table) - Len(kept)
    PROVE  Trimmed(table, kept, k)
<1>1. Len(table) \in Nat /\ \A i \in 1 .. Len(table) : table[i] \in LogRows
  OBVIOUS
<1>2. CASE Len(table) = n
  <2>1. kept = SubSeq(table, 2, Len(table))
    BY <1>2
  <2>2. /\ kept \in Seq(LogRows) /\ Len(kept) = IF 2 <= Len(table) THEN Len(table) - 2 + 1 ELSE 0
        /\ \A i \in 1 .. Len(table) - 2 + 1 : kept[i] = table[2 + i - 1]
    BY <1>1, <2>1, SubSeqProperties
  <2>3. Len(kept) = Len(table) - 1 /\ k = 1
    BY <1>1, <1>2, <2>2
  <2>4. ASSUME NEW i \in 1 .. Len(kept) PROVE kept[i] = table[i + 1]
    <3>1. Len(table) - 2 + 1 = Len(kept) /\ Len(kept) \in Nat
      BY <1>1, <2>2, <2>3
    <3>2. 2 + i - 1 = i + 1
      BY <3>1
    <3> QED BY <2>2, <3>1, <3>2
  <2>5. Trimmed(table, kept, 1)
    BY <1>1, <1>2, <2>2, <2>3, <2>4 DEF Trimmed
  <2> QED BY <2>3, <2>5
<1>3. CASE Len(table) # n
  <2>1. kept = SubSeq(table, 1, Len(table))
    BY <1>3
  <2>2. kept = table
    BY <2>1, SubSeqFull
  <2>3. k = 0
    BY <1>1, <2>2
  <2>4. \A i \in 1 .. Len(table) : table[i] = table[i + 0]
    BY <1>1
  <2>5. Trimmed(table, table, 0)
    BY <1>1, <2>4 DEF Trimmed
  <2> QED BY <2>2, <2>3, <2>5
<1> QED BY <1>2, <1>3

(* LogModel::AppendBatch keeps the invariant.                              *)
LEMMA BatchStep ==
    ASSUME Tables, Edits, NEW t \in open, NEW row \in LogRows, NEW new \in {<<>>} \cup {<<c>> : c \in NewColumns},
           NEW bubble \in BOOLEAN, AppendBatch(t, row, new, bubble)
    PROVE  Tables' /\ Edits'
<1>1. t \in RuleTabs /\ open \subseteq RuleTabs /\ active \in open /\ TablesTyped
  BY DEF Tables, TablesTyped
<1>2. TabRight(rules[t], cols[t], rows[t], config[t], missed[t], blanked[t])
  BY <1>1, TabOf
<1>3. PICK kept : kept = SubSeq(rows[t], IF Len(rows[t]) = MaxRuleRows THEN 2 ELSE 1, Len(rows[t]))
  OBVIOUS
<1>4. PICK k : k = Len(rows[t]) - Len(kept)
  OBVIOUS
<1>5. PICK full : full = Append(kept, row)
  OBVIOUS
<1>6. PICK wide : wide = cols[t] \o new
  OBVIOUS
<1>7. PICK moved : moved = IF bubble THEN Bubble(wide) ELSE wide
  OBVIOUS
<1>8. PICK h2 : h2 = OnRowsAppended(OnRowsEvicted(rules[t], k), wide, full, 1)
  OBVIOUS
<1>9. PICK h3 : h3 = IF new # <<>> THEN RebindColumns(h2, wide, full) ELSE h2
  OBVIOUS
<1>10. PICK h4 : h4 = IF bubble /\ t = active THEN RebindColumns(h3, moved, full) ELSE h3
  OBVIOUS
<1>11. /\ bubble => Len(wide) > 1
       /\ rows' = [rows EXCEPT ![t] = full]
       /\ cols' = [cols EXCEPT ![t] = moved]
       /\ rules' = [rules EXCEPT ![t] = h4]
       /\ editor' = IF Bound(t) /\ t = active /\ new # <<>> THEN SetColumns(editor, wide) ELSE editor
       /\ missed' = [missed EXCEPT ![t] = (@ /\ new = <<>>) \/ (bubble /\ t # active)]
       /\ UNCHANGED <<open, active, config, drafts, typed, blanked, dropped>>
  BY <1>3, <1>4, <1>5, <1>6, <1>7, <1>8, <1>9, <1>10 DEF AppendBatch
<1>12. PICK shown \in BOOLEAN : shown <=> t = active
  OBVIOUS
<1>13. new \in Seq(Columns)
  <2>1. CASE new = <<>>
    BY <2>1
  <2>2. CASE new # <<>>
    <3>1. PICK c \in NewColumns : new = <<c>>
      BY <2>2
    <3>2. c \in Columns
      BY RuleAssumption
    <3> QED BY <3>1, <3>2
  <2> QED BY <2>1, <2>2
<1>14. wide \in Seq(Columns) /\ moved \in Seq(Columns)
  <2>1. wide \in Seq(Columns)
    BY <1>2, <1>6, <1>13 DEF TabRight
  <2> QED BY <1>7, <1>11, <2>1, Bubbled
<1>15. Trimmed(rows[t], kept, k)
  <2>1. rows[t] \in Seq(LogRows) /\ MaxRuleRows \in Nat \ {0}
    BY <1>2, RuleAssumption DEF TabRight
  <2> QED BY <1>3, <1>4, <2>1, Kept
<1>16. PICK miss \in BOOLEAN : miss = missed[t]
  BY <1>2 DEF TabRight
<1>17. PICK m \in BOOLEAN : m <=> (miss /\ new = <<>>) \/ (bubble /\ ~shown)
  OBVIOUS
<1>18. Repainted(rules[t], h4, moved, full, m)
  <2>1. PICK h, columns, table, cf, bl : h = rules[t] /\ columns = cols[t] /\ table = rows[t] /\ cf = config[t] /\ bl = blanked[t]
    OBVIOUS
  <2>2. TabRight(h, columns, table, cf, miss, bl)
    BY <1>2, <1>16, <2>1
  <2>3. h4 = IF bubble /\ shown THEN RebindColumns(h3, moved, full) ELSE h3
    BY <1>10, <1>12
  <2>4. ~bubble => moved = wide
    BY <1>7
  <2>5. h2 = OnRowsAppended(OnRowsEvicted(h, k), wide, full, 1) /\ wide = columns \o new /\ Trimmed(table, kept, k)
    BY <1>6, <1>8, <1>15, <2>1
  <2>6. moved \in Seq(Columns)
    BY <1>14
  <2>7. Signals(h, columns, row, new, bubble, shown, miss, kept, k, full, wide, moved, h2, h3, h4, m)
    BY <1>5, <1>9, <1>13, <1>17, <2>3, <2>4, <2>5, <2>6 DEF Signals
  <2>8. Repainted(h, h4, moved, full, m)
    BY <2>2, <2>5, <2>7, BatchRebinds
  <2> QED BY <2>1, <2>8
<1>19. Tables'
  <2>1. h4 \in RuleSet /\ (h4.rules = <<>> => h4.compiled = <<>>) /\ h4.rules = rules[t].rules
    BY <1>18 DEF Same, Repainted
  <2>2. h4.rules = <<>> \/ ~m => Right(h4, moved, full)
    BY <1>18 DEF Repainted
  <2>3. config[t] \in Seq(HighlightRule) /\ blanked[t] \in BOOLEAN /\ (~blanked[t] => h4.rules = config[t])
    BY <1>2, <2>1 DEF TabRight
  <2>4. missed' = [missed EXCEPT ![t] = m]
    BY <1>11, <1>12, <1>16, <1>17
  <2>5. config' = [config EXCEPT ![t] = config[t]] /\ blanked' = [blanked EXCEPT ![t] = blanked[t]]
    BY <1>1, <1>11 DEF TablesTyped
  <2>6. full \in Seq(LogRows)
    BY <1>5, <1>15, Appended DEF Trimmed
  <2>7. open' \subseteq RuleTabs /\ active' \in open'
    BY <1>1, <1>11
  <2> QED BY <1>1, <1>11, <1>14, <2>1, <2>2, <2>3, <2>4, <2>5, <2>6, <2>7, OneTab
<1>20. Edits'
  <2>1. CASE Bound(t) /\ t = active /\ new # <<>>
    <3>1. Here.editor = editor /\ Here.draft = drafts /\ editor # NoEditor /\ editor.session = t
      BY <2>1 DEF Here, Bound
    <3>2. EditsSafe(Here, typed, config, blanked) /\ DOMAIN typed = RuleTabs /\ ~dropped
      BY DEF Edits, EditsAskedAbout
    <3>3. SameText(editor, editor')
      <4>1. editor \in EditorBuffer
        BY <3>1, <3>2 DEF EditsSafe, IsBuffer
      <4>2. editor' = SetColumns(editor, wide)
        BY <1>11, <2>1
      <4> QED BY <1>14, <4>1, <4>2, ColumnsSet, SameBufferText
    <3>4. PICK r : r = [Here EXCEPT !.editor = editor']
      OBVIOUS
    <3>5. EditsSafe(r, typed, config, blanked)
      BY <3>1, <3>2, <3>3, <3>4, SameTextSafe
    <3>6. r.editor = editor' /\ r.draft = drafts'
      BY <1>11, <3>4 DEF Here
    <3>7. editor'.session = active'
      BY <1>11, <2>1, <3>1, <3>3 DEF SameText
    <3>8. EditsSafe(r, typed', config', blanked') /\ DOMAIN typed' = RuleTabs /\ ~dropped'
      BY <1>11, <3>2, <3>5
    <3> QED BY <3>6, <3>7, <3>8, EditsAre
  <2>2. CASE ~(Bound(t) /\ t = active /\ new # <<>>)
    BY <1>11, <2>2, EditsStay
  <2> QED BY <2>1, <2>2
<1> QED BY <1>19, <1>20

-----------------------------------------------------------------------------
(* Sessions end.                                                           *)

(* HighlightRuleSet::ClearMatches is right for a table without rows.       *)
LEMMA Cleared ==
    ASSUME NEW h \in RuleSet, NEW columns \in Seq(Columns), NEW g, g = ClearMatches(h)
    PROVE  /\ g \in RuleSet /\ g.rules = h.rules /\ g.compiled = h.compiled
           /\ Painted(g, columns, <<>>) /\ (PaintsAlike(h, columns) => PaintsAlike(g, columns))
<1>1. <<>> \in Seq(Nat) /\ <<>> \in Seq(LogRows) /\ Len(<<>>) = 0
  BY EmptySeq
<1>2. g \in RuleSet /\ g.rules = h.rules /\ g.compiled = h.compiled /\ g.match = <<>>
  BY <1>1 DEF ClearMatches, RuleSet
<1>3. RecompileAll(h.rules, columns) \in Seq(Predicates)
  BY Compiled DEF RuleSet
<1>4. EvaluateRows(RecompileAll(h.rules, columns), columns, <<>>) = <<>>
  <2>1. PICK x : x = EvaluateRows(RecompileAll(h.rules, columns), columns, <<>>)
    OBVIOUS
  <2>2. x \in Seq(Nat) /\ Len(x) = 0
    BY <1>1, <1>3, <2>1, Evaluated
  <2>3. x = <<>>
    BY <2>2, EmptySeq
  <2> QED BY <2>1, <2>3
<1> QED BY <1>2, <1>4 DEF Painted, PaintsAlike

(* Without columns nothing is painted, whatever was compiled: New Session  *)
(* does not tell the HighlightRuleSet.                                     *)
LEMMA BlankPaintsAlike ==
    ASSUME NEW h \in RuleSet
    PROVE  PaintsAlike(h, <<>>)
<1>1. <<>> \in Seq(Columns)
  BY EmptySeq
<1>2. h.compiled \in Seq(Predicates) /\ RecompileAll(h.rules, <<>>) \in Seq(Predicates)
  BY <1>1, Compiled DEF RuleSet
<1> QED BY <1>2, NoColumns DEF PaintsAlike

(* What the invariant says of the editor.                                  *)
LEMMA EditsSay ==
    ASSUME Edits
    PROVE  /\ EditsSafe(Here, typed, config, blanked) /\ DOMAIN typed = RuleTabs
           /\ (editor # NoEditor => editor.session = active) /\ ~dropped
           /\ Here.editor = editor /\ Here.draft = drafts
BY DEF Edits, EditsAskedAbout, Here

(* A prompt that is cancelled keeps the session, with its draft captured.  *)
LEMMA SessionKept ==
    ASSUME Tables, Edits, NEW t \in open, KeepSession(t)
    PROVE  Tables' /\ Edits'
<1>1. /\ editor' = Prepare(t).editor /\ drafts' = Prepare(t).draft
      /\ UNCHANGED <<open, active, cols, rows, config, rules, typed, missed, blanked, dropped>>
  BY DEF KeepSession
<1>2. t \in RuleTabs /\ active \in open /\ open \subseteq RuleTabs
  BY DEF Tables, TablesTyped
<1>3. Tables'
  <2>1. UNCHANGED <<cols, rows, config, rules, missed, blanked>> /\ open' \subseteq RuleTabs /\ active' \in open'
    BY <1>1, <1>2
  <2> QED BY <2>1, TablesStay
<1>4. PICK r : r = Prepare(t)
  OBVIOUS
<1>5. EditsSafe(r, typed, config, blanked) /\ (r.editor # NoEditor => editor # NoEditor /\ r.editor.session = editor.session)
  BY <1>2, <1>4, EditsSay, PrepareSafe
<1>6. EditsSafe(r, typed', config', blanked') /\ DOMAIN typed' = RuleTabs /\ ~dropped'
  BY <1>1, <1>5, EditsSay
<1>7. r.editor = editor' /\ r.draft = drafts' /\ (editor' # NoEditor => editor'.session = active')
  BY <1>1, <1>4, <1>5, EditsSay
<1>8. Edits'
  BY <1>6, <1>7, EditsAre
<1> QED BY <1>3, <1>8

(* A session ends after its buffer was captured: edits go only if the user *)
(* was asked.                                                              *)
LEMMA SessionEnded ==
    ASSUME NEW t \in RuleTabs, Edits, EndHistory(t), NEW p, p = Prepare(t), NEW r, r = Ended(p, t)
    PROVE  /\ EditsSafe(p, typed, config, blanked) /\ EditsSafe(r, typed', config, blanked)
           /\ DOMAIN typed' = RuleTabs /\ typed'[t] = Nothing /\ ~dropped'
           /\ (r.editor # NoEditor => r.editor.session = active) /\ r.draft[t] = NoDraft
<1>1. EditsSafe(p, typed, config, blanked) /\ (p.editor # NoEditor => editor # NoEditor /\ p.editor.session = editor.session)
      /\ (HasEdits(t) => Asked(t))
  BY EditsSay, PrepareSafe
<1>2. typed' = [typed EXCEPT ![t] = Nothing] /\ (dropped' <=> dropped \/ (~Asked(t) /\ HasEdits(t)))
  BY DEF EndHistory
<1>3. ~dropped'
  BY <1>1, <1>2, EditsSay
<1>4. typed'[t] = Nothing
  BY <1>2, EditsSay
<1>5. DOMAIN typed = RuleTabs
  BY EditsSay
<1>6. /\ EditsSafe(r, typed', config, blanked) /\ DOMAIN typed' = RuleTabs
      /\ r.editor = p.editor /\ r.draft[t] = NoDraft
  <2>1. PICK ty, cf, bl : ty = typed /\ cf = config /\ bl = blanked
    OBVIOUS
  <2>2. EditsSafe(p, ty, cf, bl) /\ DOMAIN ty = RuleTabs
    BY <1>1, <1>5, <2>1
  <2>3. SafelyEnded(p, t, ty, cf, bl, Ended(p, t), [ty EXCEPT ![t] = Nothing])
    BY <2>2, EndedSafe
  <2>4. SafelyEnded(p, t, typed, config, blanked, r, typed')
    BY <1>2, <2>1, <2>3
  <2> QED BY <2>4 DEF SafelyEnded
<1>7. r.editor # NoEditor => r.editor.session = active
  BY <1>1, <1>6, EditsSay
<1> QED BY <1>1, <1>2, <1>3, <1>4, <1>5, <1>6, <1>7

(* A destructive open keeps the invariant.                                 *)
LEMMA SourceReplaced ==
    ASSUME Tables, Edits, ReplaceSource
    PROVE  Tables' /\ Edits'
<1>1. PICK p : p = Prepare(active)
  OBVIOUS
<1>2. PICK r : r = Ended(p, active)
  OBVIOUS
<1>3. /\ editor' = r.editor /\ drafts' = r.draft
      /\ rows' = [rows EXCEPT ![active] = <<>>]
      /\ rules' = [rules EXCEPT ![active] = ClearMatches(@)]
      /\ EndHistory(active)
      /\ UNCHANGED <<open, active, cols, config, missed, blanked>>
  BY <1>1, <1>2 DEF ReplaceSource
<1>4. active \in RuleTabs /\ active \in open /\ open \subseteq RuleTabs /\ TablesTyped
  BY DEF Tables, TablesTyped
<1>5. TabRight(rules[active], cols[active], rows[active], config[active], missed[active], blanked[active])
  BY <1>4, TabOf
<1>6. PICK g : g = ClearMatches(rules[active])
  OBVIOUS
<1>7. /\ g \in RuleSet /\ g.rules = rules[active].rules /\ g.compiled = rules[active].compiled
      /\ Painted(g, cols[active], <<>>) /\ (PaintsAlike(rules[active], cols[active]) => PaintsAlike(g, cols[active]))
  BY <1>5, <1>6, Cleared DEF TabRight
<1>8. /\ cols' = [cols EXCEPT ![active] = cols[active]] /\ rows' = [rows EXCEPT ![active] = <<>>]
      /\ config' = [config EXCEPT ![active] = config[active]] /\ rules' = [rules EXCEPT ![active] = g]
      /\ missed' = [missed EXCEPT ![active] = missed[active]] /\ blanked' = [blanked EXCEPT ![active] = blanked[active]]
  BY <1>3, <1>4, <1>6 DEF TablesTyped
<1>9. Tables'
  <2>1. /\ g.rules = <<>> => g.compiled = <<>>
        /\ g.rules = <<>> \/ ~missed[active] => Right(g, cols[active], <<>>)
        /\ ~blanked[active] => g.rules = config[active]
    BY <1>5, <1>7 DEF TabRight, Right
  <2>2. /\ cols[active] \in Seq(Columns) /\ config[active] \in Seq(HighlightRule) /\ <<>> \in Seq(LogRows)
        /\ missed[active] \in BOOLEAN /\ blanked[active] \in BOOLEAN
    BY <1>5, EmptySeq DEF TabRight
  <2>3. open' \subseteq RuleTabs /\ active' \in open'
    BY <1>3, <1>4
  <2> QED BY <1>4, <1>7, <1>8, <2>1, <2>2, <2>3, OneTab
<1>10. /\ EditsSafe(r, typed', config, blanked) /\ DOMAIN typed' = RuleTabs /\ ~dropped'
       /\ (r.editor # NoEditor => r.editor.session = active)
  BY <1>1, <1>2, <1>3, <1>4, SessionEnded
<1>11. EditsSafe(r, typed', config', blanked')
  BY <1>3, <1>10
<1>12. Edits'
  BY <1>3, <1>10, <1>11, EditsAre
<1> QED BY <1>9, <1>12

(* New Session keeps the invariant.                                        *)
LEMMA SessionBlanked ==
    ASSUME Tables, Edits, NewSession
    PROVE  Tables' /\ Edits'
<1>1. PICK p : p = Prepare(active)
  OBVIOUS
<1>2. PICK r : r = Ended(p, active)
  OBVIOUS
<1>3. /\ editor' = r.editor /\ drafts' = r.draft
      /\ rows' = [rows EXCEPT ![active] = <<>>] /\ cols' = [cols EXCEPT ![active] = <<>>]
      /\ config' = [config EXCEPT ![active] = <<>>]
      /\ rules' = [rules EXCEPT ![active] = ClearMatches(@)]
      /\ blanked' = [blanked EXCEPT ![active] = TRUE]
      /\ EndHistory(active)
      /\ UNCHANGED <<open, active, missed>>
  BY <1>1, <1>2 DEF NewSession
<1>4. active \in RuleTabs /\ active \in open /\ open \subseteq RuleTabs /\ TablesTyped
  BY DEF Tables, TablesTyped
<1>5. TabRight(rules[active], cols[active], rows[active], config[active], missed[active], blanked[active])
  BY <1>4, TabOf
<1>6. PICK g : g = ClearMatches(rules[active])
  OBVIOUS
<1>7. <<>> \in Seq(Columns) /\ <<>> \in Seq(LogRows) /\ <<>> \in Seq(HighlightRule)
  BY EmptySeq
<1>8. g \in RuleSet /\ g.rules = rules[active].rules /\ g.compiled = rules[active].compiled /\ Painted(g, <<>>, <<>>)
  BY <1>5, <1>6, <1>7, Cleared DEF TabRight
<1>9. Right(g, <<>>, <<>>)
  BY <1>8, BlankPaintsAlike DEF Right
<1>10. rules' = [rules EXCEPT ![active] = g] /\ missed' = [missed EXCEPT ![active] = missed[active]]
  BY <1>3, <1>4, <1>6 DEF TablesTyped
<1>11. Tables'
  <2>1. (g.rules = <<>> => g.compiled = <<>>) /\ missed[active] \in BOOLEAN
    BY <1>5, <1>8 DEF TabRight
  <2>2. open' \subseteq RuleTabs /\ active' \in open'
    BY <1>3, <1>4
  <2>3. g \in RuleSet
    BY <1>8
  <2> QED BY <1>3, <1>4, <1>7, <1>9, <1>10, <2>1, <2>2, <2>3, OneTab
<1>12. /\ EditsSafe(r, typed', config, blanked) /\ DOMAIN typed' = RuleTabs /\ ~dropped'
       /\ (r.editor # NoEditor => r.editor.session = active)
  BY <1>1, <1>2, <1>3, <1>4, SessionEnded
<1>13. EditsSafe(r, typed', config', blanked')
  <2>1. \A v \in RuleTabs : ~blanked'[v] => ~blanked[v] /\ config'[v] = config[v]
    BY <1>3, <1>4 DEF TablesTyped
  <2>2. PICK ty, cz, bz : ty = typed' /\ cz = config' /\ bz = blanked'
    OBVIOUS
  <2>3. EditsSafe(r, ty, cz, bz)
    BY <1>12, <2>1, <2>2, OtherConfig
  <2> QED BY <2>2, <2>3
<1>14. Edits'
  BY <1>3, <1>12, <1>13, EditsAre
<1> QED BY <1>11, <1>14

-----------------------------------------------------------------------------
(* Configurations and tabs.                                                *)

(* MainWindow::ApplyLoadedConfiguration keeps the invariant: the editor of *)
(* that tab is restored and its draft goes.                                *)
LEMMA ConfigLoaded ==
    ASSUME Tables, Edits, NEW t \in open, NEW file \in RuleFiles, LoadConfig(t, file)
    PROVE  Tables' /\ Edits'
<1>1. t \in RuleTabs /\ open \subseteq RuleTabs /\ active \in open /\ TablesTyped
  BY DEF Tables, TablesTyped
<1>2. file.cols \in Seq(Columns) /\ file.rules \in Seq(HighlightRule) /\ <<>> \in Seq(LogRows)
  BY RuleAssumption, EmptySeq
<1>3. PICK h : h = SetRules(file.rules, file.cols, <<>>)
  OBVIOUS
<1>4. /\ h \in RuleSet /\ h.rules = file.rules /\ (h.rules = <<>> => h.compiled = <<>>)
      /\ Right(h, file.cols, <<>>)
  <2>1. PICK rs, columns : rs = file.rules /\ columns = file.cols
    OBVIOUS
  <2>2. rs \in Seq(HighlightRule) /\ columns \in Seq(Columns) /\ h = SetRules(rs, columns, <<>>)
    BY <1>2, <1>3, <2>1
  <2>3. h \in RuleSet /\ h.rules = rs /\ (rs = <<>> => h.compiled = <<>>) /\ PaintsAlike(h, columns) /\ Painted(h, columns, <<>>)
    BY <1>2, <2>2, SetRulesRight
  <2> QED BY <2>1, <2>3 DEF Right
<1>5. /\ rows' = [rows EXCEPT ![t] = <<>>] /\ cols' = [cols EXCEPT ![t] = file.cols]
      /\ config' = [config EXCEPT ![t] = file.rules] /\ rules' = [rules EXCEPT ![t] = h]
      /\ editor' = IF Bound(t) THEN RestoreDraft(SetColumns(editor, file.cols), Committed(file.rules)) ELSE editor
      /\ drafts' = [drafts EXCEPT ![t] = NoDraft]
      /\ blanked' = [blanked EXCEPT ![t] = FALSE] /\ missed' = [missed EXCEPT ![t] = FALSE]
      /\ typed' = [typed EXCEPT ![t] = Nothing]
      /\ UNCHANGED <<open, active, dropped>>
  BY <1>3 DEF LoadConfig
<1>6. Tables'
  BY <1>1, <1>2, <1>4, <1>5, OneTab
<1>7. PICK s : s = Ended(Here, t)
  OBVIOUS
<1>8. SafelyEnded(Here, t, typed, config, blanked, s, typed')
  BY <1>1, <1>5, <1>7, EditsSay, EndedSafe
<1>9. EditsSafe(s, typed', config, blanked) /\ DOMAIN typed' = RuleTabs /\ s.editor = editor /\ s.draft = drafts'
      /\ s.draft[t] = NoDraft
  BY <1>5, <1>8, EditsSay DEF SafelyEnded
<1>10. \A v \in RuleTabs : ~blanked'[v] => (~blanked[v] /\ config'[v] = config[v]) \/ v = t
  BY <1>1, <1>5 DEF TablesTyped
<1>11. PICK ty, cz, bz : ty = typed' /\ cz = config' /\ bz = blanked'
  OBVIOUS
<1>12. CASE ~Bound(t)
  <2>1. editor' = s.editor /\ ~Held(s, t)
    BY <1>5, <1>9, <1>12 DEF Bound, Held
  <2>2. \A v \in RuleTabs : ~bz[v] => (~blanked[v] /\ cz[v] = config[v]) \/ (~Held(s, v) /\ s.draft[v] = NoDraft)
    BY <1>9, <1>10, <1>11, <2>1
  <2>3. EditsSafe(s, ty, cz, bz)
    BY <1>9, <1>11, <2>2, OtherConfig
  <2>4. EditsSafe(s, typed', config', blanked') /\ ~dropped' /\ (editor' # NoEditor => editor'.session = active')
    BY <1>5, <1>9, <1>11, <2>1, <2>3, EditsSay
  <2>5. Edits'
    BY <1>9, <2>1, <2>4, EditsAre
  <2> QED BY <1>6, <2>5
<1>13. CASE Bound(t)
  <2>1. editor # NoEditor /\ editor.session = t /\ editor \in EditorBuffer /\ t = active
    BY <1>9, <1>13, EditsSay DEF Bound, EditsSafe, IsBuffer
  <2>2. PICK e : e = SetColumns(editor, file.cols)
    OBVIOUS
  <2>3. e \in EditorBuffer /\ e.session = t
    <3>1. SameBuffer(editor, e)
      BY <1>2, <2>1, <2>2, ColumnsSet
    <3> QED BY <2>1, <3>1 DEF SameBuffer, IsBuffer
  <2>4. PICK d : d = Committed(file.rules)
    OBVIOUS
  <2>5. d \in EditorDraft /\ d.baseline = file.rules
    BY <1>2, <2>4, CommittedIsDraft
  <2>6. HoldsDraft(editor', d, t)
    <3>1. editor' = RestoreDraft(e, d)
      BY <1>5, <1>13, <2>2, <2>4
    <3> QED BY <2>3, <2>5, <3>1, DraftRestored
  <2>7. IsBuffer(editor') /\ editor'.session = t /\ editor'.baseline = file.rules /\ editor' # NoEditor
    BY <2>5, <2>6, RuleAssumption DEF HoldsDraft, IsBuffer
  <2>8. PICK r : r = [editor |-> editor', draft |-> drafts']
    OBVIOUS
  <2>9. r.editor = editor' /\ r.draft = drafts'
    BY <2>8
  <2>10. \A v : (Held(r, v) <=> v = t) /\ (Held(s, v) <=> v = t)
    BY <1>9, <2>1, <2>7, <2>9 DEF Held
  <2>11. config'[t] = file.rules /\ typed'[t] = Nothing
    BY <1>1, <1>5, EditsSay DEF TablesTyped
  <2>12. ASSUME NEW v \in RuleTabs, ~blanked'[v]
         PROVE  /\ Held(r, v) => r.editor.baseline = config'[v]
                /\ r.draft[v] # NoDraft => r.draft[v].baseline = config'[v]
    <3>1. v # t => ~blanked[v] /\ config'[v] = config[v]
      BY <1>10, <2>12
    <3>2. ~blanked[v] => (s.draft[v] # NoDraft => s.draft[v].baseline = config[v])
      BY <1>9 DEF EditsSafe
    <3> QED BY <1>9, <2>7, <2>9, <2>10, <2>11, <3>1, <3>2
  <2>13. ASSUME NEW v \in RuleTabs, typed'[v] # Nothing
         PROVE  IF Held(r, v) THEN typed'[v] = <<Seen(r.editor.local)>>
                ELSE r.draft[v] # NoDraft /\ typed'[v] = <<Seen(r.draft[v].local)>>
    <3>1. v # t /\ ~Held(r, v) /\ ~Held(s, v)
      BY <2>10, <2>11, <2>13
    <3>2. s.draft[v] # NoDraft /\ typed'[v] = <<Seen(s.draft[v].local)>>
      BY <1>9, <2>13, <3>1 DEF EditsSafe
    <3> QED BY <1>9, <2>9, <3>1, <3>2
  <2>14. r.draft \in [RuleTabs -> EditorDraft \cup {NoDraft}]
    BY <1>9, <2>9 DEF EditsSafe
  <2>15. EditsSafe(r, typed', config', blanked')
    BY <2>7, <2>8, <2>9, <2>12, <2>13, <2>14 DEF EditsSafe
  <2>16. ~dropped' /\ (editor' # NoEditor => editor'.session = active')
    BY <1>5, <2>1, <2>7, EditsSay
  <2>17. Edits'
    BY <1>9, <2>9, <2>15, <2>16, EditsAre
  <2> QED BY <1>6, <2>17
<1> QED BY <1>12, <1>13

(* Another tab shows, an old one or a new one.                             *)
LEMMA TabShown ==
    ASSUME Tables, Edits, NEW t \in RuleTabs, Activate(t) \/ AddTab(t)
    PROVE  Tables' /\ Edits'
<1>1. open \subseteq RuleTabs /\ TablesTyped
  BY DEF Tables, TablesTyped
<1>2. PICK s : s = Rebind(Here, t)
  OBVIOUS
<1>3. /\ t \in open' /\ open' \subseteq RuleTabs /\ active' = t /\ editor' = s.editor /\ drafts' = s.draft
      /\ UNCHANGED <<cols, rows, config, rules, typed, missed, blanked, dropped>>
  BY <1>1, <1>2 DEF Activate, AddTab
<1>4. Tables'
  BY <1>3, TablesStay
<1>5. EditsSafe(s, typed, config, blanked) /\ (s.editor # NoEditor => s.editor.session = t)
  BY <1>1, <1>2, EditsSay, RebindSafe
<1>6. EditsSafe(s, typed', config', blanked') /\ DOMAIN typed' = RuleTabs /\ ~dropped'
      /\ (editor' # NoEditor => editor'.session = active')
  BY <1>3, <1>5, EditsSay
<1>7. Edits'
  BY <1>3, <1>6, EditsAre
<1> QED BY <1>4, <1>7

(* CloseHostedTab keeps the invariant, whether it saves from the prompt or *)
(* not.                                                                    *)
LEMMA TabClosed ==
    ASSUME Tables, Edits, NEW t \in open, NEW next \in open, NEW saving \in BOOLEAN, CloseHostedTab(t, next, saving)
    PROVE  Tables' /\ Edits'
<1>1. t \in RuleTabs /\ next \in RuleTabs /\ open \subseteq RuleTabs /\ TablesTyped
  BY DEF Tables, TablesTyped
<1>2. PICK p : p = Prepare(t)
  OBVIOUS
<1>3. PICK q : q = IF saving THEN Rebind(p, t) ELSE p
  OBVIOUS
<1>4. PICK e : e = Ended(q, t)
  OBVIOUS
<1>5. PICK s : s = Rebind(e, next)
  OBVIOUS
<1>6. PICK h : h = SetRules(<<>>, <<>>, <<>>)
  OBVIOUS
<1>7. /\ next # t /\ open' = open \ {t} /\ active' = next
      /\ editor' = s.editor /\ drafts' = [s.draft EXCEPT ![t] = NoDraft]
      /\ cols' = [cols EXCEPT ![t] = <<>>] /\ rows' = [rows EXCEPT ![t] = <<>>]
      /\ config' = [config EXCEPT ![t] = <<>>] /\ rules' = [rules EXCEPT ![t] = h]
      /\ missed' = [missed EXCEPT ![t] = FALSE] /\ blanked' = [blanked EXCEPT ![t] = FALSE]
      /\ EndHistory(t)
  BY <1>2, <1>3, <1>4, <1>5, <1>6 DEF CloseHostedTab
<1>8. Tables'
  <2>1. <<>> \in Seq(Columns) /\ <<>> \in Seq(LogRows) /\ <<>> \in Seq(HighlightRule)
    BY EmptySeq
  <2>2. h \in RuleSet /\ h.rules = <<>> /\ h.compiled = <<>> /\ Right(h, <<>>, <<>>)
    BY <1>6, <2>1, SetRulesRight DEF Right
  <2>3. open' \subseteq RuleTabs /\ active' \in open'
    BY <1>1, <1>7
  <2> QED BY <1>1, <1>7, <2>1, <2>2, <2>3, OneTab
<1>9. typed' = [typed EXCEPT ![t] = Nothing] /\ DOMAIN typed = RuleTabs /\ DOMAIN typed' = RuleTabs
      /\ [typed' EXCEPT ![t] = Nothing] = typed'
  <2>1. typed' = [typed EXCEPT ![t] = Nothing] /\ DOMAIN typed = RuleTabs
    BY <1>7, EditsSay DEF EndHistory
  <2> QED BY <2>1
<1>10. EditsSafe(p, typed, config, blanked) /\ ~dropped'
  BY <1>1, <1>2, <1>7, SessionEnded
<1>11. EditsSafe(q, typed, config, blanked)
  <2>1. EditsSafe(Rebind(p, t), typed, config, blanked)
    BY <1>1, <1>10, RebindSafe
  <2> QED BY <1>3, <1>10, <2>1
<1>12. PICK ty, cf, bl, cz, bz : ty = typed' /\ cf = config /\ bl = blanked /\ cz = config' /\ bz = blanked'
  OBVIOUS
<1>13. EditsSafe(e, ty, config, blanked)
  <2>1. SafelyEnded(q, t, typed, config, blanked, e, ty)
    BY <1>1, <1>4, <1>9, <1>11, <1>12, EndedSafe
  <2> QED BY <2>1 DEF SafelyEnded
<1>14. EditsSafe(s, ty, config, blanked) /\ (s.editor # NoEditor => s.editor.session = next)
  BY <1>1, <1>5, <1>13, RebindSafe
<1>15. PICK r : r = Ended(s, t)
  OBVIOUS
<1>16. SafelyEnded(s, t, ty, config, blanked, r, ty)
  BY <1>1, <1>9, <1>12, <1>14, <1>15, EndedSafe
<1>17. EditsSafe(r, ty, cf, bl) /\ r.editor = s.editor /\ r.draft = drafts' /\ r.draft[t] = NoDraft
  BY <1>7, <1>12, <1>16 DEF SafelyEnded
<1>18. ~Held(r, t)
  BY <1>7, <1>14, <1>17 DEF Held
<1>19. \A v \in RuleTabs : ~bz[v] => (~bl[v] /\ cz[v] = cf[v]) \/ (~Held(r, v) /\ r.draft[v] = NoDraft)
  <2>1. \A v \in RuleTabs : v # t => blanked'[v] = blanked[v] /\ config'[v] = config[v]
    BY <1>1, <1>7 DEF TablesTyped
  <2> QED BY <1>12, <1>17, <1>18, <2>1
<1>20. EditsSafe(r, ty, cz, bz)
  BY <1>17, <1>19, OtherConfig
<1>21. EditsSafe(r, typed', config', blanked') /\ (editor' # NoEditor => editor'.session = active')
  BY <1>7, <1>12, <1>14, <1>20
<1>22. Edits'
  BY <1>7, <1>9, <1>10, <1>17, <1>21, EditsAre
<1> QED BY <1>8, <1>22

-----------------------------------------------------------------------------
(* The editor opens.                                                       *)

(* OpenHighlightRulesEditor keeps the invariant: a draft is shown again.   *)
LEMMA EditorOpened ==
    ASSUME Tables, Edits, OpenEditor
    PROVE  Tables' /\ Edits'
<1>1. open \subseteq RuleTabs /\ active \in open /\ active \in RuleTabs /\ TablesTyped
  BY DEF Tables, TablesTyped
<1>2. PICK new : new = [session |-> active, shown |-> TRUE, local |-> config[active],
                        baseline |-> config[active], current |-> Selected(1, config[active]), cols |-> cols[active]]
  OBVIOUS
<1>3. PICK e : e = IF editor = NoEditor THEN new ELSE editor
  OBVIOUS
<1>4. PICK u : u = [editor |-> e, draft |-> drafts]
  OBVIOUS
<1>5. PICK s : s = RestoreHighlightRulesEditorDraft(u, active)
  OBVIOUS
<1>6. PICK f : f = [s.editor EXCEPT !.shown = TRUE]
  OBVIOUS
<1>7. /\ editor' = f /\ drafts' = s.draft
      /\ typed' = [typed EXCEPT ![active] = IF @ = Nothing THEN @ ELSE <<Seen(s.editor.local)>>]
      /\ UNCHANGED <<open, active, cols, rows, config, rules, missed, blanked, dropped>>
  <2>1. [Here EXCEPT !.editor = e] = u
    BY <1>4 DEF Here
  <2> QED BY <1>2, <1>3, <1>5, <1>6, <2>1 DEF OpenEditor
<1>8. Tables'
  BY <1>1, <1>7, TablesStay
<1>9. IsBuffer(e)
  <2>1. CASE editor = NoEditor
    <3>1. config[active] \in Seq(HighlightRule) /\ cols[active] \in Seq(Columns)
      BY <1>1 DEF TablesTyped
    <3>2. Selected(1, config[active]) \in 0 .. Len(config[active]) /\ Len(config[active]) \in Nat
      <4>1. 1 \in Nat /\ Len(config[active]) \in Nat
        BY <3>1
      <4> QED BY <3>1, <4>1, SelectedWithin
    <3>3. new \in EditorBuffer /\ new.current <= Len(new.local)
      BY <1>1, <1>2, <3>1, <3>2 DEF EditorBuffer
    <3> QED BY <1>3, <2>1, <3>3 DEF IsBuffer
  <2>2. CASE editor # NoEditor
    BY <1>3, <2>2, EditsSay DEF EditsSafe
  <2> QED BY <2>1, <2>2
<1>10. drafts \in [RuleTabs -> EditorDraft \cup {NoDraft}]
  BY EditsSay DEF EditsSafe
<1>11. PICK d : d = DraftFor(u, active)
  OBVIOUS
<1>12. HoldsDraft(s.editor, d, active) /\ s.draft = drafts
  <2>1. u.editor = e /\ u.draft = drafts /\ u = [editor |-> u.editor, draft |-> u.draft]
    BY <1>4
  <2>2. s = [editor |-> s.editor, draft |-> u.draft] /\ HoldsDraft(s.editor, DraftFor(u, active), active)
    BY <1>1, <1>5, <1>9, <1>10, <2>1, Restores
  <2> QED BY <1>11, <2>1, <2>2
<1>13. IsBuffer(f) /\ f.session = active /\ f.local = s.editor.local /\ f.local = d.local /\ f.baseline = d.baseline
  BY <1>6, <1>12 DEF HoldsDraft, IsBuffer, EditorBuffer
<1>14. f # NoEditor
  BY <1>13, RuleAssumption DEF IsBuffer
<1>15. PICK r : r = [editor |-> f, draft |-> drafts]
  OBVIOUS
<1>16. r.editor = f /\ r.draft = drafts /\ \A v : Held(r, v) <=> v = active
  BY <1>13, <1>14, <1>15 DEF Held
<1>17. \A v : Held(Here, v) => v = active
  BY EditsSay DEF Held
<1>18. u.draft = drafts
  BY <1>4
<1>19. ASSUME NEW v \in RuleTabs, ~blanked[v]
       PROVE  /\ Held(r, v) => r.editor.baseline = config[v]
              /\ r.draft[v] # NoDraft => r.draft[v].baseline = config[v]
  <2>1. drafts[v] # NoDraft => drafts[v].baseline = config[v]
    BY <1>19, EditsSay DEF EditsSafe
  <2>2. v = active => d.baseline = config[v]
    <3>1. CASE drafts[active] # NoDraft
      BY <1>11, <1>18, <2>1, <3>1 DEF DraftFor
    <3>2. CASE drafts[active] = NoDraft
      <4>1. config[active] \in Seq(HighlightRule)
        BY <1>1 DEF TablesTyped
      <4> QED BY <1>11, <1>18, <3>2, <4>1, CommittedIsDraft DEF DraftFor
    <3> QED BY <3>1, <3>2
  <2> QED BY <1>13, <1>16, <2>1, <2>2
<1>20. ASSUME NEW v \in RuleTabs, typed'[v] # Nothing
       PROVE  IF Held(r, v) THEN typed'[v] = <<Seen(r.editor.local)>>
              ELSE r.draft[v] # NoDraft /\ typed'[v] = <<Seen(r.draft[v].local)>>
  <2>1. CASE v = active
    <3>1. typed'[v] = <<Seen(s.editor.local)>>
      BY <1>7, <1>20, <2>1, EditsSay
    <3> QED BY <1>13, <1>16, <2>1, <3>1
  <2>2. CASE v # active
    <3>1. typed'[v] = typed[v] /\ ~Held(Here, v)
      BY <1>7, <1>17, <2>2, EditsSay
    <3>2. drafts[v] # NoDraft /\ typed[v] = <<Seen(drafts[v].local)>>
      BY <1>20, <3>1, EditsSay DEF EditsSafe
    <3> QED BY <1>16, <2>2, <3>1, <3>2
  <2> QED BY <2>1, <2>2
<1>21. EditsSafe(r, typed', config, blanked)
  BY <1>10, <1>13, <1>15, <1>16, <1>19, <1>20 DEF EditsSafe
<1>22. /\ r.editor = editor' /\ r.draft = drafts' /\ EditsSafe(r, typed', config', blanked')
       /\ DOMAIN typed' = RuleTabs /\ (editor' # NoEditor => editor'.session = active') /\ ~dropped'
  BY <1>7, <1>12, <1>13, <1>16, <1>21, EditsSay
<1>23. Edits'
  BY <1>22, EditsAre
<1> QED BY <1>8, <1>23

(* Every edit leaves a buffer of the same tab, with the same baseline.     *)
LEMMA EditedStep ==
    ASSUME Tables, Edits, editor # NoEditor, NEW e, IsBuffer(e), e.session = editor.session,
           e.baseline = editor.baseline, Edited(e)
    PROVE  Tables' /\ Edits'
<1>1. open \subseteq RuleTabs /\ active \in open
  BY DEF Tables, TablesTyped
<1>2. /\ editor' = e /\ typed' = [typed EXCEPT ![e.session] = <<Seen(e.local)>>]
      /\ UNCHANGED <<open, active, cols, rows, config, rules, drafts, missed, blanked, dropped>>
  BY DEF Edited
<1>3. Tables'
  BY <1>1, <1>2, TablesStay
<1>4. PICK r : r = [editor |-> e, draft |-> drafts]
  OBVIOUS
<1>5. PICK ty : ty = [typed EXCEPT ![e.session] = <<Seen(e.local)>>]
  OBVIOUS
<1>6. EditsSafe(r, ty, config, blanked) /\ e # NoEditor /\ DOMAIN ty = RuleTabs
  BY <1>4, <1>5, EditsSay, EditedSafe
<1>7. r.editor = editor' /\ r.draft = drafts'
  BY <1>2, <1>4
<1>8. EditsSafe(r, typed', config', blanked') /\ DOMAIN typed' = RuleTabs /\ ~dropped'
      /\ (editor' # NoEditor => editor'.session = active')
  BY <1>2, <1>5, <1>6, EditsSay
<1>9. Edits'
  BY <1>7, <1>8, EditsAre
<1> QED BY <1>3, <1>9

(* RebuildList after the list was changed.                                 *)
LEMMA ListChanged ==
    ASSUME NEW b, IsBuffer(b), NEW rs \in Seq(HighlightRule), NEW row \in Nat,
           NEW f, f = RebuildList([b EXCEPT !.local = rs], row)
    PROVE  IsBuffer(f) /\ f.session = b.session /\ f.baseline = b.baseline /\ f.local = rs
<1>1. PICK e : e = [b EXCEPT !.local = rs]
  OBVIOUS
<1>2. e \in EditorBuffer /\ e.session = b.session /\ e.baseline = b.baseline /\ e.local = rs
  BY <1>1 DEF IsBuffer, EditorBuffer
<1>3. SameBuffer(e, f)
  BY <1>1, <1>2, Rebuilt
<1> QED BY <1>2, <1>3 DEF SameBuffer

(* What the invariant says of the open editor.                             *)
LEMMA BufferHere ==
    ASSUME Edits, editor # NoEditor
    PROVE  /\ IsBuffer(editor) /\ editor \in EditorBuffer /\ editor.session \in RuleTabs /\ editor.session = active
           /\ editor.local \in Seq(HighlightRule) /\ Len(editor.local) \in Nat /\ editor.baseline \in Seq(HighlightRule)
           /\ editor.current \in 0 .. Len(editor.local) /\ editor.cols \in Seq(Columns)
<1>1. IsBuffer(editor) /\ editor.session = active
  BY EditsSay DEF EditsSafe
<1> QED BY <1>1 DEF IsBuffer, EditorBuffer

-----------------------------------------------------------------------------
(* The user edits rules.                                                   *)

(* An edit that changes the list keeps the invariant.                      *)
LEMMA ListStep ==
    ASSUME Tables, Edits, editor # NoEditor, NEW rs \in Seq(HighlightRule), NEW row \in Nat,
           Edited(RebuildList([editor EXCEPT !.local = rs], row))
    PROVE  Tables' /\ Edits'
<1>1. PICK f : f = RebuildList([editor EXCEPT !.local = rs], row)
  OBVIOUS
<1>2. IsBuffer(f) /\ f.session = editor.session /\ f.baseline = editor.baseline
  BY <1>1, BufferHere, ListChanged
<1>3. Edited(f)
  BY <1>1
<1> QED BY <1>2, <1>3, EditedStep

(* OnNewClicked and OnDuplicateClicked keep the invariant.                 *)
LEMMA RuleAdded ==
    ASSUME Tables, Edits, OnNewClicked \/ OnDuplicateClicked
    PROVE  Tables' /\ Edits'
<1>1. CASE OnNewClicked
  <2>1. editor # NoEditor /\ Edited(RebuildList([editor EXCEPT !.local = Append(@, NewRule)], Len(editor.local) + 1))
    BY <1>1 DEF OnNewClicked, Showing
  <2>2. NewRule \in HighlightRule
    <3>1. PICK keys : keys = IF editor.cols = <<>> THEN <<>> ELSE FirstKey(editor.cols[1])
      OBVIOUS
    <3>2. keys \in Seq(STRING)
      <4>1. CASE editor.cols = <<>>
        BY <3>1, <4>1
      <4>2. CASE editor.cols # <<>>
        <5>1. editor.cols[1] \in Seq(STRING)
          BY <2>1, <4>2, BufferHere, EmptySeq DEF Columns
        <5> QED BY <3>1, <4>2, <5>1, FirstKeyTyped
      <4> QED BY <4>1, <4>2
    <3>3. NewRule = [keys |-> keys, needle |-> "", enabled |-> TRUE]
      BY <3>1 DEF NewRule
    <3>4. "" \in RuleNeedles
      BY RuleAssumption
    <3> QED BY <3>2, <3>3, <3>4 DEF HighlightRule
  <2>3. PICK rs : rs = Append(editor.local, NewRule)
    OBVIOUS
  <2>4. rs \in Seq(HighlightRule)
    BY <2>1, <2>2, <2>3, BufferHere
  <2>5. [editor EXCEPT !.local = Append(@, NewRule)] = [editor EXCEPT !.local = rs]
    BY <2>1, <2>3, BufferHere DEF EditorBuffer
  <2>6. PICK n \in Nat : n = Len(editor.local) + 1
    BY <2>1, BufferHere
  <2>7. Edited(RebuildList([editor EXCEPT !.local = rs], n))
    BY <2>1, <2>5, <2>6
  <2> QED BY <2>1, <2>4, <2>7, ListStep
<1>2. CASE OnDuplicateClicked
  <2>1. /\ editor # NoEditor /\ editor.current > 0
        /\ Edited(RebuildList([editor EXCEPT !.local = InsertAt(@, editor.current + 1, editor.local[editor.current])],
                              editor.current + 1))
    BY <1>2 DEF OnDuplicateClicked, Showing
  <2>2. PICK rs : rs = InsertAt(editor.local, editor.current + 1, editor.local[editor.current])
    OBVIOUS
  <2>3. rs \in Seq(HighlightRule)
    <3>1. PICK l, i : l = editor.local /\ i = editor.current
      OBVIOUS
    <3>2. l \in Seq(HighlightRule) /\ i \in 1 .. Len(l) /\ Len(l) \in Nat
      BY <2>1, <3>1, BufferHere
    <3>3. SubSeq(l, 1, (i + 1) - 1) \in Seq(HighlightRule) /\ SubSeq(l, i + 1, Len(l)) \in Seq(HighlightRule)
      BY <3>2
    <3>4. <<l[i]>> \in Seq(HighlightRule)
      BY <3>2
    <3>5. rs = SubSeq(l, 1, (i + 1) - 1) \o <<l[i]>> \o SubSeq(l, i + 1, Len(l))
      BY <2>2, <3>1 DEF InsertAt
    <3> QED BY <3>3, <3>4, <3>5
  <2>4. [editor EXCEPT !.local = InsertAt(@, editor.current + 1, editor.local[editor.current])] = [editor EXCEPT !.local = rs]
    BY <2>1, <2>2, BufferHere DEF EditorBuffer
  <2>5. PICK n \in Nat : n = editor.current + 1
    BY <2>1, BufferHere
  <2>6. Edited(RebuildList([editor EXCEPT !.local = rs], n))
    BY <2>1, <2>4, <2>5
  <2> QED BY <2>1, <2>3, <2>6, ListStep
<1> QED BY <1>1, <1>2

(* OnDeleteClicked keeps the invariant.                                    *)
LEMMA RuleDeleted ==
    ASSUME Tables, Edits, OnDeleteClicked
    PROVE  Tables' /\ Edits'
<1>1. /\ editor # NoEditor /\ editor.current > 0
      /\ Edited(RebuildList([editor EXCEPT !.local = RemoveAt(@, editor.current)], editor.current))
  BY DEF OnDeleteClicked, Showing
<1>2. PICK rs : rs = RemoveAt(editor.local, editor.current)
  OBVIOUS
<1>3. rs \in Seq(HighlightRule)
  <2>1. PICK l, i : l = editor.local /\ i = editor.current
    OBVIOUS
  <2>2. l \in Seq(HighlightRule) /\ i \in 1 .. Len(l) /\ Len(l) \in Nat
    BY <1>1, <2>1, BufferHere
  <2>3. SubSeq(l, 1, i - 1) \in Seq(HighlightRule) /\ SubSeq(l, i + 1, Len(l)) \in Seq(HighlightRule)
    BY <2>2
  <2>4. rs = SubSeq(l, 1, i - 1) \o SubSeq(l, i + 1, Len(l))
    BY <1>2, <2>1 DEF RemoveAt
  <2> QED BY <2>3, <2>4
<1>4. [editor EXCEPT !.local = RemoveAt(@, editor.current)] = [editor EXCEPT !.local = rs]
  BY <1>1, <1>2, BufferHere DEF EditorBuffer
<1>5. Edited(RebuildList([editor EXCEPT !.local = rs], editor.current)) /\ editor.current \in Nat
  BY <1>1, <1>4, BufferHere
<1> QED BY <1>1, <1>3, <1>5, ListStep

(* OnMoveUpClicked and OnMoveDownClicked keep the invariant.               *)
LEMMA RuleMoved ==
    ASSUME Tables, Edits, NEW to \in 1 .. MaxRules, OnMoveClicked(to)
    PROVE  Tables' /\ Edits'
<1>1. PICK i, l : i = editor.current /\ l = editor.local
  OBVIOUS
<1>2. /\ editor # NoEditor /\ i > 0 /\ to \in {i - 1, i + 1} \cap DOMAIN l
      /\ Edited(RebuildList([editor EXCEPT !.local[i] = l[to], !.local[to] = l[i]], to))
  BY <1>1 DEF OnMoveClicked, Showing
<1>3. l \in Seq(HighlightRule) /\ i \in 1 .. Len(l) /\ to \in 1 .. Len(l) /\ Len(l) \in Nat /\ to \in Nat
  BY <1>1, <1>2, BufferHere
<1>4. PICK k : k = [l EXCEPT ![i] = l[to]]
  OBVIOUS
<1>5. k \in Seq(HighlightRule) /\ Len(k) = Len(l)
  BY <1>3, <1>4, ExceptSeq
<1>6. PICK rs : rs = [k EXCEPT ![to] = l[i]]
  OBVIOUS
<1>7. rs \in Seq(HighlightRule)
  BY <1>3, <1>5, <1>6, ExceptSeq
<1>8. [editor EXCEPT !.local[i] = l[to], !.local[to] = l[i]] = [editor EXCEPT !.local = rs]
  BY <1>1, <1>2, <1>4, <1>6, BufferHere DEF EditorBuffer
<1>9. Edited(RebuildList([editor EXCEPT !.local = rs], to))
  BY <1>2, <1>8
<1> QED BY <1>2, <1>3, <1>7, <1>9, ListStep

(* OnRevertClicked keeps the invariant.                                    *)
LEMMA RulesReverted ==
    ASSUME Tables, Edits, OnRevertClicked
    PROVE  Tables' /\ Edits'
<1>1. editor # NoEditor /\ Edited(RebuildList([editor EXCEPT !.local = editor.baseline], editor.current))
  BY DEF OnRevertClicked, Showing
<1>2. PICK rs : rs = editor.baseline
  OBVIOUS
<1>3. rs \in Seq(HighlightRule) /\ editor.current \in Nat
  BY <1>1, <1>2, BufferHere
<1>4. Edited(RebuildList([editor EXCEPT !.local = rs], editor.current))
  BY <1>1, <1>2
<1> QED BY <1>1, <1>3, <1>4, ListStep

(* The rule the form shows is replaced.                                    *)
LEMMA RuleReplaced ==
    ASSUME NEW b, IsBuffer(b), b.current > 0, NEW rule \in HighlightRule,
           NEW f, f = [b EXCEPT !.local[b.current] = rule]
    PROVE  IsBuffer(f) /\ f.session = b.session /\ f.baseline = b.baseline
<1>1. PICK i, l : i = b.current /\ l = b.local
  OBVIOUS
<1>2. l \in Seq(HighlightRule) /\ i \in 1 .. Len(l) /\ b \in EditorBuffer
  BY <1>1 DEF IsBuffer, EditorBuffer
<1>3. PICK rs : rs = [l EXCEPT ![i] = rule]
  OBVIOUS
<1>4. rs \in Seq(HighlightRule) /\ Len(rs) = Len(l)
  BY <1>2, <1>3, ExceptSeq
<1>5. f = [b EXCEPT !.local = rs]
  BY <1>1, <1>2, <1>3 DEF EditorBuffer
<1> QED BY <1>1, <1>2, <1>4, <1>5 DEF IsBuffer, EditorBuffer

(* OnFieldEdited keeps the invariant.                                      *)
LEMMA FieldEdited ==
    ASSUME Tables, Edits, NEW needle \in RuleNeedles, NEW enabled \in BOOLEAN, OnFieldEdited(needle, enabled)
    PROVE  Tables' /\ Edits'
<1>1. PICK b : b = [editor EXCEPT !.local[editor.current] = [@ EXCEPT !.needle = needle, !.enabled = enabled]]
  OBVIOUS
<1>2. editor # NoEditor /\ editor.current > 0 /\ Edited(GatherForm(b))
  BY <1>1 DEF OnFieldEdited, Showing
<1>3. PICK old : old = editor.local[editor.current]
  OBVIOUS
<1>4. PICK rule : rule = [old EXCEPT !.needle = needle, !.enabled = enabled]
  OBVIOUS
<1>5. rule \in HighlightRule
  <2>1. editor.local \in Seq(HighlightRule) /\ editor.current \in 1 .. Len(editor.local)
    BY <1>2, BufferHere
  <2>2. old \in HighlightRule
    BY <1>3, <2>1
  <2> QED BY <1>4, <2>2 DEF HighlightRule
<1>6. b = [editor EXCEPT !.local[editor.current] = rule]
  BY <1>1, <1>2, <1>3, <1>4, BufferHere DEF EditorBuffer
<1>7. IsBuffer(b) /\ b.session = editor.session /\ b.baseline = editor.baseline
  BY <1>2, <1>5, <1>6, BufferHere, RuleReplaced
<1>8. PICK e : e = GatherForm(b)
  OBVIOUS
<1>9. IsBuffer(e) /\ e.session = editor.session /\ e.baseline = editor.baseline
  BY <1>7, <1>8, Gathered DEF SameText
<1>10. Edited(e)
  BY <1>2, <1>8
<1> QED BY <1>2, <1>9, <1>10, EditedStep

(* OnColumnChanged keeps the invariant.                                    *)
LEMMA ColumnChanged ==
    ASSUME Tables, Edits, NEW i \in Nat, OnColumnChanged(i)
    PROVE  Tables' /\ Edits'
<1>1. PICK keys : keys = IF i = 0 THEN <<>> ELSE FirstKey(editor.cols[i])
  OBVIOUS
<1>2. /\ editor # NoEditor /\ editor.current > 0 /\ i \in 0 .. Len(editor.cols)
      /\ Edited([editor EXCEPT !.local[editor.current].keys = keys])
  BY <1>1 DEF OnColumnChanged, Showing
<1>3. keys \in Seq(STRING)
  <2>1. CASE i = 0
    BY <1>1, <2>1
  <2>2. CASE i # 0
    <3>1. editor.cols[i] \in Seq(STRING)
      BY <1>2, <2>2, BufferHere DEF Columns
    <3> QED BY <1>1, <2>2, <3>1, FirstKeyTyped
  <2> QED BY <2>1, <2>2
<1>4. PICK old : old = editor.local[editor.current]
  OBVIOUS
<1>5. PICK rule : rule = [old EXCEPT !.keys = keys]
  OBVIOUS
<1>6. rule \in HighlightRule
  <2>1. editor.local \in Seq(HighlightRule) /\ editor.current \in 1 .. Len(editor.local)
    BY <1>2, BufferHere
  <2>2. old \in HighlightRule
    BY <1>4, <2>1
  <2> QED BY <1>3, <1>5, <2>2 DEF HighlightRule
<1>7. PICK e : e = [editor EXCEPT !.local[editor.current] = rule]
  OBVIOUS
<1>8. e = [editor EXCEPT !.local[editor.current].keys = keys]
  BY <1>2, <1>4, <1>5, <1>7, BufferHere DEF EditorBuffer
<1>9. IsBuffer(e) /\ e.session = editor.session /\ e.baseline = editor.baseline
  BY <1>2, <1>6, <1>7, BufferHere, RuleReplaced
<1>10. Edited(e)
  BY <1>2, <1>8
<1> QED BY <1>2, <1>9, <1>10, EditedStep

(* OnSelectionChanged keeps the invariant.                                 *)
LEMMA SelectionChanged ==
    ASSUME Tables, Edits, NEW row \in 1 .. MaxRules, OnSelectionChanged(row)
    PROVE  Tables' /\ Edits'
<1>1. /\ editor # NoEditor /\ row \in DOMAIN editor.local /\ editor' = [editor EXCEPT !.current = row]
      /\ UNCHANGED <<open, active, cols, rows, config, rules, drafts, typed, missed, blanked, dropped>>
  BY DEF OnSelectionChanged, Showing
<1>2. open \subseteq RuleTabs /\ active \in open
  BY DEF Tables, TablesTyped
<1>3. Tables'
  BY <1>1, <1>2, TablesStay
<1>4. PICK e : e = [editor EXCEPT !.current = row]
  OBVIOUS
<1>5. SameText(editor, e)
  <2>1. row \in 1 .. Len(editor.local)
    BY <1>1, BufferHere
  <2>2. e \in EditorBuffer /\ e.current = row /\ e.local = editor.local /\ e.session = editor.session /\ e.baseline = editor.baseline
    BY <1>1, <1>4, <2>1, BufferHere DEF EditorBuffer
  <2> QED BY <1>1, <2>1, <2>2, BufferHere DEF SameText, IsBuffer
<1>6. PICK r : r = [Here EXCEPT !.editor = e]
  OBVIOUS
<1>7. EditsSafe(r, typed, config, blanked) /\ Held(r, editor.session)
  BY <1>1, <1>5, <1>6, EditsSay, SameTextSafe
<1>8. r.editor = editor' /\ r.draft = drafts'
  BY <1>1, <1>4, <1>6 DEF Here
<1>9. EditsSafe(r, typed', config', blanked') /\ DOMAIN typed' = RuleTabs /\ ~dropped'
      /\ (editor' # NoEditor => editor'.session = active')
  BY <1>1, <1>4, <1>5, <1>7, EditsSay DEF SameText
<1>10. Edits'
  BY <1>8, <1>9, EditsAre
<1> QED BY <1>3, <1>10

-----------------------------------------------------------------------------
(* Rules are saved, the editor closes, and the theorem.                    *)

(* OnSaveClicked keeps the invariant: the configuration, the painted rules *)
(* and the baseline are the same list.                                     *)
LEMMA RulesAreSaved ==
    ASSUME Tables, Edits, OnSaveClicked
    PROVE  Tables' /\ Edits'
<1>1. editor # NoEditor
  BY DEF OnSaveClicked, Showing
<1>2. PICK t : t = active
  OBVIOUS
<1>3. /\ IsBuffer(editor) /\ editor \in EditorBuffer /\ editor.session = t /\ t \in RuleTabs
      /\ editor.local \in Seq(HighlightRule) /\ t = active
  BY <1>1, <1>2, BufferHere
<1>4. PICK e : e = [editor EXCEPT !.baseline = editor.local]
  OBVIOUS
<1>5. e \in EditorBuffer /\ IsBuffer(e) /\ e.session = t /\ e.local = editor.local /\ e.baseline = editor.local
  BY <1>3, <1>4 DEF EditorBuffer, IsBuffer
<1>6. PICK u : u = [Here EXCEPT !.editor = e]
  OBVIOUS
<1>7. PICK s : s = CaptureHighlightRulesEditorDraft(u)
  OBVIOUS
<1>8. PICK h : h = SetRules(e.local, cols[t], rows[t])
  OBVIOUS
<1>9. /\ config' = [config EXCEPT ![t] = e.local] /\ rules' = [rules EXCEPT ![t] = h]
      /\ missed' = [missed EXCEPT ![t] = FALSE] /\ blanked' = [blanked EXCEPT ![t] = FALSE]
      /\ editor' = s.editor /\ drafts' = s.draft
      /\ typed' = [typed EXCEPT ![t] = <<Seen(e.local)>>]
      /\ UNCHANGED <<open, active, cols, rows, dropped>>
  BY <1>4, <1>5, <1>6, <1>7, <1>8 DEF OnSaveClicked, SavedRules
<1>10. open \subseteq RuleTabs /\ active \in open /\ TablesTyped
  BY DEF Tables, TablesTyped
<1>11. Tables'
  <2>1. cols[t] \in Seq(Columns) /\ rows[t] \in Seq(LogRows) /\ e.local \in Seq(HighlightRule)
    BY <1>3, <1>5, <1>10 DEF TablesTyped
  <2>2. h \in RuleSet /\ h.rules = e.local /\ (h.rules = <<>> => h.compiled = <<>>) /\ Right(h, cols[t], rows[t])
    <3>1. PICK rs, columns, table : rs = e.local /\ columns = cols[t] /\ table = rows[t]
      OBVIOUS
    <3>2. rs \in Seq(HighlightRule) /\ columns \in Seq(Columns) /\ table \in Seq(LogRows) /\ h = SetRules(rs, columns, table)
      BY <1>8, <2>1, <3>1
    <3>3. h \in RuleSet /\ h.rules = rs /\ (rs = <<>> => h.compiled = <<>>) /\ PaintsAlike(h, columns) /\ Painted(h, columns, table)
      BY <3>2, SetRulesRight
    <3> QED BY <3>1, <3>3 DEF Right
  <2>3. cols' = [cols EXCEPT ![t] = cols[t]] /\ rows' = [rows EXCEPT ![t] = rows[t]]
    BY <1>9, <1>10 DEF TablesTyped
  <2>4. open' \subseteq RuleTabs /\ active' \in open'
    BY <1>9, <1>10
  <2> QED BY <1>3, <1>9, <2>1, <2>2, <2>3, <2>4, OneTab
<1>12. u = [editor |-> e, draft |-> drafts] /\ u.editor = e /\ u.draft = drafts /\ e # NoEditor
  BY <1>5, <1>6, RuleAssumption DEF Here
<1>13. PICK free : free = [blanked EXCEPT ![t] = TRUE]
  OBVIOUS
<1>14. DOMAIN blanked = RuleTabs /\ DOMAIN config = RuleTabs /\ DOMAIN typed = RuleTabs
  BY <1>10, EditsSay DEF TablesTyped
<1>15. \A v : (Held(u, v) <=> v = t) /\ (Held(Here, v) <=> v = t)
  BY <1>1, <1>3, <1>5, <1>12, EditsSay DEF Held
<1>16. EditsSafe(u, typed', config', free)
  <2>1. ASSUME NEW v \in RuleTabs, ~free[v]
        PROVE  /\ Held(u, v) => u.editor.baseline = config'[v]
               /\ u.draft[v] # NoDraft => u.draft[v].baseline = config'[v]
    <3>1. v # t /\ ~blanked[v] /\ config'[v] = config[v]
      BY <1>9, <1>13, <1>14, <2>1
    <3>2. drafts[v] # NoDraft => drafts[v].baseline = config[v]
      BY <3>1, EditsSay DEF EditsSafe
    <3> QED BY <1>12, <1>15, <3>1, <3>2
  <2>2. ASSUME NEW v \in RuleTabs, typed'[v] # Nothing
        PROVE  IF Held(u, v) THEN typed'[v] = <<Seen(u.editor.local)>>
               ELSE u.draft[v] # NoDraft /\ typed'[v] = <<Seen(u.draft[v].local)>>
    <3>1. CASE v = t
      BY <1>9, <1>12, <1>14, <1>15, <3>1
    <3>2. CASE v # t
      <4>1. typed'[v] = typed[v]
        BY <1>9, <1>14, <3>2
      <4>2. drafts[v] # NoDraft /\ typed[v] = <<Seen(drafts[v].local)>>
        BY <1>15, <2>2, <3>2, <4>1, EditsSay DEF EditsSafe
      <4> QED BY <1>12, <1>15, <3>2, <4>1, <4>2
    <3> QED BY <3>1, <3>2
  <2>3. drafts \in [RuleTabs -> EditorDraft \cup {NoDraft}]
    BY EditsSay DEF EditsSafe
  <2> QED BY <1>5, <1>12, <2>1, <2>2, <2>3 DEF EditsSafe
<1>17. PICK ty, cz : ty = typed' /\ cz = config'
  OBVIOUS
<1>18. /\ EditsSafe(s, ty, cz, free) /\ Held(s, t) /\ SameText(e, s.editor)
       /\ s.draft = [drafts EXCEPT ![t] = DraftOf(s.editor)]
  <2>1. EditsSafe(u, ty, cz, free)
    BY <1>16, <1>17
  <2> QED BY <1>5, <1>7, <1>12, <2>1, Captures
<1>19. IsBuffer(s.editor) /\ s.editor.baseline = e.local /\ s.editor # NoEditor /\ s.editor.session = t
  BY <1>5, <1>18 DEF SameText, Held
<1>20. s.draft[t].baseline = e.local
  <2>1. drafts \in [RuleTabs -> EditorDraft \cup {NoDraft}]
    BY EditsSay DEF EditsSafe
  <2>2. s.draft[t] = DraftOf(s.editor)
    BY <1>3, <1>18, <2>1
  <2> QED BY <1>19, <2>2, DraftIsDraft
<1>21. EditsSafe(s, typed', config', blanked')
  <2>1. ASSUME NEW v \in RuleTabs, ~blanked'[v]
        PROVE  /\ Held(s, v) => s.editor.baseline = config'[v]
               /\ s.draft[v] # NoDraft => s.draft[v].baseline = config'[v]
    <3>1. CASE v = t
      BY <1>9, <1>14, <1>19, <1>20, <3>1
    <3>2. CASE v # t
      <4>1. ~free[v]
        BY <1>9, <1>13, <1>14, <2>1, <3>2
      <4> QED BY <1>17, <1>18, <4>1 DEF EditsSafe
    <3> QED BY <3>1, <3>2
  <2> QED BY <1>17, <1>18, <2>1 DEF EditsSafe
<1>22. DOMAIN typed' = RuleTabs /\ ~dropped' /\ (editor' # NoEditor => editor'.session = active')
  BY <1>3, <1>9, <1>14, <1>19, EditsSay
<1>23. Edits'
  BY <1>9, <1>21, <1>22, EditsAre
<1> QED BY <1>11, <1>23

(* A draft may go while the buffer is bound to its tab.                    *)
LEMMA DraftDropped ==
    ASSUME NEW s, NEW t \in RuleTabs, NEW ty, NEW cf, NEW bl, EditsSafe(s, ty, cf, bl), Held(s, t),
           NEW r, r = [editor |-> s.editor, draft |-> [s.draft EXCEPT ![t] = NoDraft]]
    PROVE  EditsSafe(r, ty, cf, bl)
<1>1. r.editor = s.editor /\ r.draft = [s.draft EXCEPT ![t] = NoDraft] /\ s.draft \in [RuleTabs -> EditorDraft \cup {NoDraft}]
  BY DEF EditsSafe
<1>2. r.draft[t] = NoDraft /\ \A v \in RuleTabs \ {t} : r.draft[v] = s.draft[v]
  BY <1>1
<1>3. \A v : Held(r, v) <=> Held(s, v)
  BY <1>1 DEF Held
<1>4. ASSUME NEW v \in RuleTabs, ~bl[v]
      PROVE  /\ Held(r, v) => r.editor.baseline = cf[v]
             /\ r.draft[v] # NoDraft => r.draft[v].baseline = cf[v]
  BY <1>1, <1>2, <1>3, <1>4 DEF EditsSafe
<1>5. ASSUME NEW v \in RuleTabs, ty[v] # Nothing
      PROVE  IF Held(r, v) THEN ty[v] = <<Seen(r.editor.local)>>
             ELSE r.draft[v] # NoDraft /\ ty[v] = <<Seen(r.draft[v].local)>>
  BY <1>1, <1>2, <1>3, <1>5 DEF EditsSafe
<1>6. r = [editor |-> r.editor, draft |-> r.draft] /\ r.draft \in [RuleTabs -> EditorDraft \cup {NoDraft}]
      /\ (r.editor # NoEditor => IsBuffer(r.editor))
  BY <1>1 DEF EditsSafe
<1> QED BY <1>4, <1>5, <1>6 DEF EditsSafe

(* closeEvent keeps the invariant: what the user agreed to drop is dropped *)
(* from the buffer and the draft.                                          *)
LEMMA EditorClosed ==
    ASSUME Tables, Edits, CloseEditor
    PROVE  Tables' /\ Edits'
<1>1. PICK e : e = GatherForm(editor)
  OBVIOUS
<1>2. PICK f : f = [RebuildList([e EXCEPT !.local = e.baseline], e.current) EXCEPT !.shown = FALSE]
  OBVIOUS
<1>3. PICK g : g = [e EXCEPT !.shown = FALSE]
  OBVIOUS
<1>4. PICK d \in BOOLEAN : d <=> e.local # e.baseline
  OBVIOUS
<1>5. /\ editor # NoEditor /\ editor' = IF d THEN f ELSE g
      /\ drafts' = IF d THEN [drafts EXCEPT ![e.session] = NoDraft] ELSE drafts
      /\ typed' = [typed EXCEPT ![e.session] = IF d THEN <<Seen(e.baseline)>> ELSE @]
      /\ UNCHANGED <<open, active, cols, rows, config, rules, missed, blanked, dropped>>
  BY <1>1, <1>2, <1>3, <1>4 DEF CloseEditor, Showing
<1>6. open \subseteq RuleTabs /\ active \in open
  BY DEF Tables, TablesTyped
<1>7. Tables'
  BY <1>5, <1>6, TablesStay
<1>8. SameText(editor, e) /\ IsBuffer(editor) /\ editor.session = active /\ editor.session \in RuleTabs
  BY <1>1, <1>5, BufferHere, Gathered
<1>9. IsBuffer(e) /\ e.session = active /\ e.session = editor.session /\ e.baseline = editor.baseline
      /\ Seen(e.local) = Seen(editor.local)
  BY <1>8 DEF SameText
<1>10. CASE d
  <2>1. PICK b : b = RebuildList([e EXCEPT !.local = e.baseline], e.current)
    OBVIOUS
  <2>2. e.baseline \in Seq(HighlightRule) /\ e.current \in Nat
    BY <1>9 DEF IsBuffer, EditorBuffer
  <2>3. IsBuffer(b) /\ b.session = e.session /\ b.baseline = e.baseline /\ b.local = e.baseline
    BY <1>9, <2>1, <2>2, ListChanged
  <2>4. f = [b EXCEPT !.shown = FALSE]
    BY <1>2, <2>1
  <2>5. IsBuffer(f) /\ f.session = e.session /\ f.baseline = e.baseline /\ f.local = e.baseline
    BY <2>3, <2>4 DEF IsBuffer, EditorBuffer
  <2>6. PICK s : s = [editor |-> f, draft |-> drafts]
    OBVIOUS
  <2>7. PICK ty : ty = [typed EXCEPT ![f.session] = <<Seen(f.local)>>]
    OBVIOUS
  <2>8. EditsSafe(s, ty, config, blanked) /\ f # NoEditor /\ DOMAIN ty = RuleTabs
    BY <1>5, <1>9, <2>5, <2>6, <2>7, EditsSay, EditedSafe
  <2>9. typed' = ty /\ editor' = f
    BY <1>5, <1>10, <2>5, <2>7
  <2>10. Held(s, active) /\ s.editor = f /\ s.draft = drafts
    BY <1>9, <2>5, <2>6, <2>8 DEF Held
  <2>11. PICK r : r = [editor |-> s.editor, draft |-> [s.draft EXCEPT ![active] = NoDraft]]
    OBVIOUS
  <2>12. EditsSafe(r, ty, config, blanked)
    BY <1>8, <2>8, <2>10, <2>11, DraftDropped
  <2>13. r.editor = editor' /\ r.draft = drafts'
    BY <1>5, <1>9, <1>10, <2>9, <2>10, <2>11
  <2>14. EditsSafe(r, typed', config', blanked') /\ DOMAIN typed' = RuleTabs /\ ~dropped'
         /\ (editor' # NoEditor => editor'.session = active')
    BY <1>5, <1>9, <2>5, <2>8, <2>9, <2>12, EditsSay
  <2>15. Edits'
    BY <2>13, <2>14, EditsAre
  <2> QED BY <1>7, <2>15
<1>11. CASE ~d
  <2>1. SameText(editor, g)
    <3>1. IsBuffer(g) /\ g.session = e.session /\ g.baseline = e.baseline /\ g.local = e.local
      BY <1>3, <1>9 DEF IsBuffer, EditorBuffer
    <3> QED BY <1>9, <3>1 DEF SameText
  <2>2. PICK r : r = [Here EXCEPT !.editor = g]
    OBVIOUS
  <2>3. EditsSafe(r, typed, config, blanked) /\ Held(r, editor.session)
    BY <1>5, <2>1, <2>2, EditsSay, SameTextSafe
  <2>4. editor' = g /\ drafts' = drafts /\ DOMAIN typed' = RuleTabs /\ (\A v \in RuleTabs : typed'[v] = typed[v])
    BY <1>5, <1>9, <1>11, EditsSay
  <2>5. r.editor = editor' /\ r.draft = drafts'
    BY <2>2, <2>4 DEF Here
  <2>6. EditsSafe(r, typed', config, blanked)
    BY <2>3, <2>4 DEF EditsSafe
  <2>7. EditsSafe(r, typed', config', blanked') /\ ~dropped' /\ (editor' # NoEditor => editor'.session = active')
    BY <1>5, <1>8, <2>1, <2>4, <2>6, EditsSay DEF SameText
  <2>8. Edits'
    BY <2>4, <2>5, <2>7, EditsAre
  <2> QED BY <1>7, <2>8
<1> QED BY <1>10, <1>11

(* A window without an editor, whose tab has no rules, satisfies the       *)
(* invariant.                                                              *)
LEMMA NothingYet == RuleInit => Tables /\ Edits
<1>1. SUFFICES ASSUME RuleInit PROVE Tables /\ Edits
  OBVIOUS
<1>2. PICK h : h = SetRules(<<>>, <<>>, <<>>)
  OBVIOUS
<1>3. <<>> \in Seq(Columns) /\ <<>> \in Seq(LogRows) /\ <<>> \in Seq(HighlightRule)
  BY EmptySeq
<1>4. h \in RuleSet /\ h.rules = <<>> /\ h.compiled = <<>> /\ Right(h, <<>>, <<>>)
  BY <1>2, <1>3, SetRulesRight DEF Right
<1>5. /\ cols = [t \in RuleTabs |-> <<>>] /\ rows = [t \in RuleTabs |-> <<>>]
      /\ config = [t \in RuleTabs |-> <<>>] /\ rules = [t \in RuleTabs |-> h]
      /\ drafts = [t \in RuleTabs |-> NoDraft] /\ editor = NoEditor /\ typed = [t \in RuleTabs |-> Nothing]
      /\ missed = [t \in RuleTabs |-> FALSE] /\ blanked = [t \in RuleTabs |-> FALSE] /\ dropped = FALSE
      /\ open \subseteq RuleTabs /\ active \in open
  BY <1>1, <1>2 DEF RuleInit
<1>6. TablesTyped
  BY <1>3, <1>4, <1>5 DEF TablesTyped
<1>7. RowsPainted /\ RulesSaved
  BY <1>4, <1>5 DEF RowsPainted, RulesSaved, Right
<1>8. Here = [editor |-> editor, draft |-> drafts] /\ Here.editor = NoEditor /\ Here.draft = drafts
  BY <1>5 DEF Here
<1>9. EditsSafe(Here, typed, config, blanked)
  BY <1>5, <1>8 DEF EditsSafe, Held
<1> QED BY <1>5, <1>6, <1>7, <1>9 DEF Tables, Edits, EditsAskedAbout

(* Every step of the tables, the sessions and the editor keeps the         *)
(* invariant.                                                              *)
LEMMA RulesStep == Tables /\ Edits /\ [RuleNext]_ruleVars => Tables' /\ Edits'
<1>1. SUFFICES ASSUME Tables, Edits, [RuleNext]_ruleVars
               PROVE  Tables' /\ Edits'
  OBVIOUS
<1>2. ASSUME NEW t \in open, NEW row \in LogRows, NEW new \in {<<>>} \cup {<<c>> : c \in NewColumns}, NEW b \in BOOLEAN,
             AppendBatch(t, row, new, b)
      PROVE  Tables' /\ Edits'
  BY <1>1, <1>2, BatchStep
<1>3. CASE MoveColumn
  BY <1>1, <1>3, ColumnMoved
<1>4. ASSUME NEW t \in open, KeepSession(t) PROVE Tables' /\ Edits'
  BY <1>1, <1>4, SessionKept
<1>5. CASE ReplaceSource
  BY <1>1, <1>5, SourceReplaced
<1>6. CASE NewSession
  BY <1>1, <1>6, SessionBlanked
<1>7. ASSUME NEW t \in open, NEW f \in RuleFiles, LoadConfig(t, f) PROVE Tables' /\ Edits'
  BY <1>1, <1>7, ConfigLoaded
<1>8. ASSUME NEW t \in RuleTabs, Activate(t) \/ AddTab(t) PROVE Tables' /\ Edits'
  BY <1>1, <1>8, TabShown
<1>9. ASSUME NEW t \in open, NEW next \in open, NEW saving \in BOOLEAN, CloseHostedTab(t, next, saving)
      PROVE  Tables' /\ Edits'
  BY <1>1, <1>9, TabClosed
<1>10. CASE OpenEditor
  BY <1>1, <1>10, EditorOpened
<1>11. CASE OnNewClicked \/ OnDuplicateClicked
  BY <1>1, <1>11, RuleAdded
<1>12. CASE OnDeleteClicked
  BY <1>1, <1>12, RuleDeleted
<1>13. ASSUME NEW to \in 1 .. MaxRules, OnMoveClicked(to) PROVE Tables' /\ Edits'
  BY <1>1, <1>13, RuleMoved
<1>14. ASSUME NEW row \in 1 .. MaxRules, OnSelectionChanged(row) PROVE Tables' /\ Edits'
  BY <1>1, <1>14, SelectionChanged
<1>15. ASSUME NEW needle \in RuleNeedles, NEW enabled \in BOOLEAN, OnFieldEdited(needle, enabled)
       PROVE  Tables' /\ Edits'
  BY <1>1, <1>15, FieldEdited
<1>16. ASSUME NEW i \in 0 .. Cardinality(NewColumns), OnColumnChanged(i) PROVE Tables' /\ Edits'
  <2>1. i \in 0 .. Len(editor.cols) /\ editor # NoEditor
    BY <1>16 DEF OnColumnChanged, Showing
  <2>2. i \in Nat
    BY <1>1, <2>1, BufferHere
  <2> QED BY <1>1, <1>16, <2>2, ColumnChanged
<1>17. CASE OnSaveClicked
  BY <1>1, <1>17, RulesAreSaved
<1>18. CASE OnRevertClicked
  BY <1>1, <1>18, RulesReverted
<1>19. CASE CloseEditor
  BY <1>1, <1>19, EditorClosed
<1>20. CASE UNCHANGED ruleVars
  <2>1. UNCHANGED <<open, active, cols, rows, config, rules, drafts, editor, typed, missed, blanked, dropped>>
    BY <1>20 DEF ruleVars
  <2>2. open' \subseteq RuleTabs /\ active' \in open'
    BY <1>1, <2>1 DEF Tables, TablesTyped
  <2>3. Tables'
    BY <1>1, <2>1, <2>2, TablesStay
  <2>4. Edits'
    BY <1>1, <2>1, EditsStay
  <2> QED BY <2>3, <2>4
<1>21. CASE RuleNext
  <2>1. CASE TableStep
    BY <2>1, <1>2, <1>3 DEF TableStep
  <2>2. CASE SessionStep
    BY <2>2, <1>4, <1>5, <1>6, <1>7, <1>8, <1>9 DEF SessionStep
  <2>3. CASE EditorStep
    BY <2>3, <1>10, <1>11, <1>12, <1>13, <1>14, <1>15, <1>16, <1>17, <1>18, <1>19 DEF EditorStep
  <2> QED BY <1>21, <2>1, <2>2, <2>3 DEF RuleNext
<1> QED BY <1>1, <1>20, <1>21

(* The invariant implies what the run checks.                              *)
LEMMA RulesFollow == Tables /\ Edits => RulesPaintedAndKept
<1>1. SUFFICES ASSUME Tables, Edits PROVE RulesPaintedAndKept
  OBVIOUS
<1>2. open \subseteq RuleTabs /\ RowsPainted /\ RulesSaved
  BY <1>1 DEF Tables, TablesTyped
<1>3. HighlightsMatchRows /\ PaintedRulesAreSaved
  BY <1>2 DEF HighlightsMatchRows, PaintedRulesAreSaved, RowsPainted, RulesSaved, Painted
<1>4. DraftsSurviveSwitching
  <2>1. SUFFICES ASSUME editor # NoEditor, typed[editor.session] # Nothing
                 PROVE  typed[editor.session] = <<Seen(editor.local)>>
    BY DEF DraftsSurviveSwitching
  <2>2. editor.session \in RuleTabs
    BY <1>1, <2>1, BufferHere
  <2>3. Held(Here, editor.session)
    BY <1>1, <2>1, EditsSay DEF Held
  <2> QED BY <1>1, <2>1, <2>2, <2>3, EditsSay DEF EditsSafe
<1>5. BaselineIsCommitted
  <2>1. ASSUME editor # NoEditor, ~blanked[editor.session]
        PROVE  editor.baseline = config[editor.session]
    <3>1. editor.session \in RuleTabs /\ Held(Here, editor.session)
      BY <1>1, <2>1, BufferHere, EditsSay DEF Held
    <3> QED BY <1>1, <2>1, <3>1, EditsSay DEF EditsSafe
  <2>2. ASSUME NEW t \in open, drafts[t] # NoDraft, ~blanked[t]
        PROVE  drafts[t].baseline = config[t]
    <3>1. t \in RuleTabs
      BY <1>2
    <3> QED BY <1>1, <2>2, <3>1, EditsSay DEF EditsSafe
  <2> QED BY <2>1, <2>2 DEF BaselineIsCommitted
<1>6. EditsAskedAbout
  BY <1>1 DEF Edits
<1> QED BY <1>3, <1>4, <1>5, <1>6 DEF RulesPaintedAndKept

(* The rows of every tab are painted by the rules its configuration saves, *)
(* and edits that are not saved stay with their tab until the user was     *)
(* asked (log_session.cpp, main_window.cpp, highlight_rules_editor.cpp).   *)
THEOREM RulesStayPainted == RuleSpec => []RulesPaintedAndKept
<1>1. RuleInit => RuleInv
  BY NothingYet DEF RuleInv
<1>2. RuleInv /\ [RuleNext]_ruleVars => RuleInv'
  BY RulesStep DEF RuleInv
<1>3. RuleInv => RulesPaintedAndKept
  BY RulesFollow DEF RuleInv
<1> QED BY <1>1, <1>2, <1>3, PTL DEF RuleSpec
=============================================================================
