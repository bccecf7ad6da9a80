-------------------------- MODULE FilterEvaluation ---------------------------
(***************************************************************************)
(* From a filter tree to the rows it accepts: CompileExpression            *)
(* (leaf_rule_compile.cpp) drops the clauses it cannot compile and orders  *)
(* the others by cost; FilterAcceptedRows (log_filter.cpp) evaluates the   *)
(* result row by row or with one bitset per leaf.  A column is             *)
(* [keys, type]; a row maps the first key of a column to its cell, a text  *)
(* of FilterExpressions.                                                   *)
(***************************************************************************)
EXTENDS FilterExpressions, TLC

CONSTANT Cell(_, _)      \* Cell(row, key): the cell of a row (external data)

ResolveLeafColumnByKeys(keys, columns) ==
    LET fits == {i \in DOMAIN columns : keys # <<>> /\ ToSet(keys) \subseteq ToSet(columns[i].keys)}
    IN IF fits = {} THEN 0 ELSE CHOOSE i \in fits : \A j \in fits : i <= j

Sides(vals) == {vals[i] : i \in DOMAIN vals} \cap {Txt("bool", 0), Txt("bool", 1)}

(* A leaf that carries no usable payload compiles to nothing. *)
CompileLeaf(rule, columns) ==
    LET column == ResolveLeafColumnByKeys(rule.keys, columns)
        inert  == CASE rule.type \in {"Time", "Number"} -> rule.lo = {} /\ rule.hi = {}
                    [] rule.type = "Boolean" -> Sides(rule.vals) = {}
                    [] rule.type = "Enumeration" -> rule.vals = <<>>
                    [] rule.type = "String" ->
                         rule.s = {} \/ rule.match = "none" \/ (rule.s = {NoText} /\ rule.match # "Exactly")
    IN IF column = 0 \/ inert THEN {} ELSE {[key |-> columns[column].keys[1], rule |-> rule]}

EstimatedLeafCost(pred) ==
    CASE pred.rule.type = "Boolean" -> 1 [] pred.rule.type = "Enumeration" -> 2 [] pred.rule.type = "Time" -> 3
      [] pred.rule.type = "Number" -> 4 [] OTHER -> 10

CostSum(kids) == FoldSeq(LAMBDA k, acc : k.cost + acc, 0, kids)
CostMin(kids) == CHOOSE c \in {kids[i].cost : i \in DOMAIN kids} : \A i \in DOMAIN kids : c <= kids[i].cost
ByCost(kids) == SortSeq(kids, LAMBDA a, b : a.cost < b.cost)

(* An absent sub-tree is the empty set.  AND and OR drop absent children and *)
(* are absent when all of them are; NOT of an absent child is absent; an AND *)
(* that had no children is match-all.                                        *)
RECURSIVE CompileNode(_, _)
CompileNode(e, columns) ==
    LET kids == FlattenSeq([i \in 1..Len(e.kids) |-> SetToSeq(CompileNode(e.kids[i], columns))])
    IN CASE e.op = "leaf" ->
              {[op |-> "leaf", pred |-> p, cost |-> EstimatedLeafCost(p)] : p \in CompileLeaf(e.rule, columns)}
         [] e.op = "and" ->
              IF kids = <<>> /\ e.kids # <<>> THEN {}
              ELSE {[op |-> "and", kids |-> ByCost(kids), cost |-> CostSum(kids)]}
         [] e.op = "or" ->
              IF kids = <<>> THEN {} ELSE {[op |-> "or", kids |-> ByCost(kids), cost |-> CostMin(kids)]}
         [] e.op = "not" ->
              {[op |-> "not", kid |-> c, cost |-> c.cost + 1] : c \in CompileNode(e.kid, columns)}

CompiledMatchAll == [op |-> "and", kids |-> <<>>, cost |-> 0]

CompileExpression(e, columns) ==
    LET c == CompileNode(e, columns) IN IF c = {} THEN CompiledMatchAll ELSE The(c)

-----------------------------------------------------------------------------
(* Predicates.  How a pattern meets a text is the string matcher's business; *)
(* all that matters here is that it depends on the pattern and the text.     *)
MakeStringMatcher(match, pat, t) ==
    CASE match = "Exactly" -> pat = t
      [] match = "RegularExpression" -> (Len(pat.b) + t.n) % 2 = 1
      [] OTHER -> t.c = pat.c /\ (t.n = pat.n \/ t.n = pat.n + 1)

MatchesRow(pred, row) ==
    LET cell == Cell(row, pred.key)
        rule == pred.rule
    IN CASE rule.type = "Time" -> cell.c = "time" /\ (\A v \in rule.lo : cell.n >= v) /\ (\A v \in rule.hi : cell.n <= v)
         [] rule.type = "Number" -> cell.c = "num" /\ (\A v \in rule.lo : cell.n >= v) /\ (\A v \in rule.hi : cell.n <= v)
         [] rule.type = "Boolean" -> cell \in Sides(rule.vals)
         [] rule.type = "Enumeration" -> cell.c \in {"word", "kw"} /\ cell \in ToSet(rule.vals)
         [] rule.type = "String" -> MakeStringMatcher(rule.match, The(rule.s), cell)

RECURSIVE EvaluateExpression(_, _)
EvaluateExpression(c, row) ==
    CASE c.op = "leaf" -> MatchesRow(c.pred, row)
      [] c.op = "and" -> \A i \in DOMAIN c.kids : EvaluateExpression(c.kids[i], row)
      [] c.op = "or" -> \E i \in DOMAIN c.kids : EvaluateExpression(c.kids[i], row)
      [] c.op = "not" -> ~EvaluateExpression(c.kid, row)

-----------------------------------------------------------------------------
(* The bitset path.  A RowBitset over n rows is the set of its raised bits   *)
(* among all the bits of its words; the rows are 0..n-1.                     *)
WordCount(n) == (n + WordBits - 1) \div WordBits
AllBits(n) == 0..(WordCount(n) * WordBits - 1)
MaskTail(bits, n) == IF n % WordBits = 0 THEN bits ELSE bits \cap 0..(n - 1)
FillTrue(n) == MaskTail(AllBits(n), n)
(* Mutant: the unused bits of the last word are raised too. *)
InvertUnmasked(bits, n) == AllBits(n) \ bits

InvertInPlace(bits, n) == MaskTail(AllBits(n) \ bits, n)

(* Every worker fills a bitset of its own for the rows it was given; the     *)
(* bitsets are then or-ed together.                                          *)
MaterialiseLeafBitset(pred, n) ==
    LET worker(w) == {r \in {x \in 0..(n - 1) : x % 2 = w} : MatchesRow(pred, r)}
    IN worker(0) \cup worker(1)

RECURSIVE CollectLeafsInVisitOrder(_)
CollectLeafsInVisitOrder(c) ==
    CASE c.op = "leaf" -> <<c.pred>>
      [] c.op \in {"and", "or"} -> FlattenSeq([i \in 1..Len(c.kids) |-> CollectLeafsInVisitOrder(c.kids[i])])
      [] c.op = "not" -> CollectLeafsInVisitOrder(c.kid)

(* The shape: has the tree an OR, a NOT, and how many leaves. *)
RECURSIVE HasOrNot(_)
HasOrNot(c) == CASE c.op = "leaf" -> FALSE [] c.op = "and" -> \E i \in DOMAIN c.kids : HasOrNot(c.kids[i]) [] OTHER -> TRUE

ShouldUseBitsetPath(c, n) == n > 0 /\ Len(CollectLeafsInVisitOrder(c)) >= 2 /\ HasOrNot(c)

(* The tree is walked in the order the leaves were collected, a cursor      *)
(* taking the next leaf bitset.                                             *)
RECURSIVE EvaluateExpressionBitset(_, _, _, _)
RECURSIVE CombineBitsets(_, _, _, _, _, _)
CombineBitsets(c, i, acc, leafBits, cursor, n) ==
    IF i > Len(c.kids) THEN [bits |-> acc, cursor |-> cursor]
    ELSE LET next == EvaluateExpressionBitset(c.kids[i], leafBits, cursor, n)
         IN CombineBitsets(c, i + 1, IF c.op = "and" THEN acc \cap next.bits ELSE acc \cup next.bits,
                           leafBits, next.cursor, n)
EvaluateExpressionBitset(c, leafBits, cursor, n) ==
    CASE c.op = "leaf" -> [bits |-> leafBits[cursor], cursor |-> cursor + 1]
      [] c.op \in {"and", "or"} ->
           IF c.kids = <<>> THEN [bits |-> IF c.op = "and" THEN FillTrue(n) ELSE {}, cursor |-> cursor]
           ELSE LET front == EvaluateExpressionBitset(c.kids[1], leafBits, cursor, n)
                IN CombineBitsets(c, 2, front.bits, leafBits, front.cursor, n)
      [] c.op = "not" -> LET inner == EvaluateExpressionBitset(c.kid, leafBits, cursor, n)
                         IN [inner EXCEPT !.bits = InvertInPlace(inner.bits, n)]

BitsetRows(c, n) ==
    LET leaves == CollectLeafsInVisitOrder(c)
        leafBits == <<>> \o [i \in 1..Len(leaves) |-> MaterialiseLeafBitset(leaves[i], n)]
    IN EvaluateExpressionBitset(c, leafBits, 1, n).bits

FilterAcceptedRows(c, n) ==
    IF c.op = "and" /\ c.kids = <<>> THEN 0..(n - 1)
    ELSE IF ShouldUseBitsetPath(c, n) THEN BitsetRows(c, n)
    ELSE {r \in 0..(n - 1) : EvaluateExpression(c, r)}
=============================================================================
