-------------------------- MODULE FilterExpressions --------------------------
(***************************************************************************)
(* Filter expressions: the query language (query_parser.cpp), the compiler *)
(* (leaf_rule_compile.cpp) and the two evaluators (log_filter.cpp).        *)
(*                                                                         *)
(* Characters are abstracted to tokens.  A text is [c, n, b]: its class c, *)
(* a number n inside the class, and for a regular expression its body b.   *)
(*   "word"  an ordinary word; WordNames tells which may stand unquoted    *)
(*   "kw"    a reserved word (and, or, not, in) used as a value            *)
(*   "bool"  true (1) or false (0)                                         *)
(*   "num"   a decimal literal, n its double on the line described below   *)
(*   "huge"  a literal too large for a double                              *)
(*   "time"  an ISO timestamp, n its microsecond                           *)
(*   "re"    a regular expression, b its characters                        *)
(* Doubles are the points -5..5 of a line: 0 zero, 1 the least denormal,   *)
(* 2 an ordinary number, 3 its successor, 4 the largest finite number,     *)
(* 5 infinity.  Timestamps that ISO can write are 0..LastTime, the years   *)
(* 0000 to 9999.                                                           *)
(***************************************************************************)
EXTENDS Integers, Sequences, FiniteSets, SequencesExt

CONSTANTS
    Bare,       \* the words that may stand unquoted
    LastTime,   \* the last microsecond of the year 9999
    WordBits    \* bits of one word of a RowBitset

Inf == 5
Denormal == 1
Txt(c, n) == [c |-> c, n |-> n, b |-> <<>>]
ReTxt(b) == [c |-> "re", n |-> 0, b |-> b]
NoText == Txt("word", 0)

Tok(k, t) == [k |-> k, t |-> t]
Sym(k) == Tok(k, NoText)

(* strtod and the errno check: a denormal or overflowing literal is ERANGE *)
ParseDouble(t) == IF t.c = "num" /\ t.n \notin {Denormal, -Denormal} THEN {t.n} ELSE {}

ParseIsoTimestamp(t) == IF t.c = "time" /\ t.n \in 0..LastTime THEN {t.n} ELSE {}

-----------------------------------------------------------------------------
(* The lexer: what an unquoted text is read as. *)

LexIdent(t) == CASE t.c = "kw" -> "Kw" [] t.c = "bool" -> IF t.n = 1 THEN "True" ELSE "False" [] OTHER -> "Ident"

LexBare(t) ==
    CASE t.c \in {"word", "kw", "bool"} -> LexIdent(t)
      [] t.c = "huge" -> "Number"
      [] t.c = "num" -> IF t.n = Inf THEN "Ident" ELSE IF t.n = -Inf THEN "Bad" ELSE "Number"
      [] OTHER -> "Ident"

(* A regular expression between its slashes: an escaped slash loses its     *)
(* backslash, any other escape keeps both characters, and a bare slash      *)
(* closes the literal early.                                                *)
RECURSIVE NextRegex(_)
NextRegex(body) ==
    IF body = <<>> THEN [ok |-> TRUE, b |-> <<>>]
    ELSE IF body[1] = "/" THEN [ok |-> FALSE, b |-> <<>>]
    ELSE IF body[1] = "\\" /\ Len(body) = 1 THEN [ok |-> FALSE, b |-> <<>>]
    ELSE LET pair == body[1] = "\\"
             rest == NextRegex(SubSeq(body, IF pair THEN 3 ELSE 2, Len(body)))
             head == IF pair /\ body[2] = "/" THEN <<"/">> ELSE SubSeq(body, 1, IF pair THEN 2 ELSE 1)
         IN [rest EXCEPT !.b = head \o @]

-----------------------------------------------------------------------------
(* Rules and trees. *)

LeafRule(keys) == [type |-> "String", keys |-> keys, match |-> "none", s |-> {}, lo |-> {}, hi |-> {}, vals |-> <<>>]
MakeLeaf(rule) == [op |-> "leaf", rule |-> rule]
MakeAnd(kids) == [op |-> "and", kids |-> kids]
MakeOr(kids) == [op |-> "or", kids |-> kids]
MakeNot(kid) == [op |-> "not", kid |-> kid]
MatchAll == MakeAnd(<<>>)
IsMatchAll(e) == e.op = "and" /\ e.kids = <<>>

-----------------------------------------------------------------------------
(* The parser.  Every production returns whether it succeeded, the tree and *)
(* the position of the lookahead token.                                     *)

At(ts, p) == IF p > Len(ts) THEN Sym("End") ELSE ts[p]
Failed == [ok |-> FALSE, e |-> MatchAll, p |-> 0]
Parsed(e, p) == [ok |-> TRUE, e |-> e, p |-> p]
IsBound(k) == k \in {"Number", "Ident", "Quoted"}
IsValue(k) == IsBound(k) \/ k \in {"True", "False"}

StringRule(rule, match, t) == [rule EXCEPT !.type = "String", !.match = match, !.s = {t}]

FinishStringLeaf(ts, p, rule) ==
    IF IsValue(At(ts, p).k) THEN Parsed(MakeLeaf(StringRule(rule, "Contains", At(ts, p).t)), p + 1) ELSE Failed

FinishEqLeaf(ts, p, rule) ==
    LET tok == At(ts, p)
        d   == ParseDouble(tok.t)
    IN CASE tok.k \in {"Quoted", "Ident"} -> Parsed(MakeLeaf(StringRule(rule, "Exactly", tok.t)), p + 1)
         [] tok.k = "Number" /\ d # {} -> Parsed(MakeLeaf([rule EXCEPT !.type = "Number", !.lo = d, !.hi = d]), p + 1)
         [] tok.k \in {"True", "False"} -> Parsed(MakeLeaf([rule EXCEPT !.type = "Boolean", !.vals = <<tok.t>>]), p + 1)
         [] OTHER -> Failed

NextAfter(d, up) == IF up THEN IF d = Inf THEN d ELSE d + 1 ELSE IF d = -Inf THEN d ELSE d - 1

FinishCompareLeaf(ts, p, rule, cmp) ==
    LET tok == At(ts, p)
        ts_ == ParseIsoTimestamp(tok.t)
        num == IF ts_ # {} THEN {} ELSE ParseDouble(tok.t)
        low == cmp \in {">", ">="}
        bound == IF ts_ # {}
                 THEN {CASE cmp = ">" -> v + 1 [] cmp = "<" -> v - 1 [] OTHER -> v : v \in ts_}
                 ELSE {IF cmp \in {">", "<"} THEN NextAfter(v, cmp = ">") ELSE v : v \in num}
        typed == [rule EXCEPT !.type = IF ts_ # {} THEN "Time" ELSE "Number",
                              !.lo = IF low THEN bound ELSE {}, !.hi = IF low THEN {} ELSE bound]
    IN IF IsBound(tok.k) /\ bound # {} THEN Parsed(MakeLeaf(typed), p + 1) ELSE Failed

(* The text of a bound is classified as a timestamp first, then as a number. *)
FinishRangeUpper(ts, p, rule, first) ==
    LET second == IF IsBound(At(ts, p).k) THEN {At(ts, p).t} ELSE {}
        q      == IF second = {} THEN p ELSE p + 1
        times(s) == UNION {ParseIsoTimestamp(t) : t \in s}
        nums(s)  == UNION {IF ParseIsoTimestamp(t) # {} THEN {} ELSE ParseDouble(t) : t \in s}
        known(s) == s = {} \/ times(s) # {} \/ nums(s) # {}
        isTime == times(first) \cup times(second) # {}
        lo == IF isTime THEN times(first) ELSE nums(first)
        hi == IF isTime THEN times(second) ELSE nums(second)
    IN IF \/ At(ts, q).k # "]"
          \/ first \cup second = {}
          \/ ~known(first) \/ ~known(second)
          \/ times(first) # {} /\ nums(second) # {}
          \/ nums(first) # {} /\ times(second) # {}
          \/ \E a \in lo, b \in hi : a > b
       THEN Failed
       ELSE Parsed(MakeLeaf([rule EXCEPT !.type = IF isTime THEN "Time" ELSE "Number", !.lo = lo, !.hi = hi]), q + 1)

RECURSIVE ListValues(_, _, _)
ListValues(ts, p, acc) ==
    CASE At(ts, p).k = "," /\ IsValue(At(ts, p + 1).k) -> ListValues(ts, p + 2, Append(acc, At(ts, p + 1)))
      [] At(ts, p).k = "]" -> [ok |-> TRUE, toks |-> acc, p |-> p + 1]
      [] OTHER -> [ok |-> FALSE, toks |-> acc, p |-> p]

(* A list of one value is read as a timestamp or a number if it looks like one. *)
FinishListLeaf(ts, p, rule, first) ==
    LET list == ListValues(ts, p, <<first>>)
        vals == <<>> \o [i \in 1..Len(list.toks) |-> list.toks[i].t]
        allBool == \A i \in 1..Len(list.toks) : list.toks[i].k \in {"True", "False"}
        ts_ == ParseIsoTimestamp(first.t)
        num == ParseDouble(first.t)
        typed == CASE allBool -> [rule EXCEPT !.type = "Boolean", !.vals = vals]
                   [] ~allBool /\ Len(vals) = 1 /\ ts_ # {} -> [rule EXCEPT !.type = "Time", !.lo = ts_, !.hi = ts_]
                   [] ~allBool /\ Len(vals) = 1 /\ ts_ = {} /\ num # {} ->
                        [rule EXCEPT !.type = "Number", !.lo = num, !.hi = num]
                   [] OTHER -> [rule EXCEPT !.type = "Enumeration", !.vals = vals]
    IN IF list.ok THEN Parsed(MakeLeaf(typed), list.p) ELSE Failed

FinishInLeaf(ts, p, rule) ==
    CASE At(ts, p).k # "[" -> Failed
      [] At(ts, p).k = "[" /\ At(ts, p + 1).k = ".." -> FinishRangeUpper(ts, p + 2, rule, {})
      [] At(ts, p).k = "[" /\ At(ts, p + 2).k = ".." /\ IsValue(At(ts, p + 1).k) ->
            FinishRangeUpper(ts, p + 3, rule, {At(ts, p + 1).t})
      [] At(ts, p).k = "[" /\ At(ts, p + 2).k # ".." /\ IsValue(At(ts, p + 1).k) ->
            FinishListLeaf(ts, p + 2, rule, At(ts, p + 1))
      [] OTHER -> Failed

(* What follows the key of a leaf: the operator op, whose argument is arg.   *)
FinishRegexLeaf(rule, re, p) ==
    IF re.ok THEN Parsed(MakeLeaf(StringRule(rule, "RegularExpression", ReTxt(re.b))), p) ELSE Failed
Negated(inner) == IF inner.ok THEN Parsed(MakeNot(inner.e), inner.p) ELSE Failed

FinishLeaf(ts, p, rule, op, arg) ==
    CASE op = ":" -> FinishStringLeaf(ts, p, rule)
      [] op = "=" -> FinishEqLeaf(ts, p, rule)
      [] op = "~" /\ arg.k = "Regex" -> FinishRegexLeaf(rule, NextRegex(arg.t.b), p + 1)
      [] op = "%" /\ arg.k \in {"Ident", "Quoted"} -> Parsed(MakeLeaf(StringRule(rule, "Wildcard", arg.t)), p + 1)
      [] op \in {">", ">=", "<", "<="} -> FinishCompareLeaf(ts, p, rule, op)
      [] op = "IN" -> FinishInLeaf(ts, p, rule)
      [] op = "NOT" /\ arg.k = "IN" -> Negated(FinishInLeaf(ts, p + 1, rule))
      [] OTHER -> Failed

ParseLeaf(ts, p) ==
    IF At(ts, p).k \in {"Ident", "Quoted"}
    THEN FinishLeaf(ts, p + 2, LeafRule(<<At(ts, p).t>>), At(ts, p + 1).k, At(ts, p + 2))
    ELSE Failed

(* ParseOr, ParseAnd and ParseNot with ParseAtom are the levels "or", "and"  *)
(* and "not".  Where the next operand of a level starts, after the one that  *)
(* ended at p, or 0.  Juxtaposition is an AND: a leaf, a NOT or a group may  *)
(* follow directly.                                                          *)
Tighter == [or |-> "and", and |-> "not"]
NextOperand(level, k, p) ==
    IF k = (IF level = "or" THEN "OR" ELSE "AND") THEN p + 1
    ELSE IF level = "and" /\ k \in {"Ident", "Quoted", "NOT", "("} THEN p ELSE 0

CloseGroup(ts, inner) ==
    IF inner.ok /\ At(ts, inner.p).k = ")" THEN Parsed(inner.e, inner.p + 1) ELSE Failed
CloseLevel(level, kids, got) ==
    Parsed(IF kids = <<>> THEN got.e ELSE [op |-> level, kids |-> Append(kids, got.e)], got.p)

RECURSIVE Parse(_, _, _, _)
Parse(ts, p, level, kids) ==
    CASE level = "not" /\ At(ts, p).k = "NOT" -> Negated(Parse(ts, p + 1, "not", <<>>))
      [] level = "not" /\ At(ts, p).k = "(" -> CloseGroup(ts, Parse(ts, p + 1, "or", <<>>))
      [] level = "not" /\ At(ts, p).k \notin {"NOT", "("} -> ParseLeaf(ts, p)
      [] OTHER ->
           LET got  == Parse(ts, p, Tighter[level], <<>>)
               next == NextOperand(level, At(ts, got.p).k, got.p)
           IN IF ~got.ok THEN Failed
              ELSE IF next = 0 THEN CloseLevel(level, kids, got)
              ELSE Parse(ts, next, level, Append(kids, got.e))

WholeQuery(ts, got) == IF got.ok /\ At(ts, got.p).k = "End" THEN got ELSE Failed
ParseQuery(ts) == IF ts = <<>> THEN Parsed(MatchAll, 1) ELSE WholeQuery(ts, Parse(ts, 1, "or", <<>>))

-----------------------------------------------------------------------------
(* The printer. *)

NeedsQuoting(t) == ~((t.c = "word" /\ t.n \in Bare) \/ (t.c = "num" /\ t.n = Inf))
QuoteString(t) == <<Tok("Quoted", t)>>
FormatIdent(t) == IF NeedsQuoting(t) THEN QuoteString(t) ELSE <<Tok(LexBare(t), t)>>
FormatNumber(d) == <<Tok(LexBare(Txt("num", d)), Txt("num", d))>>

(* Outside the years 0000..9999 the text is "epoch_micros:<number>". *)
FormatTimestampMicros(v) ==
    IF v \in 0..LastTime THEN <<Tok("Ident", Txt("time", v))>>
    ELSE <<Tok("Ident", Txt("word", 99)), Sym(":"), Tok("Number", Txt("num", 2))>>

(* Every slash of a pattern is escaped, whatever stands before it. *)
EscapeSlashes(b) == FlattenSeq([i \in 1..Len(b) |-> IF b[i] = "/" THEN <<"\\", "/">> ELSE <<b[i]>>])

The(s) == CHOOSE x \in s : TRUE

AppendRange(rule) ==
    LET form(bound) == IF rule.type = "Number" THEN FormatNumber(The(bound)) ELSE FormatTimestampMicros(The(bound))
        point == rule.type = "Number" /\ rule.lo = rule.hi
    IN CASE rule.lo # {} /\ rule.hi # {} /\ point -> <<Sym("=")>> \o form(rule.lo)
         [] rule.lo # {} /\ rule.hi # {} /\ ~point ->
              <<Sym("IN"), Sym("[")>> \o form(rule.lo) \o <<Sym("..")>> \o form(rule.hi) \o <<Sym("]")>>
         [] rule.lo # {} /\ rule.hi = {} -> <<Sym(">=")>> \o form(rule.lo)
         [] rule.lo = {} /\ rule.hi # {} -> <<Sym("<=")>> \o form(rule.hi)
         [] OTHER -> <<Sym("IN"), Sym("["), Sym("]")>>

AppendList(vals) ==
    <<Sym("IN"), Sym("[")>>
      \o FlattenSeq([i \in 1..Len(vals) |-> (IF i = 1 THEN <<>> ELSE <<Sym(",")>>) \o FormatIdent(vals[i])])
      \o <<Sym("]")>>

AppendBoolean(vals) ==
    LET has(n) == \E i \in 1..Len(vals) : vals[i] = Txt("bool", n)
        lit(n) == Tok(IF n = 1 THEN "True" ELSE "False", Txt("bool", n))
    IN CASE has(1) /\ has(0) -> <<Sym("IN"), Sym("["), lit(1), Sym(","), lit(0), Sym("]")>>
         [] has(1) /\ ~has(0) -> <<Sym("="), lit(1)>>
         [] ~has(1) /\ has(0) -> <<Sym("="), lit(0)>>
         [] OTHER -> <<Sym("IN"), Sym("["), Sym("]")>>

AppendString(rule) ==
    LET v == IF rule.s = {} THEN NoText ELSE The(rule.s)
    IN CASE rule.match \in {"none", "Contains"} -> <<Sym(":")>> \o FormatIdent(v)
         [] rule.match = "Exactly" -> <<Sym("=")>> \o QuoteString(v)
         [] rule.match = "RegularExpression" -> <<Sym("~"), Tok("Regex", ReTxt(EscapeSlashes(v.b)))>>
         [] rule.match = "Wildcard" -> <<Sym("%")>> \o QuoteString(v)

AppendLeaf(rule) ==
    (IF rule.keys = <<>> THEN <<>> ELSE FormatIdent(rule.keys[1]))
      \o CASE rule.type = "String" -> AppendString(rule)
           [] rule.type \in {"Number", "Time"} -> AppendRange(rule)
           [] rule.type = "Boolean" -> AppendBoolean(rule.vals)
           [] rule.type = "Enumeration" -> AppendList(rule.vals)

Precedence == [or |-> 0, and |-> 1, not |-> 2]
(* Mutant: no group is ever parenthesised. *)
NoParens(need, ts) == ts
Parens(need, ts) == IF need THEN <<Sym("(")>> \o ts \o <<Sym(")")>> ELSE ts

RECURSIVE AppendExpression(_, _)
AppendExpression(e, parent) ==
    LET joined(word) == FlattenSeq([i \in 1..Len(e.kids) |->
                          (IF i = 1 THEN <<>> ELSE <<Sym(word)>>)
                            \o AppendExpression(e.kids[i], Precedence[e.op])])
    IN CASE e.op = "leaf" -> AppendLeaf(e.rule)
         [] e.op = "and" -> IF e.kids = <<>> THEN <<Sym("*")>> ELSE Parens(parent > Precedence["and"], joined("AND"))
         [] e.op = "or" -> IF e.kids = <<>> THEN <<Sym("("), Sym(")")>> ELSE Parens(parent > Precedence["or"], joined("OR"))
         [] e.op = "not" -> <<Sym("NOT")>> \o AppendExpression(e.kid, Precedence["not"])

RECURSIVE PeelSingleAnd(_)
PeelSingleAnd(e) ==
    IF e.op = "and" /\ Len(e.kids) = 1 /\ ~IsMatchAll(e.kids[1]) THEN PeelSingleAnd(e.kids[1]) ELSE e

FormatExpression(e) == IF IsMatchAll(e) THEN <<>> ELSE AppendExpression(PeelSingleAnd(e), Precedence["or"])
=============================================================================
