--------------------------- MODULE MCQuestions -----------------------------
(***************************************************************************)
(* What the user asks of the rows: filters, and times.  The filters work   *)
(* on a log with a string, a number, an enumeration, a time and a Boolean  *)
(* column and three rows; a RowBitset word holds two rows, so the last     *)
(* word is half used.  The views of time work on a stream of rows with two *)
(* time columns.  A behaviour chooses one of the two at its start.         *)
(***************************************************************************)
EXTENDS FilterEditing, TimeViews

CONSTANT Scenarios
VARIABLE scenario

vars == <<scenario, editVars, timeVars>>

W(n) == Txt("word", n)
KS == W(11)
KAlias == W(12)
KN == W(13)
KE == W(14)
KT == W(15)
KB == W(16)
KMissing == W(17)

MCBare == {1, 2, 11, 13, 14, 15, 16, 17}
MCColumns == <<[keys |-> <<KS, KAlias>>, type |-> "String"], [keys |-> <<KN>>, type |-> "Number"],
               [keys |-> <<KE>>, type |-> "Enumeration"], [keys |-> <<KT>>, type |-> "Time"],
               [keys |-> <<KB>>, type |-> "Boolean"]>>

MCCell(row, key) ==
    CASE key = KS -> IF row = 0 THEN W(1) ELSE IF row = 1 THEN W(2) ELSE W(3)
      [] key = KN -> Txt("num", IF row = 0 THEN 0 ELSE IF row = 1 THEN 2 ELSE 4)
      [] key = KE -> IF row = 1 THEN Txt("kw", 1) ELSE W(1)
      [] key = KT -> Txt("time", row)
      [] OTHER -> Txt("bool", row % 2)

Id(t) == Tok("Ident", t)
Qu(t) == Tok("Quoted", t)
Nu(n) == Tok("Number", Txt("num", n))
Ti(n) == Tok("Ident", Txt("time", n))
Cmp(k, op, v) == <<Id(k), Sym(op), v>>
InList(k, vs) == <<Id(k), Sym("IN"), Sym("[")>> \o vs \o <<Sym("]")>>

CorePhrases == {Cmp(KS, ":", Id(W(1))), Cmp(KN, ">", Nu(2)), InList(KE, <<Qu(Txt("kw", 1))>>), Cmp(KMissing, ":", Id(W(1)))}
StringPhrases == {<<Qu(KAlias), Sym("="), Qu(W(3))>>, Cmp(KS, ":", Tok("True", Txt("bool", 1))), Cmp(KS, "%", Qu(W(2))),
                  Cmp(KS, "=", Qu(NoText)), Cmp(KE, ":", Id(W(1)))}
                   \cup {Cmp(KS, "~", Tok("Regex", ReTxt(b))) : b \in UNION {[1..n -> {"/", "\\", "x", "("}] : n \in 1..2}
                                                                        \cup {<<"\\", "\\", "/">>, <<"\\", "\\", "\\", "/">>}}
NumberPhrases == {Cmp(KN, op, Nu(v)) : op \in {"=", ">", ">=", "<", "<="}, v \in {0, 2, 4}}
                   \cup {Cmp(KN, "=", Tok("Number", Txt("huge", 0))), InList(KN, <<Id(Txt("num", Inf))>>),
                         InList(KN, <<Qu(Txt("num", -Inf))>>), InList(KN, <<Nu(0), Sym(".."), Nu(2)>>),
                         InList(KN, <<Nu(2), Sym(".."), Nu(0)>>), InList(KN, <<Sym(".."), Nu(2)>>),
                         InList(KN, <<Nu(2), Sym("..")>>), InList(KN, <<Nu(0), Sym(".."), Ti(1)>>)}
TimePhrases == {Cmp(KT, op, Ti(v)) : op \in {">", "<", "<="}, v \in {0, 1, 3}}
                 \cup {InList(KT, <<Ti(0), Sym(".."), Ti(1)>>), InList(KT, <<Ti(1)>>), Cmp(KT, ":", Ti(1))}
EnumPhrases == {InList(KE, <<Id(W(1)), Sym(","), Qu(Txt("kw", 1))>>), <<Id(KE), Sym("NOT")>> \o Tail(InList(KE, <<Id(W(1))>>)),
                InList(KE, <<>>), InList(KB, <<Tok("False", Txt("bool", 0)), Sym(","), Tok("True", Txt("bool", 1))>>),
                Cmp(KB, "=", Tok("True", Txt("bool", 1))), InList(KE, <<Id(W(1)), Sym(","), Nu(2)>>)}

Group(a, word, b) == <<Sym("(")>> \o a \o <<Sym(word)>> \o b \o <<Sym(")")>>
Groups == {Group(a, word, Cmp(KN, ">", Nu(2))) : a \in {Cmp(KS, ":", Id(W(1))), Cmp(KMissing, ":", Id(W(1)))},
                                                 word \in {"AND", "OR"}}
Joints == {<<>>, <<Sym("AND")>>, <<Sym("OR")>>, <<Sym("AND"), Sym("NOT")>>}
MCPhrases == <<CorePhrases \cup StringPhrases \cup NumberPhrases \cup TimePhrases \cup EnumPhrases
                 \cup Groups \cup {<<Sym("NOT")>> \o g : g \in Groups} \cup {<<Sym("(")>>, <<Sym("NOT")>>},
               {j \o x : j \in Joints, x \in CorePhrases \cup Groups},
               {<<Sym(word)>> \o Cmp(KS, ":", Id(W(1))) : word \in {"AND", "OR"}} \cup {<<Sym(")")>>}>>

Value(t, mt, s, lo, hi, vals) == [type |-> t, match |-> mt, s |-> s, lo |-> lo, hi |-> hi, vals |-> vals]
MCFormValues == {Value("String", "Contains", {W(1)}, {}, {}, <<>>), Value("String", "RegularExpression", {ReTxt(<<"(">>)}, {}, {}, <<>>),
                 Value("Number", "none", {}, {0}, {2}, <<>>), Value("Number", "none", {}, {2}, {0}, <<>>),
                 Value("Time", "none", {}, {1}, {}, <<>>), Value("Time", "none", {}, {}, {}, <<>>),
                 Value("Enumeration", "none", {}, {}, {}, <<W(1)>>), Value("Boolean", "none", {}, {}, {}, <<Txt("bool", 1)>>)}

(* A query is typed into an empty field; the form and the header are used   *)
(* with queries of one phrase; the session file is empty or current.         *)
Swapped == [Columns EXCEPT ![1] = Columns[2], ![2] = Columns[1]]
Bounded ==
    /\ columns \in {Columns, Swapped} /\ saved.expr \in {MatchAll, expr} /\ saved.columns = Columns
    /\ query.typed > 0 /\ query.open => expr = MatchAll /\ ~form.open /\ lastId = 0
    /\ query.typed > 1 => ~form.open /\ columns = Columns

Line(t, u, l) == [t |-> t, u |-> u, l |-> l]
Early == Line(-1, NoTime, "info")
Late == Line(3, 0, "error")
Later == Line(5, 7, "info")
Untimed == Line(NoTime, 7, "error")
MCLineValues == {Early, Late, Later, Untimed}
MCLineBatches == {<<Late>>, <<Later, Early>>, <<Untimed, Later>>}
MCWidths == <<2, 4>>
MCInitTypes == {[t |-> "time", u |-> "time"], [t |-> "any", u |-> "time"]}
MCTargets == {0, 3}

Init ==
    /\ scenario \in Scenarios
    /\ EditInit
    /\ TimeInit /\ (scenario # "time" => marked = <<>> /\ table.type["t"] = "time")

Next ==
    \/ scenario = "filter" /\ EditNext /\ Bounded' /\ UNCHANGED <<scenario, timeVars>>
    \/ scenario = "time" /\ TimeNext /\ UNCHANGED <<scenario, editVars>>

Spec == Init /\ [][Next]_vars
=============================================================================
