------------------------------ MODULE LogTable ------------------------------
(***************************************************************************)
(* The table behind a session: columns with their detected types, rows of  *)
(* compact slots, per-column enum dictionaries, candidate trackers, health *)
(* counters and level ranks (log_table.cpp, enum_dictionary.cpp,           *)
(* log_configuration.cpp).  All of it runs on the GUI thread, so an        *)
(* operation is a function from table to table; TableViews says when each  *)
(* one is called and what it signals.                                      *)
(*                                                                         *)
(* A column has one key (aliases are left out).  A value is a name; what   *)
(* matters of it is its kind, its length class and the level it names.     *)
(***************************************************************************)
EXTENDS Naturals, Sequences, SequencesExt, FiniteSets, Functions

CONSTANTS
    Keys,           \* the keys lines may carry
    KeyOrder,       \* the same, in the order a line introduces them
    TimeKeys,       \* those IsTimestampKey recognises
    LevelKeys,      \* those IsLogLevelKey recognises
    Texts,          \* string values
    TimeTexts,      \* string values the time formats parse
    LongTexts,      \* string values longer than mEnumValueMaxLen
    Numbers,        \* values the parser stores as integers
    LevelOf,        \* the level each text names, Unknown if none
    Unknown,
    Cap,            \* mEnumValueCap
    StreamMin,      \* STREAM_PROMOTION_MIN_ROWS
    StaticMin,      \* ENUM_PROMOTION_MIN_ROWS
    HealthMin,      \* ENUM_HEALTH_MIN_SAMPLES
    Absent          \* no value for this key on this line

ASSUME TableAssumption ==
    /\ TimeKeys \subseteq Keys /\ LevelKeys \subseteq Keys
    /\ TimeTexts \subseteq Texts /\ LongTexts \subseteq Texts
    /\ Texts \cap Numbers = {}
    /\ Absent \notin Texts \cup Numbers
    /\ DOMAIN LevelOf = Texts
    /\ {Cap, StreamMin, StaticMin, HealthMin} \subseteq Nat \ {0}

Types == {"any", "string", "integer", "number", "time", "enum", "level"}
EnumLike == {"enum", "level"}
NoKey == "nokey"                \* INVALID_KEY_ID
NoRange == <<>>
Slot(tag, v) == [tag |-> tag, v |-> v]
Nothing == Slot("none", Absent)

Column(k) ==
    IF k \in TimeKeys
    THEN [key |-> k, type |-> "time", auto |-> TRUE, fmt |-> "strftime"]
    ELSE [key |-> k, type |-> "any", auto |-> TRUE, fmt |-> "braces"]

NewTracker == [seen |-> {}, rows |-> 0, present |-> 0, long |-> 0,
               ints |-> 0, killed |-> FALSE]
NoHealth == [total |-> 0, long |-> 0, wrong |-> 0]

(* What the parser hands over for a line: text, or an integer slot; a key  *)
(* of a column that was of type Time when its parse began arrives as a     *)
(* timestamp already (Stage B).                                            *)
ParsedSlot(t, k, v) ==
    CASE v = Absent -> Nothing
      [] v \in Numbers -> Slot("int", v)
      [] v \in TimeTexts /\ k \in t.spec -> Slot("time", v)
      [] OTHER -> Slot("text", v)

ColumnIndexOf(t, k) ==
    IF \E i \in DOMAIN t.cols : t.cols[i].key = k
    THEN CHOOSE i \in DOMAIN t.cols : t.cols[i].key = k
    ELSE 0

SetType(t, i, type) == [t EXCEPT !.cols[i].type = type]
Put(f, k, v) == [x \in DOMAIN f \cup {k} |-> IF x = k THEN v ELSE f[x]]
Drop(f, k) == [x \in DOMAIN f \ {k} |-> f[x]]
Upto(a, b) == [j \in 1 .. (b + 1 - a) |-> a + j - 1]

-----------------------------------------------------------------------------
(* Reading                                                                 *)

(* EnumDictionary::Resolve, and what LogLine::GetValue materialises.       *)
Resolve(t, k, slot) ==
    IF slot.tag # "dict" THEN slot.v
    ELSE IF k \in DOMAIN t.dict /\ slot.v \in DOMAIN t.dict[k]
         THEN t.dict[k][slot.v]
         ELSE Absent

GetValue(t, r, i) ==
    IF i \in DOMAIN t.ids /\ r \in DOMAIN t.rows /\ t.ids[i] # NoKey
    THEN Resolve(t, t.ids[i], t.rows[r].cell[t.ids[i]])
    ELSE Absent

GetEnumValueId(t, r, i) ==
    IF /\ i \in DOMAIN t.ids /\ r \in DOMAIN t.rows /\ t.ids[i] # NoKey
       /\ t.rows[r].cell[t.ids[i]].tag = "dict"
    THEN t.rows[r].cell[t.ids[i]].v
    ELSE 0

(* What the cell shows: a timestamp goes through the column's print        *)
(* format, and a format without a conversion prints itself.                *)
GetFormattedValue(t, r, i) ==
    IF /\ i \in DOMAIN t.ids /\ r \in DOMAIN t.rows /\ t.ids[i] # NoKey
       /\ t.rows[r].cell[t.ids[i]].tag = "time"
    THEN IF t.cols[i].fmt = "strftime" THEN GetValue(t, r, i) ELSE "{}"
    ELSE GetValue(t, r, i)

(* 0 stands for "no level shown".                                          *)
GetDisplayLevelForRow(t, r, i) ==
    LET k == t.cols[i].key
        id == GetEnumValueId(t, r, i)
    IN IF t.cols[i].type # "level" \/ k \notin DOMAIN t.ranks \/ id = 0 THEN 0
       ELSE IF id > Len(t.ranks[k]) THEN Unknown ELSE t.ranks[k][id]

-----------------------------------------------------------------------------
(* Dictionaries, ranks and health                                          *)

DictOf(t, k) == IF k \in DOMAIN t.dict THEN t.dict[k] ELSE <<>>
GetOrInsert(t, k) == [t EXCEPT !.dict = Put(@, k, DictOf(t, k))]
HealthOf(t, k) == IF k \in DOMAIN t.health THEN t.health[k] ELSE NoHealth

ShouldDemote(health, minSamples) ==
    health.total >= minSamples /\ (health.long + health.wrong) * 100 > health.total

(* Insert: the id of a known value, a new one while below the cap, 0 when  *)
(* the dictionary is full.                                                 *)
Insert(dict, v) ==
    IF v \in Range(dict) THEN [dict |-> dict, id |-> CHOOSE j \in DOMAIN dict : dict[j] = v]
    ELSE IF Len(dict) >= Cap THEN [dict |-> dict, id |-> 0]
    ELSE [dict |-> Append(dict, v), id |-> Len(dict) + 1]

\* Mutant: the ranks of new entries are looked up from the start of the dictionary.
RanksFromTheStart(t, i) ==
    LET k == t.cols[i].key
        old == IF k \in DOMAIN t.ranks THEN t.ranks[k] ELSE <<>>
        kept == IF Len(old) > Len(DictOf(t, k)) THEN <<>> ELSE old
    IN IF t.cols[i].type # "level" \/ k \notin t.known THEN t
       ELSE [t EXCEPT !.ranks = Put(@, k, kept \o
                [j \in 1 .. (Len(DictOf(t, k)) - Len(kept)) |-> LevelOf[DictOf(t, k)[j]]])]

RefreshLevelRankCache(t, i) ==
    LET k == t.cols[i].key
        old == IF k \in DOMAIN t.ranks THEN t.ranks[k] ELSE <<>>
        kept == IF Len(old) > Len(DictOf(t, k)) THEN <<>> ELSE old
    IN IF t.cols[i].type # "level" \/ k \notin t.known THEN t
       ELSE [t EXCEPT !.ranks = Put(@, k, kept \o
                [j \in 1 .. (Len(DictOf(t, k)) - Len(kept)) |->
                    LevelOf[DictOf(t, k)[Len(kept) + j]]])]

(* Encodes the rows a .. b of key k as dictionary references and stops at  *)
(* the first value the dictionary has no room for.                         *)
EncodeColumnRange(t, k, a, b) ==
    LET count(acc, field) ==
            [acc EXCEPT !.t.health = Put(@, k,
                [HealthOf(acc.t, k) EXCEPT !.total = @ + 1,
                    !.long = IF field = "long" THEN @ + 1 ELSE @,
                    !.wrong = IF field = "wrong" THEN @ + 1 ELSE @])]
        step(acc, r) ==
            LET slot == acc.t.rows[r].cell[k]
                ins == Insert(acc.t.dict[k], slot.v)
            IN IF ~acc.ok \/ slot.tag \in {"none", "dict"} THEN acc
               ELSE IF slot.tag # "text" THEN count(acc, "wrong")
               ELSE IF slot.v \in LongTexts THEN count(acc, "long")
               ELSE IF ins.id = 0 THEN [acc EXCEPT !.ok = FALSE]
               ELSE count([acc EXCEPT !.t.dict[k] = ins.dict,
                               !.t.rows[r].cell[k] = Slot("dict", ins.id)], "ok")
        seeded == [GetOrInsert(t, k) EXCEPT !.health = Put(@, k, HealthOf(t, k))]
    IN FoldLeft(step, [t |-> seeded, ok |-> TRUE], Upto(a, b))

(* Turns every reference back into text before the dictionary goes.        *)
DemoteColumnFromEnum(t, i, record) ==
    LET k == t.cols[i].key
        back(row) == IF row.cell[k].tag = "dict"
                     THEN [row EXCEPT !.cell[k] = Slot("text", Resolve(t, k, row.cell[k]))]
                     ELSE row
    IN IF t.cols[i].type \notin EnumLike THEN t
       ELSE IF k \notin t.known THEN SetType(t, i, "string")
       ELSE [SetType(t, i, "string") EXCEPT
                !.rows = <<>> \o [r \in DOMAIN t.rows |-> back(t.rows[r])],
                !.dict = Drop(@, k), !.health = Drop(@, k), !.ranks = Drop(@, k),
                !.demoted = IF record THEN @ \cup {k} ELSE @]

(* An auto-detected enumeration of a level-like key becomes a Level column *)
(* when at most one entry in five names no level.                          *)
MaybePromoteToLevel(t, i) ==
    LET k == t.cols[i].key
        odd == {j \in DOMAIN DictOf(t, k) : LevelOf[DictOf(t, k)[j]] = Unknown}
        good == Len(DictOf(t, k)) - Cardinality(odd)
    IN IF /\ t.cols[i].type = "enum" /\ t.cols[i].auto /\ k \in LevelKeys
          /\ good > 0 /\ Cardinality(odd) * 4 <= good
       THEN LET p == RefreshLevelRankCache(SetType(t, i, "level"), i)
            IN [p EXCEPT !.bubbles = Append(@, k)]
       ELSE t

\* Mutant: only the row that tipped the decision is encoded.
PromoteLastRowOnly(t, i) ==
    LET k == t.cols[i].key
        named == [SetType(t, i, "enum") EXCEPT !.known = @ \cup {k}]
        enc == EncodeColumnRange(named, k, Len(t.rows), Len(t.rows))
    IN IF t.cols[i].type \in EnumLike THEN t
       ELSE IF ~enc.ok \/ ShouldDemote(enc.t.health[k], HealthMin)
            THEN DemoteColumnFromEnum(enc.t, i, TRUE)
            ELSE MaybePromoteToLevel(enc.t, i)

PromoteColumnToEnum(t, i) ==
    LET k == t.cols[i].key
        named == [SetType(t, i, "enum") EXCEPT !.known = @ \cup {k}]
        enc == EncodeColumnRange(named, k, 1, Len(t.rows))
    IN IF t.cols[i].type \in EnumLike THEN t
       ELSE IF ~enc.ok \/ ShouldDemote(enc.t.health[k], HealthMin)
            THEN DemoteColumnFromEnum(enc.t, i, TRUE)
            ELSE MaybePromoteToLevel(enc.t, i)

RouteNoStringBail(tracker) == IF tracker.ints > 0 THEN "integer" ELSE "any"

-----------------------------------------------------------------------------
(* Column bookkeeping                                                      *)

(* The columns and the key ids resolved for them rotate together, and the  *)
(* configured sort column is carried along (RemapColumnIndexAfterMove).    *)
Rotated(s, src, dest) == InsertAt(RemoveAt(s, src), dest, s[src])
\* Mutant: the resolved key ids stay where they were.
MoveColumnsOnly(t, src, dest) ==
    IF src = dest \/ src \notin DOMAIN t.ids \/ dest \notin DOMAIN t.ids THEN t
    ELSE [t EXCEPT !.cols = Rotated(@, src, dest)]

MoveColumn(t, src, dest) ==
    IF src = dest \/ src \notin DOMAIN t.ids \/ dest \notin DOMAIN t.ids THEN t
    ELSE [t EXCEPT !.cols = Rotated(@, src, dest), !.ids = Rotated(@, src, dest)]

RefreshColumnKeyIds(t) ==
    [t EXCEPT !.ids = [i \in DOMAIN t.cols |->
        IF t.cols[i].key \in t.known THEN t.cols[i].key ELSE NoKey]]

(* Only columns of announced keys, or columns that are new, are re-bound.  *)
RefreshColumnKeyIdsForKeys(t, newKeys) ==
    [t EXCEPT !.ids = [i \in DOMAIN t.cols |->
        IF i \notin DOMAIN t.ids \/ t.cols[i].key \in newKeys
        THEN (IF t.cols[i].key \in t.known THEN t.cols[i].key ELSE NoKey)
        ELSE t.ids[i]]]

AppendKeys(t, newKeys) ==
    LET missing == SelectSeq(newKeys, LAMBDA k : ColumnIndexOf(t, k) = 0)
    IN [t EXCEPT !.cols = @ \o [j \in DOMAIN missing |-> Column(missing[j])]]

TimeColumnKeys(t) == {t.cols[i].key : i \in {j \in DOMAIN t.cols : t.cols[j].type = "time"}}
RefreshSnapshotTimeKeys(t) ==
    [t EXCEPT !.stageB = TimeColumnKeys(t), !.post = {}, !.known = @ \cup TimeColumnKeys(t)]

(* Enum and level columns get a dictionary and the ranks are rebuilt.      *)
RefreshSnapshotEnumKeys(t) ==
    LET enums == {i \in DOMAIN t.cols : t.cols[i].type \in EnumLike}
        seeded(acc, i) ==
            IF i \notin enums THEN acc
            ELSE RefreshLevelRankCache(
                    [GetOrInsert(acc, t.cols[i].key) EXCEPT !.known = @ \cup {t.cols[i].key}], i)
    IN FoldLeft(seeded, [t EXCEPT !.ranks = <<>>], Upto(1, Len(t.cols)))

ShouldBubbleLevelColumn(t, i) ==
    i # 0 /\ Len(t.cols) >= 2 /\ i # 2 /\ t.cols[2].type # "level"

-----------------------------------------------------------------------------
(* Detection                                                               *)

(* One line of a candidate column, as EnumCandidateTracker::Observe and    *)
(* the scan around it count it.                                            *)
Observe(tr, slot) ==
    LET seen == [tr EXCEPT !.rows = @ + 1,
                           !.present = IF slot.tag = "none" THEN @ ELSE @ + 1]
    IN CASE slot.tag = "none" -> seen
         [] slot.tag = "int" -> [seen EXCEPT !.ints = @ + 1]
         [] slot.tag # "text" -> seen
         [] slot.v \in LongTexts ->
                [seen EXCEPT !.long = @ + 1,
                    !.killed = seen.present >= HealthMin /\ (tr.long + 1) * 100 > seen.present,
                    !.seen = IF seen.present >= HealthMin /\ (tr.long + 1) * 100 > seen.present
                             THEN {} ELSE @]
         [] OTHER ->
                IF slot.v \in tr.seen THEN seen
                ELSE IF Cardinality(tr.seen) >= Cap THEN [seen EXCEPT !.killed = TRUE, !.seen = {}]
                ELSE [seen EXCEPT !.seen = @ \cup {slot.v}]

Ripe(tr, min) == tr.seen # {} /\ tr.present >= min
PromotionMin(t) == IF t.streaming THEN StreamMin ELSE StaticMin

(* The scan of rows a .. b stops as soon as the tracker can decide.        *)
Scan(t, k, tr, a, b, min) ==
    LET step(acc, r) == IF acc.killed \/ Ripe(acc, min) \/ acc.rows >= 2 * min
                        THEN acc ELSE Observe(acc, t.rows[r].cell[k])
    IN IF a > b THEN tr
       ELSE FoldLeft(step, Observe(tr, t.rows[a].cell[k]), Upto(a + 1, b))

CandidatePass(t, i, from) ==
    LET k == t.cols[i].key
        min == PromotionMin(t)
        old == IF k \in DOMAIN t.tracker THEN t.tracker[k] ELSE NewTracker
        tr == Scan(t, k, old, from, Len(t.rows), min)
        gone == [t EXCEPT !.tracker = Drop(@, k)]
        kept(x) == [t EXCEPT !.tracker = Put(@, k, x)]
    IN CASE tr.killed -> SetType(gone, i, "string")
         [] Ripe(tr, min) -> PromoteColumnToEnum(gone, i)
         [] tr.rows < 2 * min -> kept(tr)
         [] tr.present = 0 -> kept([tr EXCEPT !.rows = 0])
         [] tr.seen = {} -> SetType(gone, i, RouteNoStringBail(tr))
         [] ~t.streaming /\ Cardinality(tr.seen) * 100 > 5 * tr.present
                -> SetType(gone, i, "string")
         [] OTHER -> kept(tr)

(* An enum column takes the new rows; an auto-detected one is demoted when *)
(* they overflow the dictionary or spoil its health.                       *)
EnumColumnPass(t, i, from) ==
    LET k == t.cols[i].key
        grew(u) == Len(u.dict[k]) > Len(DictOf(t, k))
        enc == EncodeColumnRange(t, k, from, Len(t.rows))
        bad == ~enc.ok \/ ShouldDemote(enc.t.health[k], HealthMin)
        maybe == IF enc.t.cols[i].type = "enum" /\ enc.t.cols[i].auto /\ grew(enc.t)
                 THEN MaybePromoteToLevel(enc.t, i) ELSE enc.t
    IN IF bad /\ t.cols[i].auto THEN DemoteColumnFromEnum(enc.t, i, TRUE)
       ELSE IF ~enc.ok THEN enc.t
       ELSE RefreshLevelRankCache(maybe, i)

(* Which columns were rewritten as a whole is what the views are told.     *)
Touched(t, u, i) ==
    \/ t.cols[i].type \in EnumLike /\ u.cols[i].type \notin EnumLike
    \/ t.cols[i].type \notin EnumLike
       /\ (u.cols[i].type \in EnumLike \/ t.cols[i].key \in u.demoted \ t.demoted)

Widen(range, i) ==
    IF range = NoRange THEN <<i, i>>
    ELSE <<IF i < range[1] THEN i ELSE range[1], IF i > range[2] THEN i ELSE range[2]>>

MarkTouched(t, u, i) == IF Touched(t, u, i) THEN [u EXCEPT !.backfill = Widen(@, i)] ELSE u

RunEnumPassForAppendBatch(t, from) ==
    LET step(acc, i) ==
            LET c == acc.cols[i]
                u == CASE i \notin DOMAIN acc.ids \/ acc.ids[i] = NoKey -> acc
                       [] c.type \in EnumLike -> EnumColumnPass(acc, i, from)
                       [] c.type = "any" /\ c.auto -> CandidatePass(acc, i, from)
                       [] OTHER -> acc
            IN MarkTouched(acc, u, i)
    IN IF from > Len(t.rows) THEN t
       ELSE FoldLeft(step, t, Upto(1, Len(t.cols)))

(* Text slots the formats parse become timestamps; other slots, dictionary *)
(* references among them, are passed over.                                 *)
BackfillTimestampColumn(t, i, a) ==
    LET k == t.cols[i].key
        stamped(slot) == IF slot.tag = "text" /\ slot.v \in TimeTexts
                         THEN Slot("time", slot.v) ELSE slot
        after(r) == IF r >= a THEN [t.rows[r] EXCEPT !.cell[k] = stamped(t.rows[r].cell[k])] ELSE t.rows[r]
    IN [t EXCEPT !.rows = <<>> \o [r \in DOMAIN t.rows |-> after(r)]]

TimePassForAppendBatch(t, from) ==
    LET step(acc, i) ==
            LET k == acc.cols[i].key
            IN IF acc.cols[i].type # "time" \/ k \notin acc.known \/ k \in acc.stageB THEN acc
               ELSE IF k \in acc.post THEN BackfillTimestampColumn(acc, i, from)
               ELSE [BackfillTimestampColumn(acc, i, 1) EXCEPT
                        !.post = @ \cup {k}, !.backfill = Widen(@, i)]
    IN FoldLeft(step, t, Upto(1, Len(t.cols)))

(* The keys a batch announces: what the key index gained since the last    *)
(* announcement, in the order of the index.                                *)
NewKeys(t, lines) ==
    SelectSeq(KeyOrder, LAMBDA k :
        k \notin t.told /\ (k \in t.known \/ \E j \in DOMAIN lines : lines[j][k] # Absent))

(* LogTable::AppendBatch.  A line is a function from keys to values.       *)
AppendBatch(t, lines) ==
    LET newKeys == NewKeys(t, lines)
        fresh == [t EXCEPT !.backfill = NoRange, !.demoted = {}, !.bubbles = <<>>]
        from == Len(t.rows) + 1
        row(line) == [said |-> line, cell |-> [k \in Keys |-> ParsedSlot(t, k, line[k])]]
        grown == [AppendKeys(fresh, newKeys) EXCEPT
                    !.known = @ \cup Range(newKeys), !.told = @ \cup Range(newKeys),
                    !.rows = @ \o [j \in DOMAIN lines |-> row(lines[j])]]
        bound == IF newKeys = <<>> THEN grown
                 ELSE RefreshColumnKeyIdsForKeys(grown, Range(newKeys))
    IN RunEnumPassForAppendBatch(TimePassForAppendBatch(bound, from), from)

\* Mutant: the eviction is forgotten.
EvictNothing(t, n) == t

EvictPrefixRows(t, n) == [t EXCEPT !.rows = SubSeq(@, n + 1, Len(@))]

FinalizeAutoDetection(t) ==
    LET decide(acc, i) ==
            LET c == acc.cols[i]
                tr == acc.tracker[c.key]
            IN IF c.type # "any" \/ ~c.auto \/ c.key \notin DOMAIN acc.tracker THEN acc
               ELSE CASE tr.killed -> SetType(acc, i, "string")
                      [] Ripe(tr, 2) -> PromoteColumnToEnum(acc, i)
                      [] tr.seen = {} /\ tr.present > 0 -> SetType(acc, i, RouteNoStringBail(tr))
                      [] OTHER -> acc
        weed(acc, i) ==
            LET c == acc.cols[i]
            IN IF /\ c.type \in EnumLike /\ c.auto /\ c.key \in DOMAIN acc.health
                  /\ ShouldDemote(acc.health[c.key], 1)
               THEN DemoteColumnFromEnum(acc, i, FALSE) ELSE acc
        all == Upto(1, Len(t.cols))
    IN [FoldLeft(weed, FoldLeft(decide, t, all), all) EXCEPT
            !.tracker = <<>>, !.streaming = FALSE]

RescanColumnForAutoDetection(t, i) ==
    LET k == t.cols[i].key
        step(acc, r) == IF acc.killed THEN acc ELSE Observe(acc, t.rows[r].cell[k])
        tr == FoldLeft(step, NewTracker, Upto(1, Len(t.rows)))
        gone == [t EXCEPT !.tracker = Drop(@, k)]
    IN IF t.cols[i].type # "any" \/ ~t.cols[i].auto \/ t.rows = <<>> \/ t.ids[i] = NoKey THEN t
       ELSE CASE tr.killed -> SetType(gone, i, "string")
              [] Ripe(tr, 2) -> PromoteColumnToEnum(gone, i)
              [] tr.seen = {} /\ tr.present > 0 -> SetType(gone, i, RouteNoStringBail(tr))
              [] OTHER -> gone

(* Reconciles the rows with a type the user picked.                        *)
OnUserChangedColumnType(t, i, previous) ==
    LET k == t.cols[i].key
        type == t.cols[i].type
        start == RefreshColumnKeyIds([t EXCEPT !.tracker = Drop(@, k)])
        timed == BackfillTimestampColumn(
                    [start EXCEPT !.cols[i].fmt = IF @ = "" THEN "strftime" ELSE @], i, 1)
        seeded == RefreshColumnKeyIds(RefreshSnapshotEnumKeys(start))
        reset == IF previous \in EnumLike THEN seeded
                 ELSE [seeded EXCEPT !.health = Put(@, k, NoHealth)]
        enc == EncodeColumnRange(reset, k, 1, Len(t.rows))
        plain == IF previous = "time" THEN [start EXCEPT !.cols[i].fmt = "braces"] ELSE start
        torn == IF k \in DOMAIN plain.dict
                THEN SetType(DemoteColumnFromEnum(SetType(plain, i, "enum"), i, FALSE), i, type)
                ELSE plain
    IN CASE type = "time" -> timed
         [] type \in EnumLike /\ ~enc.ok -> DemoteColumnFromEnum(enc.t, i, FALSE)
         [] type \in EnumLike -> RefreshLevelRankCache(enc.t, i)
         [] OTHER -> IF k \notin t.known THEN plain
                     ELSE [torn EXCEPT !.health = Drop(@, k), !.ranks = Drop(@, k)]

-----------------------------------------------------------------------------
(* Life cycle                                                              *)

EmptyTable(cols) ==
    [cols |-> cols, ids |-> [i \in DOMAIN cols |-> NoKey], known |-> {}, rows |-> <<>>,
     dict |-> <<>>, health |-> <<>>, tracker |-> <<>>, ranks |-> <<>>, bubbles |-> <<>>,
     demoted |-> {}, backfill |-> NoRange, stageB |-> {}, spec |-> {}, post |-> {}, told |-> {},
     streaming |-> FALSE]

(* A parse starts: the parser takes the time columns of the configuration  *)
(* with it and announces only keys the index gains from now on.            *)
ParseStarts(t) ==
    [t EXCEPT !.spec = TimeColumnKeys(t), !.known = @ \cup TimeColumnKeys(t),
              !.told = t.known \cup TimeColumnKeys(t)]

BeginStreaming(t) ==
    LET cleared == [EmptyTable(t.cols) EXCEPT !.streaming = TRUE]
    IN ParseStarts(RefreshColumnKeyIds(RefreshSnapshotEnumKeys(RefreshSnapshotTimeKeys(cleared))))

AppendStreaming(t) == ParseStarts([t EXCEPT !.backfill = NoRange])

(* A configuration replaced under loaded rows: the columns are re-bound    *)
(* and the enum columns seeded, the rows are not touched.                  *)
OnConfigurationReloaded(t, cols) ==
    RefreshSnapshotEnumKeys(RefreshColumnKeyIds([t EXCEPT !.cols = cols]))
=============================================================================
