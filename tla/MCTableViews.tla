---- MODULE MCTableViews ----
EXTENDS TableViews

MCLevelOf == [v \in Texts |-> CASE v = "info" -> 1 [] v \in {"warn", "WARN"} -> 2 [] OTHER -> Unknown]
MCKeyOrder == <<"lvl", "ts">>
MCLines == [lvl : {Absent, "info", "warn", "WARN", "odd", "toolong", "seven"}, ts : {Absent}]
             \cup {[lvl |-> "info", ts |-> "noon"]}
MCBatches == {<<l>> : l \in MCLines}
              \cup {<<[lvl |-> v, ts |-> Absent], [lvl |-> w, ts |-> "noon"]>> : v, w \in {"info", "WARN"}}
Pinned(type) == [key |-> "lvl", type |-> type, auto |-> FALSE, fmt |-> "braces"]
MCConfigs == {<<>>, <<Pinned("enum")>>, <<Pinned("level")>>}
Rule(kind, vals) == {[kind |-> kind, key |-> "lvl", vals |-> vals, adv |-> a] : a \in BOOLEAN}
MCRules == Rule("enum", {"warn"}) \cup Rule("enum", {"info", "odd"}) \cup Rule("string", {"info"})
====
