------------------------------- MODULE MCDesk -------------------------------
(***************************************************************************)
(* What outlives a session or belongs to no single one, run one part at a  *)
(* time: launches that race through the single-instance guard, processes   *)
(* that share the session history, archives that are decoded, sessions     *)
(* that export to one bundle, a selection of logs expanded to its rotated  *)
(* files, themes and their preferences, and highlight rules with their     *)
(* editor.  A behaviour chooses its scenario at the start.                 *)
(***************************************************************************)
EXTENDS Workspace, SingleInstance, Decompression, SessionBundle, RotationSiblings,
        Appearance, HighlightRules

CONSTANT Scenarios
VARIABLE scenario

Word(n) == [k |-> "w", v |-> n]
Number(n) == [k |-> "n", v |-> n]
Date(n) == [k |-> "d", v |-> n]
Codec == [k |-> "z", v |-> 1]
Log == <<Word(1), Word(2)>>
MCFileNames == {Log, Log \o <<Number(1)>>, Log \o <<Number(2), Codec>>, Log \o <<Number(1), Codec>>, Log \o <<Date(5)>>,
                <<Word(1), Date(3), Word(2)>>, Log \o <<Date(0)>>, Log \o <<Number(1), Number(1)>>, Log \o <<Number(9)>>}

Unit(n) == [out |-> n, last |-> FALSE, bad |-> FALSE]
Trailer == [out |-> 0, last |-> TRUE, bad |-> FALSE]
Damaged == [out |-> 0, last |-> FALSE, bad |-> TRUE]
MCArchives == {[codec |-> c, units |-> u, nl |-> n] : c \in {"gzip", "bzip2", "xz", "zstd", "none"},
               u \in SeqOf({Unit(1), Unit(3), Trailer, Damaged}, 4), n \in {0, 2}}

Record(s, l) == [src |-> s, line |-> l]
MCTables == [w1 |-> [rows |-> <<Record("a", 0), Record("b", 0), Record("b", 1)>>, anchors |-> {Record("b", 1), Record("a", 7)}],
             w2 |-> [rows |-> <<Record("a", 5), Record("a", 6), Record("a", 5)>>, anchors |-> {Record("a", 5), Record("a", 6)}],
             old |-> [rows |-> <<Record("a", 0)>>, anchors |-> {Record("a", 0)}]]

Theme(n, k, l, v) == [name |-> n, kind |-> k, loud |-> l, v |-> v]
MCUserThemes == {Theme("Dark", "dark", FALSE, 1), Theme("Mine", "dark", TRUE, 1), Theme("Mine", "light", FALSE, 2)}
MCUserFiles == <<"a", "Dark-copy">>

MCNewColumns == {<<"a">>, <<"b", "bb">>}
MCLogRows == {[key |-> "a", value |-> "x"], [key |-> "bb", value |-> "x"]}
MCRuleNeedles == {"", "x"}
MCRuleFiles == {[cols |-> <<>>, rules |-> <<[keys |-> <<"bb">>, needle |-> "x", enabled |-> TRUE]>>],
                [cols |-> <<<<"a">>, <<"b", "bb">>>>,
                 rules |-> <<[keys |-> <<"b">>, needle |-> "x", enabled |-> TRUE],
                             [keys |-> <<"a">>, needle |-> "x", enabled |-> FALSE]>>]}

vars == <<scenario, workspaceVars, guardVars, decVars, bundleVars, rotationVars, themeVars, ruleVars>>

\* The parts a scenario leaves alone.
Rest(s) ==
    /\ UNCHANGED scenario
    /\ s # "history" => UNCHANGED workspaceVars
    /\ s # "launches" => UNCHANGED guardVars
    /\ s # "decode" => UNCHANGED decVars
    /\ s # "bundle" => UNCHANGED bundleVars
    /\ s # "rotation" => UNCHANGED rotationVars
    /\ s # "themes" => UNCHANGED themeVars
    /\ s # "rules" => UNCHANGED ruleVars

Init ==
    /\ scenario \in Scenarios
    /\ WorkspaceInit /\ GuardInit /\ DecInit /\ BundleInit /\ RotationInit /\ ThemeInit /\ RuleInit
    /\ scenario # "history" => slots = <<>>
    /\ scenario # "bundle" => onDisk["dest"] = {}
    /\ scenario # "themes" => os = "light" /\ stored.sel = AutoTheme /\ ~stored.loud /\ \A f \in DOMAIN disk : disk[f] = NoTheme
    /\ scenario # "rules" => active = CHOOSE t \in RuleTabs : TRUE

Next ==
    \/ scenario = "history" /\ WorkspaceNext /\ Rest("history")
    \/ scenario = "launches" /\ GuardNext /\ Rest("launches")
    \/ scenario = "decode" /\ DecNext /\ Rest("decode")
    \/ scenario = "bundle" /\ BundleNext /\ Rest("bundle")
    \/ scenario = "rotation" /\ RotationNext /\ Rest("rotation")
    \/ scenario = "themes" /\ ThemeNext /\ Rest("themes")
    \/ scenario = "rules" /\ RuleNext /\ Rest("rules")

Spec == Init /\ [][Next]_vars
=============================================================================
