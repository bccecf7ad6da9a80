----------------------------- MODULE Appearance -----------------------------
(***************************************************************************)
(* Themes and their preferences: ThemeControl, which resolves a selection  *)
(* to a theme, pins Qt's colour scheme and caches the styles the views     *)
(* paint with, and PreferencesEditor, a modeless window whose controls     *)
(* preview at once and are kept by Ok and taken back by Cancel or close.   *)
(*                                                                         *)
(* A theme is [name, kind, loud, v]: `loud` says it ships                  *)
(* levelsHighContrast, `v` stands for all its other content.  A theme file *)
(* holds such a record or is absent.  Files are read in name order and a   *)
(* user file shadows a built-in of its name, not an earlier user file.     *)
(***************************************************************************)
EXTENDS Naturals, FiniteSets, Sequences, SequencesExt

CONSTANTS
    UserFiles,      \* names of theme files, a sequence in directory order
    UserThemes,     \* what the user may write into one
    NoTheme,        \* no such file, or one that does not parse
    AutoTheme,      \* the empty selection
    Tabs,           \* open tabs of the window
    MaxThemeSteps   \* bound: steps of a behaviour

BuiltIn == {[name |-> "Light", kind |-> "light", loud |-> TRUE, v |-> 0],
            [name |-> "Dark", kind |-> "dark", loud |-> TRUE, v |-> 0]}

ASSUME ThemeAssumption ==
    /\ UserThemes \subseteq [name : STRING, kind : {"light", "dark"}, loud : BOOLEAN, v : Nat]
    /\ UserFiles \in Seq(STRING)
    /\ MaxThemeSteps \in Nat \ {0}

VARIABLES
    disk,       \* the theme files
    stored,     \* QSettings: [sel, loud, icons]
    os,         \* the colour scheme the system reports
    theme,      \* ThemeControl: [index, sel, applied, act, forced, known, loud]
    styles,     \* the style cache: what BuildStyleCache built it from
    painted,    \* the cache the views painted with last: the last themeChanged
    prefs,      \* PreferencesEditor: [open, loud, icons, wasLoud, wasIcons]
    icons,      \* LogModel::mShowLevelIcons of every tab
    current,    \* the active tab
    due,        \* a palette event is on its way to the main window
    leak,       \* why a preview may outlive the window (history)
    did,        \* the last operation (history)
    themeSteps

themeVars ==
    <<disk, stored, os, theme, styles, painted, prefs, icons, current, due, leak, did, themeSteps>>

-----------------------------------------------------------------------------
(* ThemeControl.                                                           *)

\* DiscoverThemes: built-ins, then user files in order; the first user file
\* of a name wins.
UserWins(files, i) ==
    /\ files[i] # NoTheme
    /\ \A j \in 1 .. i - 1 : files[j] = NoTheme \/ files[j].name # files[i].name
DiscoverThemes(files) ==
    LET user == {files[i] : i \in {j \in DOMAIN files : UserWins(files, j)}}
    IN user \cup {b \in BuiltIn : \A t \in user : t.name # b.name}

Named(index, n) == {t \in index : t.name = n}

\* The cache depends on the theme and, where it ships the block, on the flag.
BuildStyleCache(t, loud) == [name |-> t.name, v |-> t.v, loud |-> loud /\ t.loud]

UnforceKeepingScheme(c) == [c EXCEPT !.forced = FALSE]

\* hints->unsetColorScheme() and the reading of the system's scheme after it.
Unforce(c) == IF c.forced THEN [c EXCEPT !.forced = FALSE, !.known = os] ELSE c

ApplyColorSchemeHint(c) ==
    IF c.sel = AutoTheme THEN Unforce(c)
    ELSE [c EXCEPT !.known = IF c.forced THEN @ ELSE os, !.forced = TRUE]

\* ResolveAndApplyActive: the control afterwards, and whether themeChanged
\* was emitted.
Resolved(c) ==
    LET gone == c.sel # AutoTheme /\ Named(c.index, c.sel) = {}
        kept == IF gone THEN [c EXCEPT !.sel = AutoTheme] ELSE c
        free == IF kept.sel = AutoTheme THEN Unforce(kept) ELSE kept
        name == IF free.sel # AutoTheme THEN free.sel
                ELSE IF free.known = "dark" THEN "Dark" ELSE "Light"
    IN [c |-> free, chosen |-> CHOOSE t \in Named(c.index, name) : TRUE]

HintOnlyWithTheme(c, emitWhenUnchanged) ==
    LET r == Resolved(c)
        taken == [r.c EXCEPT !.act = r.chosen, !.applied = r.c.sel]
    IN IF r.chosen = c.act \/ (r.chosen.name = c.act.name /\ ~emitWhenUnchanged)
       THEN [c |-> r.c, changed |-> FALSE]
       ELSE [c |-> ApplyColorSchemeHint(taken), changed |-> TRUE]

ReloadByNameOnly(c, emitWhenUnchanged) ==
    LET r == Resolved(c)
        flip == (r.c.sel = AutoTheme) # (c.applied = AutoTheme)
        taken == [r.c EXCEPT !.act = r.chosen, !.applied = r.c.sel]
    IN IF r.chosen.name = c.act.name
       THEN [c |-> IF flip THEN ApplyColorSchemeHint([r.c EXCEPT !.applied = r.c.sel]) ELSE r.c,
             changed |-> FALSE]
       ELSE [c |-> ApplyColorSchemeHint(taken), changed |-> TRUE]

ResolveAndApplyActive(c, emitWhenUnchanged) ==
    LET r == Resolved(c)
        unchanged == r.chosen.name = c.act.name
        flip == (r.c.sel = AutoTheme) # (c.applied = AutoTheme)
        taken == [r.c EXCEPT !.act = r.chosen, !.applied = r.c.sel]
    IN IF unchanged /\ ~emitWhenUnchanged
       THEN [c |-> IF flip THEN ApplyColorSchemeHint([r.c EXCEPT !.applied = r.c.sel]) ELSE r.c,
             changed |-> FALSE]
       ELSE IF unchanged /\ r.chosen = c.act /\ ~flip
       THEN [c |-> r.c, changed |-> FALSE]
       ELSE [c |-> ApplyColorSchemeHint(taken), changed |-> TRUE]

\* The control's new state with its cache; themeChanged repaints every view.
Apply(r) ==
    /\ theme' = r.c
    /\ styles' = IF r.changed THEN BuildStyleCache(r.c.act, r.c.loud) ELSE styles
    /\ painted' = IF r.changed THEN styles' ELSE painted

HighContrastSilently(c, on) == [c |-> [c EXCEPT !.loud = on], changed |-> FALSE]

SetHighContrast(c, on) ==
    [c |-> [c EXCEPT !.loud = on], changed |-> c.loud # on /\ c.act.loud]

SetActiveSelection(c, n) ==
    IF n = c.sel THEN [c |-> c, changed |-> FALSE]
    ELSE ResolveAndApplyActive([c EXCEPT !.sel = n], FALSE)

RevertThemeOnly(c) == SetActiveSelection(c, stored.sel)

\* The preference window takes its previews back: theme first, then contrast.
Revert(c) ==
    LET back == SetActiveSelection(c, stored.sel)
        calm == IF prefs.loud # prefs.wasLoud THEN SetHighContrast(back.c, prefs.wasLoud)
                ELSE [c |-> back.c, changed |-> FALSE]
    IN [c |-> calm.c, changed |-> back.changed \/ calm.changed]

-----------------------------------------------------------------------------
(* Operations.                                                             *)

Step(name) == did' = name /\ themeSteps' = themeSteps + 1

Closed == [open |-> FALSE, loud |-> FALSE, icons |-> TRUE, wasLoud |-> FALSE, wasIcons |-> TRUE]

\* ThemeControl's constructor and LoadConfiguration; the window seeds the
\* first tab's model from the settings, other tabs keep the model's default.
LoadStored(s, files) ==
    LET index == DiscoverThemes(files)
        blank == [index |-> index, sel |-> s.sel, applied |-> AutoTheme,
                  act |-> [name |-> "", kind |-> "light", loud |-> FALSE, v |-> 0],
                  forced |-> FALSE, known |-> os, loud |-> s.loud]
    IN ResolveAndApplyActive(blank, FALSE).c

ThemeInit ==
    /\ os \in {"light", "dark"}
    /\ disk \in [DOMAIN UserFiles -> {NoTheme} \cup UserThemes]
    /\ stored \in [sel : {AutoTheme, "Dark"}, loud : BOOLEAN, icons : {TRUE}]
    /\ theme = LoadStored(stored, disk)
    /\ styles = BuildStyleCache(theme.act, theme.loud) /\ painted = styles
    /\ prefs = Closed
    /\ current = CHOOSE t \in Tabs : TRUE
    /\ icons = [t \in Tabs |-> TRUE]
    /\ due = FALSE /\ leak = "none" /\ did = "start" /\ themeSteps = 0

\* The system switches its scheme: colorSchemeChanged reaches the control at
\* once, the palette event that makes the window re-evaluate comes later.
OnPlatformColorSchemeChanged ==
    /\ os' = IF os = "light" THEN "dark" ELSE "light"
    /\ theme' = IF theme.forced THEN theme ELSE [theme EXCEPT !.known = os']
    /\ due' = TRUE /\ Step("system")
    /\ UNCHANGED <<disk, stored, styles, painted, prefs, icons, current, leak>>

\* MainWindow::event: ApplicationPaletteChange, ThemeChange.
Reevaluate ==
    /\ due /\ due' = FALSE
    /\ Apply(IF theme.sel # AutoTheme THEN [c |-> theme, changed |-> FALSE]
             ELSE ResolveAndApplyActive(theme, FALSE))
    /\ Step("palette")
    /\ UNCHANGED <<disk, stored, os, prefs, icons, current, leak>>

\* A theme file is edited, added or removed outside the program.
EditFile(i, t) ==
    /\ disk[i] # t
    /\ disk' = [disk EXCEPT ![i] = t] /\ Step("edit")
    /\ UNCHANGED <<stored, os, theme, styles, painted, prefs, icons, current, due, leak>>

\* UpdateFields, from the action that opens the window or raises it again.
OpenPreferences ==
    /\ prefs' = [open |-> TRUE, loud |-> stored.loud, icons |-> stored.icons,
                 wasLoud |-> stored.loud, wasIcons |-> stored.icons]
    /\ leak' = IF prefs.open /\ (prefs.loud # stored.loud \/ prefs.icons # stored.icons)
               THEN "reopened" ELSE leak
    /\ Step("prefs")
    /\ UNCHANGED <<disk, stored, os, theme, styles, painted, icons, current, due>>

ReloadAll ==
    /\ prefs.open
    /\ Apply(ResolveAndApplyActive([theme EXCEPT !.index = DiscoverThemes(disk)], TRUE))
    /\ Step("reload")
    /\ UNCHANGED <<disk, stored, os, prefs, icons, current, due, leak>>

PickTheme(n) ==
    /\ prefs.open /\ (n = AutoTheme \/ Named(theme.index, n) # {})
    /\ Apply(SetActiveSelection(theme, n))
    /\ Step("pick")
    /\ UNCHANGED <<disk, stored, os, prefs, icons, current, due, leak>>

\* The "High contrast levels" box, enabled while the theme ships the block.
ToggleLoud ==
    /\ prefs.open /\ theme.act.loud
    /\ prefs' = [prefs EXCEPT !.loud = ~@]
    /\ Apply(SetHighContrast(theme, ~prefs.loud))
    /\ Step("loud")
    /\ UNCHANGED <<disk, stored, os, icons, current, due, leak>>

\* "Show level icons": the slot changes the active tab's model.
ToggleIcons ==
    /\ prefs.open
    /\ prefs' = [prefs EXCEPT !.icons = ~@]
    /\ icons' = [icons EXCEPT ![current] = ~prefs.icons]
    /\ Step("icons")
    /\ UNCHANGED <<disk, stored, os, theme, styles, painted, current, due, leak>>

SwitchTab(t) ==
    /\ t # current /\ current' = t /\ Step("tab")
    /\ leak' = IF prefs.open /\ prefs.icons # prefs.wasIcons THEN "tab" ELSE leak
    /\ UNCHANGED <<disk, stored, os, theme, styles, painted, prefs, icons, due>>

\* Duplicate active theme: SaveUserTheme under a free name, which reads every
\* theme again; a write may fail and then nothing changes.
DuplicateTheme(i) ==
    LET copy == [theme.act EXCEPT !.name = UserFiles[i]]
        files == [disk EXCEPT ![i] = copy]
        c == [theme EXCEPT !.index = DiscoverThemes(files)]
    IN /\ prefs.open /\ Named(theme.index, UserFiles[i]) = {}
       /\ disk' = files
       /\ Apply(IF copy.name = theme.act.name THEN ResolveAndApplyActive(c, TRUE)
                ELSE [c |-> c, changed |-> FALSE])
       /\ Step("duplicate")
       /\ UNCHANGED <<stored, os, prefs, icons, current, due, leak>>

Ok ==
    /\ prefs.open
    /\ stored' = [sel |-> theme.sel,
                  loud |-> IF prefs.loud # prefs.wasLoud THEN prefs.loud ELSE stored.loud,
                  icons |-> IF prefs.icons # prefs.wasIcons THEN prefs.icons ELSE stored.icons]
    /\ prefs' = Closed /\ Step("ok")
    /\ UNCHANGED <<disk, os, theme, styles, painted, icons, current, due, leak>>

\* Cancel, and closeEvent when no button closes the window.
Cancel ==
    /\ prefs.open
    /\ Apply(Revert(theme))
    /\ icons' = IF prefs.icons # prefs.wasIcons
                THEN [icons EXCEPT ![current] = prefs.wasIcons] ELSE icons
    /\ prefs' = Closed /\ Step("cancel")
    /\ UNCHANGED <<disk, stored, os, current, due, leak>>

\* The program is started again.
Restart ==
    /\ ~prefs.open
    /\ theme' = LoadStored(stored, disk)
    /\ styles' = BuildStyleCache(theme'.act, theme'.loud) /\ painted' = styles'
    /\ icons' = [t \in Tabs |-> IF t = current THEN stored.icons ELSE TRUE]
    /\ due' = FALSE /\ leak' = "none" /\ Step("start")
    /\ UNCHANGED <<disk, stored, os, prefs, current>>

Selections == {AutoTheme, "Light", "Dark"} \cup {t.name : t \in UserThemes} \cup Range(UserFiles)

ThemeNext ==
    /\ themeSteps < MaxThemeSteps
    /\ \/ OnPlatformColorSchemeChanged \/ Reevaluate \/ OpenPreferences \/ ReloadAll
       \/ ToggleLoud \/ ToggleIcons \/ Ok \/ Cancel \/ Restart
       \/ \E n \in Selections : PickTheme(n)
       \/ \E i \in DOMAIN UserFiles : \/ DuplicateTheme(i)
                                      \/ \E t \in UserThemes \cup {NoTheme} : EditFile(i, t)
       \/ \E t \in Tabs : SwitchTab(t)

ThemeSpec == ThemeInit /\ [][ThemeNext]_themeVars

-----------------------------------------------------------------------------
(* Properties.                                                             *)

\* Under Auto the theme shown is the system's, although the system may have
\* switched while an explicit theme held Qt's colour scheme.
AutoFollowsSystem ==
    theme.sel = AutoTheme /\ ~due =>
        /\ ~theme.forced
        /\ theme.act.name = IF os = "dark" THEN "Dark" ELSE "Light"

\* An explicit selection is the theme shown, with the scheme pinned, whatever
\* the system reports.
SelectionPinned == theme.sel # AutoTheme => theme.act.name = theme.sel /\ theme.forced

\* Every view has painted with the style of the active theme and of the
\* contrast setting: no change of either leaves the cache or a view behind.
StylesCurrent ==
    styles = BuildStyleCache(theme.act, theme.loud) /\ painted = styles

\* A reload shows what the files hold, also when only the content of the
\* active theme changed.
ReloadShowsFiles == did = "reload" => theme.act \in DiscoverThemes(disk)

\* Once the preference window is closed no preview outlives it: the theme and
\* the contrast are the stored ones (a stored theme whose file has gone
\* falls back to Auto).
PreviewsEnd ==
    ~prefs.open /\ leak = "none" =>
        /\ theme.loud = stored.loud
        /\ theme.sel # stored.sel => theme.sel = AutoTheme /\ did # "ok"

\* What is painted follows what was chosen, through system changes, reloads,
\* previews and the closing of the preference window.
PaintedAsChosen ==
    AutoFollowsSystem /\ SelectionPinned /\ StylesCurrent /\ ReloadShowsFiles /\ PreviewsEnd

-----------------------------------------------------------------------------
(* Claims of the code's comments and the manual that do not hold.          *)

\* "Revert the live previews to the captured initial state."
CancelReverts == did = "cancel" => theme.loud = stored.loud

\* "Show level icons": the preference of the program, not of one tab.
IconsEverywhere == ~prefs.open => \A t \in Tabs : icons[t] = stored.icons
=============================================================================
