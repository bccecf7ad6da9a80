----------------------------- MODULE DeskProofs -----------------------------
(***************************************************************************)
(* Proofs about what is kept between launches and shared by the windows:   *)
(* the published workspace (part 1), the theme (part 2), the session       *)
(* bundle (part 3), the single-instance guard (part 4), the index of the   *)
(* recent sessions (parts 5 and 6), the windows of the last quit (part 7). *)
(***************************************************************************)
EXTENDS Workspace, SingleInstance, Appearance, SessionBundle, FiniteSetTheorems, SequenceTheorems,
        WellFoundedInduction, TLAPS

-----------------------------------------------------------------------------
(* 1. The published workspace.                                             *)

(* Every session a workspace document names has its copy.                  *)
HasItsSnapshots(d, copies) ==
    \A u \in ToSet(d.windows) \ {None} : d.generation \in DOMAIN copies /\ u \in copies[d.generation]

Publishing == {"copy", "write", "collect"}

(* The document names what it has, the draft being written is the next     *)
(* generation and has its own, and the collector works for the document.   *)
PublishInv ==
    /\ DOMAIN draft = Instances /\ DOMAIN app = Instances
    /\ doc.generation \in Nat
    /\ \A p \in Instances : app[p] \in Publishing => p \in Publishers
    /\ HasItsSnapshots(doc, generations)
    /\ \A p \in Instances : app[p] = "write" =>
          draft[p].generation = doc.generation + 1 /\ HasItsSnapshots(draft[p], generations)
    /\ \A p \in Instances : app[p] = "collect" => doc = draft[p]

(* What WriteGenerationSnapshots copies is what its draft names, and the   *)
(* published generation keeps its copies.                                  *)
LEMMA CopiesBeforeManifest ==
    ASSUME NEW p \in Instances, PublishInv, WriteGenerationSnapshots(p)
    PROVE  /\ HasItsSnapshots(doc, generations')
           /\ draft'[p].generation = doc.generation + 1
           /\ HasItsSnapshots(draft'[p], generations')
<1> DEFINE all == Merged(hosted[p], deferred[p])
           next == [generation |-> doc.generation + 1,
                    windows |-> [i \in 1..Len(all) |-> IF Copyable(all[i]) THEN all[i] ELSE None]]
           copied == ToSet(next.windows) \ {None}
           gs == DOMAIN generations \union {next.generation}
           old == IF next.generation \in DOMAIN generations THEN generations[next.generation] ELSE {}
<1>1. draft' = [draft EXCEPT ![p] = next]
  BY DEF WriteGenerationSnapshots
<1>2. generations' = [g \in gs |-> IF g # next.generation THEN generations[g]
                                   ELSE copied \union (IF g \in DOMAIN generations THEN generations[g] ELSE {})]
  BY DEF WriteGenerationSnapshots
<1>3. draft'[p] = next
  BY <1>1 DEF PublishInv
<1>4. next.generation = doc.generation + 1 /\ next.generation # doc.generation
  BY DEF PublishInv
<1> HIDE DEF next, copied
<1>5. HasItsSnapshots(draft'[p], generations')
  <2>1. next.generation \in DOMAIN generations' /\ copied \subseteq generations'[next.generation]
    BY <1>2
  <2> QED BY <1>3, <2>1 DEF HasItsSnapshots, copied
<1>6. HasItsSnapshots(doc, generations')
  BY <1>2, <1>4 DEF HasItsSnapshots, PublishInv
<1> QED BY <1>3, <1>4, <1>5, <1>6

(* Every step keeps it; only the three steps of Publish touch what it is   *)
(* about, and no two processes are in Publish.                             *)
LEMMA PublishStep ==
    ASSUME \A p, q \in Publishers : p = q, PublishInv, [WorkspaceNext]_workspaceVars
    PROVE  PublishInv'
<1> DEFINE Aside == UNCHANGED <<doc, generations, draft>>
           Where(p) == /\ DOMAIN app' = Instances
                       /\ \A q \in Instances : app'[q] \in Publishing => app'[q] = app[q] \/ (q = p /\ app'[q] = "copy" /\ q \in Publishers)
<1>1. ASSUME NEW p \in Instances, Aside, Where(p)
      PROVE  PublishInv'
  BY <1>1 DEF PublishInv, HasItsSnapshots, Publishing
<1>2. CASE UNCHANGED workspaceVars
  BY <1>2 DEF PublishInv, HasItsSnapshots, workspaceVars
<1>3. ASSUME NEW p \in Instances,
             \/ Start(p) \/ CleanupOrphanFiles(p) \/ RestoreWorkspace(p) \/ RestoreFromHistory(p)
             \/ TouchRestored(p) \/ Restored(p)
             \/ \E u \in Uuids : OpenRecentSession(p, u) \/ CloseTab(p, u) \/ \E same \in BOOLEAN : AutoSave(p, u, same)
             \/ ClearRecents(p)
             \/ BeginQuit(p) \/ SaveHosted(p)
      PROVE  PublishInv'
  <2>1. Aside
    BY <1>3 DEF Start, CleanupOrphanFiles, RestoreWorkspace, RestoreFromHistory, TouchRestored, Restored,
                OpenRecentSession, CloseTab, AutoSave, ClearRecents, BeginQuit, SaveHosted, workspaceOnly
  <2>2. app' = app \/ \E w \in {"sweep", "load", "run", "touch", "save"} : GoTo(p, w)
    BY <1>3 DEF Start, CleanupOrphanFiles, RestoreWorkspace, RestoreFromHistory, TouchRestored, Restored,
                OpenRecentSession, CloseTab, AutoSave, ClearRecents, BeginQuit, SaveHosted
  <2>3. Where(p)
    BY <2>2 DEF GoTo, PublishInv, Publishing
  <2> QED BY <1>1, <2>1, <2>3
<1>4. ASSUME NEW p \in Instances, PublishOpenWindows(p)
      PROVE  PublishInv'
  <2>1. Aside
    BY <1>4 DEF PublishOpenWindows, workspaceOnly
  <2>2. Where(p)
    BY <1>4 DEF PublishOpenWindows, GoTo, PublishInv, Publishing
  <2> QED BY <1>1, <2>1, <2>2
<1>5. ASSUME NEW p \in Instances, WriteGenerationSnapshots(p)
      PROVE  PublishInv'
  <2>1. app' = [app EXCEPT ![p] = "write"] /\ doc' = doc /\ app[p] = "copy" /\ DOMAIN draft' = Instances
    BY <1>5 DEF WriteGenerationSnapshots, GoTo, Idle, PublishInv
  <2>2. \A q \in Instances \ {p} : app[q] \notin Publishing
    BY <2>1 DEF PublishInv, Publishing
  <2>3. \A q \in Instances : app'[q] = IF q = p THEN "write" ELSE app[q]
    BY <2>1 DEF PublishInv
  <2> QED BY <1>5, <2>1, <2>2, <2>3, CopiesBeforeManifest DEF PublishInv, HasItsSnapshots, Publishing
<1>6. ASSUME NEW p \in Instances, WriteManifest(p)
      PROVE  PublishInv'
  <2>1. app[p] = "write" /\ UNCHANGED <<generations, draft>>
    BY <1>6 DEF WriteManifest, Idle
  <2>2. \/ doc' = draft[p] /\ app' = [app EXCEPT ![p] = "collect"]
        \/ doc' = doc /\ app' = [app EXCEPT ![p] = "exit"]
    BY <1>6 DEF WriteManifest, GoTo
  <2>3. \A q \in Instances \ {p} : app[q] \notin Publishing
    BY <2>1 DEF PublishInv, Publishing
  <2> QED BY <2>1, <2>2, <2>3 DEF PublishInv, HasItsSnapshots, Publishing
<1>7. ASSUME NEW p \in Instances, CollectSupersededGenerations(p)
      PROVE  PublishInv'
  <2>1. app[p] = "collect" /\ UNCHANGED <<doc, draft>> /\ app' = [app EXCEPT ![p] = "exit"] /\ doc = draft[p]
    BY <1>7 DEF CollectSupersededGenerations, Idle, GoTo, PublishInv
  <2>2. generations' = [g \in DOMAIN generations \intersect {doc.generation} |-> generations[g]]
    BY <1>7, <2>1 DEF CollectSupersededGenerations, KeptGeneration
  <2>3. HasItsSnapshots(doc, generations')
    BY <2>2 DEF HasItsSnapshots, PublishInv
  <2>4. \A q \in Instances \ {p} : app[q] \notin Publishing
    BY <2>1 DEF PublishInv, Publishing
  <2> QED BY <2>1, <2>3, <2>4 DEF PublishInv, HasItsSnapshots, Publishing
<1>8. ASSUME NEW p \in Instances, Exit(p) \/ Crash(p) \/ Write(p) \/ \E u \in Uuids : Vanish(u)
      PROVE  PublishInv'
  <2>1. Aside
    BY <1>8 DEF Exit, Crash, Write, Vanish, workspaceOnly
  <2>2. app' = app \/ GoTo(p, "off")
    BY <1>8 DEF Exit, Crash, Write, Vanish, Gone
  <2>3. Where(p)
    BY <2>2 DEF GoTo, PublishInv, Publishing
  <2> QED BY <1>1, <2>1, <2>3
<1> QED BY <1>2, <1>3, <1>4, <1>5, <1>6, <1>7, <1>8 DEF WorkspaceNext

(* Publish copies the snapshots, then commits the manifest, then collects: *)
(* with one publishing process (the primary of SingleInstance) a crash or  *)
(* a failed write anywhere leaves a manifest whose sessions have copies.   *)
THEOREM WorkspaceSurvivesCrash ==
    ASSUME \A p, q \in Publishers : p = q
    PROVE  WorkspaceSpec => []ManifestHasItsSnapshots
<1>1. WorkspaceInit => PublishInv
  BY DEF WorkspaceInit, PublishInv, HasItsSnapshots, Publishing, ToSet
<1>2. PublishInv /\ [WorkspaceNext]_workspaceVars => PublishInv'
  BY PublishStep
<1>3. PublishInv => ManifestHasItsSnapshots
  BY DEF PublishInv, HasItsSnapshots, ManifestHasItsSnapshots
<1> QED BY <1>1, <1>2, <1>3, PTL DEF WorkspaceSpec

-----------------------------------------------------------------------------
(* 2. The theme.                                                           *)

Schemes == {"light", "dark"}
(* Literals are strings; the provers are told so.                          *)
ThemeNames == STRING \cup {"", "Light", "Dark"}
Themes == [name : ThemeNames, kind : Schemes, loud : BOOLEAN, v : Nat]
Controls == [index : SUBSET Themes, sel : ThemeNames \cup {AutoTheme}, applied : ThemeNames \cup {AutoTheme}, act : Themes,
             forced : BOOLEAN, known : Schemes, loud : BOOLEAN]

SchemeTheme == IF os = "dark" THEN "Dark" ELSE "Light"

ShipsBuiltIns(index) == Named(index, "Light") # {} /\ Named(index, "Dark") # {}

(* Qt's scheme is held exactly while the last selection applied was        *)
(* explicit; released, what the control knows is the system's.             *)
Steady(c) ==
    /\ c \in Controls /\ ShipsBuiltIns(c.index)
    /\ c.forced <=> c.applied # AutoTheme
    /\ ~c.forced => c.known = os

(* The selection is the one applied.                                       *)
Settled(c) == Steady(c) /\ (c.applied = AutoTheme <=> c.sel = AutoTheme)

Shown(c) == c.act.name = IF c.sel # AutoTheme THEN c.sel ELSE SchemeTheme

(* An operation on the control that leaves no cached style behind.         *)
Painting(c, r) ==
    /\ r.changed \in BOOLEAN
    /\ ~r.changed => BuildStyleCache(r.c.act, r.c.loud) = BuildStyleCache(c.act, c.loud)

ThemeTypeOK ==
    /\ disk \in [DOMAIN UserFiles -> {NoTheme} \cup Themes]
    /\ stored \in [sel : ThemeNames \cup {AutoTheme}, loud : BOOLEAN, icons : BOOLEAN]
    /\ os \in Schemes /\ due \in BOOLEAN
    /\ prefs \in [open : BOOLEAN, loud : BOOLEAN, icons : BOOLEAN, wasLoud : BOOLEAN, wasIcons : BOOLEAN]

(* While the window is open its box shows the contrast of the control,     *)
(* unless a preview outlived an earlier opening.                           *)
PreviewInv ==
    prefs.open => /\ prefs.wasLoud = stored.loud
                  /\ leak = "none" => theme.loud = prefs.loud

ThemeInv ==
    /\ ThemeTypeOK /\ Settled(theme)
    /\ theme.sel # AutoTheme \/ ~due => Shown(theme)
    /\ StylesCurrent /\ ReloadShowsFiles /\ PreviewInv /\ PreviewsEnd

(* Built-ins are there whatever the files hold: a theme that shadows one   *)
(* has its name.                                                           *)
LEMMA Discovered ==
    ASSUME NEW found \in [DOMAIN UserFiles -> {NoTheme} \cup Themes]
    PROVE  DiscoverThemes(found) \in SUBSET Themes /\ ShipsBuiltIns(DiscoverThemes(found))
<1> DEFINE user == {found[i] : i \in {j \in DOMAIN found : UserWins(found, j)}}
<1>1. user \subseteq Themes
  BY DEF UserWins
<1>2. BuiltIn \subseteq Themes
  <2>1. \A n \in ThemeNames, k \in Schemes : [name |-> n, kind |-> k, loud |-> TRUE, v |-> 0] \in Themes
    BY DEF Themes
  <2>2. {"Light", "Dark"} \subseteq ThemeNames /\ {"light", "dark"} \subseteq Schemes
    BY DEF ThemeNames, Schemes
  <2> QED BY <2>1, <2>2 DEF BuiltIn
<1>3. DiscoverThemes(found) = user \cup {b \in BuiltIn : \A t \in user : t.name # b.name}
  BY DEF DiscoverThemes
<1> HIDE DEF user
<1>4. \A b \in BuiltIn : Named(DiscoverThemes(found), b.name) # {}
  BY <1>3 DEF Named
<1>5. Named(DiscoverThemes(found), "Light") # {} /\ Named(DiscoverThemes(found), "Dark") # {}
  BY <1>4 DEF BuiltIn
<1> QED BY <1>1, <1>2, <1>3, <1>5 DEF ShipsBuiltIns

(* The theme resolved is in the index under the name of the selection, or  *)
(* of the system's scheme when the selection is empty or gone.             *)
LEMMA ResolvedRight ==
    ASSUME NEW c, Steady(c), os \in Schemes
    PROVE  LET r == Resolved(c)
           IN  /\ \/ r.c = c /\ c.sel # AutoTheme
                  \/ r.c = [c EXCEPT !.sel = AutoTheme, !.forced = FALSE, !.known = os]
               /\ r.chosen \in c.index
               /\ r.chosen.name = IF r.c.sel # AutoTheme THEN r.c.sel ELSE SchemeTheme
<1> DEFINE gone == c.sel # AutoTheme /\ Named(c.index, c.sel) = {}
           kept == IF gone THEN [c EXCEPT !.sel = AutoTheme] ELSE c
           free == IF kept.sel = AutoTheme THEN Unforce(kept) ELSE kept
           name == IF free.sel # AutoTheme THEN free.sel ELSE IF free.known = "dark" THEN "Dark" ELSE "Light"
<1>1. Resolved(c) = [c |-> free, chosen |-> CHOOSE t \in Named(c.index, name) : TRUE]
  BY DEF Resolved
<1>2. \/ free = c /\ c.sel # AutoTheme /\ ~gone
      \/ free = [c EXCEPT !.sel = AutoTheme, !.forced = FALSE, !.known = os]
  BY DEF Unforce, Steady, Controls
<1>3. name = IF free.sel # AutoTheme THEN free.sel ELSE SchemeTheme
  BY <1>2 DEF SchemeTheme, Steady, Controls
<1>4. Named(c.index, name) # {}
  BY <1>2, <1>3 DEF SchemeTheme, Steady, Controls, ShipsBuiltIns
<1> HIDE DEF free, name
<1>5. (CHOOSE t \in Named(c.index, name) : TRUE) \in Named(c.index, name)
  BY <1>4
<1> QED BY <1>1, <1>2, <1>3, <1>5 DEF Named

(* ResolveAndApplyActive shows the selection, or what it falls back to,    *)
(* with the scheme pinned or released, and emits when what is shown        *)
(* changed.                                                                *)
LEMMA AppliedRight ==
    ASSUME NEW c, Steady(c), os \in Schemes, NEW emit \in BOOLEAN
    PROVE  LET r == ResolveAndApplyActive(c, emit)
           IN  /\ Settled(r.c) /\ Shown(r.c) /\ Painting(c, r)
               /\ r.c.index = c.index /\ r.c.loud = c.loud /\ r.c.sel \in {c.sel, AutoTheme}
               /\ emit => r.c.act \in c.index
<1> DEFINE s == Resolved(c)
           unchanged == s.chosen.name = c.act.name
           flip == (s.c.sel = AutoTheme) # (c.applied = AutoTheme)
           taken == [s.c EXCEPT !.act = s.chosen, !.applied = s.c.sel]
           held == [s.c EXCEPT !.applied = s.c.sel]
           r == ResolveAndApplyActive(c, emit)
<1>1. /\ s.c \in Controls /\ s.c.index = c.index /\ s.c.loud = c.loud /\ s.c.act = c.act
      /\ s.c.applied = c.applied /\ s.c.sel \in {c.sel, AutoTheme}
      /\ s.chosen \in c.index /\ s.chosen \in Themes
      /\ s.chosen.name = IF s.c.sel # AutoTheme THEN s.c.sel ELSE SchemeTheme
  <2> DEFINE free == [c EXCEPT !.sel = AutoTheme, !.forced = FALSE, !.known = os]
  <2>1. s.c = c \/ s.c = free
    BY ResolvedRight
  <2>2. c \in Controls /\ c.index \subseteq Themes
    BY DEF Steady, Controls
  <2>3. /\ free \in Controls /\ free.index = c.index /\ free.loud = c.loud /\ free.act = c.act
        /\ free.applied = c.applied /\ free.sel = AutoTheme
    BY <2>2 DEF Controls
  <2>4. s.chosen \in c.index /\ s.chosen.name = IF s.c.sel # AutoTheme THEN s.c.sel ELSE SchemeTheme
    BY ResolvedRight
  <2> HIDE DEF s, free
  <2> QED BY <2>1, <2>2, <2>3, <2>4
<1>2. s.c.sel = AutoTheme => ~s.c.forced /\ s.c.known = os
  BY ResolvedRight DEF Steady, Controls
<1>3. s.c.sel # AutoTheme => s.c = c
  BY ResolvedRight DEF Steady, Controls
<1> HIDE DEF s
<1>4. ASSUME NEW d \in Controls, d.index = c.index, d.sel = s.c.sel, d.applied = s.c.sel,
             d.forced = s.c.forced, d.known = s.c.known, d.act.name = s.chosen.name
      PROVE  LET e == ApplyColorSchemeHint(d)
             IN  Settled(e) /\ Shown(e) /\ e.index = d.index /\ e.loud = d.loud /\ e.sel = d.sel /\ e.act = d.act
  <2>1. CASE d.sel = AutoTheme
    BY <2>1, <1>1, <1>2, <1>4 DEF ApplyColorSchemeHint, Unforce, Settled, Steady, Shown, Controls
  <2>2. CASE d.sel # AutoTheme
    <3> DEFINE e == [d EXCEPT !.known = IF d.forced THEN @ ELSE os, !.forced = TRUE]
    <3>1. ApplyColorSchemeHint(d) = e
      BY <2>2 DEF ApplyColorSchemeHint
    <3>2. e \in Controls
      BY <1>4 DEF Controls
    <3> QED BY <3>1, <3>2, <2>2, <1>1, <1>4 DEF Settled, Steady, Shown, Controls
  <2> QED BY <2>1, <2>2
<1>5. taken \in Controls /\ taken.index = c.index /\ taken.sel = s.c.sel /\ taken.applied = s.c.sel
      /\ taken.forced = s.c.forced /\ taken.known = s.c.known /\ taken.act = s.chosen /\ taken.loud = c.loud
  BY <1>1 DEF Controls
<1>6. held \in Controls /\ held.index = c.index /\ held.sel = s.c.sel /\ held.applied = s.c.sel
      /\ held.forced = s.c.forced /\ held.known = s.c.known /\ held.act = c.act /\ held.loud = c.loud
  BY <1>1 DEF Controls
<1>7. ~flip /\ unchanged => Settled(s.c) /\ Shown(s.c)
  BY <1>1, <1>2, <1>3 DEF Settled, Steady, Shown
<1> HIDE DEF taken, held
<1>8. \/ unchanged /\ ~emit /\ flip /\ r = [c |-> ApplyColorSchemeHint(held), changed |-> FALSE]
      \/ unchanged /\ ~emit /\ ~flip /\ r = [c |-> s.c, changed |-> FALSE]
      \/ emit /\ unchanged /\ s.chosen = c.act /\ ~flip /\ r = [c |-> s.c, changed |-> FALSE]
      \/ r = [c |-> ApplyColorSchemeHint(taken), changed |-> TRUE]
  BY DEF ResolveAndApplyActive, s, taken, held
<1> HIDE DEF r
<1>9. CASE r = [c |-> ApplyColorSchemeHint(taken), changed |-> TRUE]
  BY <1>1, <1>4, <1>5, <1>9 DEF Painting, r
<1>10. CASE unchanged /\ ~emit /\ flip /\ r = [c |-> ApplyColorSchemeHint(held), changed |-> FALSE]
  BY <1>1, <1>4, <1>6, <1>10 DEF Painting, r
<1>11. CASE unchanged /\ ~emit /\ ~flip /\ r = [c |-> s.c, changed |-> FALSE]
  BY <1>1, <1>7, <1>11 DEF Painting, r
<1>12. CASE emit /\ unchanged /\ s.chosen = c.act /\ ~flip /\ r = [c |-> s.c, changed |-> FALSE]
  <2>1. r.c = s.c /\ r.changed = FALSE /\ s.c.act \in c.index
    BY <1>1, <1>12
  <2> QED BY <2>1, <1>1, <1>7, <1>12 DEF Painting, r
<1> QED BY <1>8, <1>9, <1>10, <1>11, <1>12

(* ThemeControl starts settled on the stored selection.                    *)
LEMMA LoadedRight ==
    ASSUME ThemeTypeOK
    PROVE  LET c == LoadStored(stored, disk)
           IN  Settled(c) /\ Shown(c) /\ c.loud = stored.loud /\ c.sel \in {stored.sel, AutoTheme}
<1> DEFINE index == DiscoverThemes(disk)
           blank == [index |-> index, sel |-> stored.sel, applied |-> AutoTheme,
                     act |-> [name |-> "", kind |-> "light", loud |-> FALSE, v |-> 0],
                     forced |-> FALSE, known |-> os, loud |-> stored.loud]
<1>1. index \in SUBSET Themes /\ ShipsBuiltIns(index)
  BY Discovered DEF ThemeTypeOK
<1>2. [name |-> "", kind |-> "light", loud |-> FALSE, v |-> 0] \in Themes
  <2>1. "" \in ThemeNames /\ "light" \in Schemes
    BY DEF ThemeNames, Schemes
  <2> QED BY <2>1 DEF Themes
<1>3. Steady(blank)
  <2> HIDE DEF index
  <2> QED BY <1>1, <1>2 DEF Steady, Controls, ThemeTypeOK
<1>4. LoadStored(stored, disk) = ResolveAndApplyActive(blank, FALSE).c
  BY DEF LoadStored
<1>5. blank.loud = stored.loud /\ blank.sel = stored.sel
  OBVIOUS
<1> HIDE DEF blank
<1> QED BY <1>3, <1>4, <1>5, AppliedRight DEF ThemeTypeOK

(* SetActiveSelection.                                                     *)
LEMMA SelectedRight ==
    ASSUME NEW c, Settled(c), c.sel # AutoTheme \/ ~due => Shown(c), os \in Schemes, NEW n \in ThemeNames \cup {AutoTheme}
    PROVE  LET r == SetActiveSelection(c, n)
           IN  /\ Settled(r.c) /\ Painting(c, r)
               /\ r.c.sel # AutoTheme \/ ~due => Shown(r.c)
               /\ r.c.loud = c.loud /\ r.c.sel \in {n, AutoTheme} /\ r.c.index = c.index
<1> DEFINE d == [c EXCEPT !.sel = n]
<1>1. Steady(d) /\ d.loud = c.loud /\ d.act = c.act /\ d.sel = n /\ d.index = c.index
  BY DEF Settled, Steady, Controls
<1> HIDE DEF d
<1>2. CASE n = c.sel
  BY <1>2 DEF SetActiveSelection, Painting
<1>3. CASE n # c.sel
  <2>1. SetActiveSelection(c, n) = ResolveAndApplyActive(d, FALSE)
    BY <1>3 DEF SetActiveSelection, d
  <2> DEFINE r == ResolveAndApplyActive(d, FALSE)
  <2>2. /\ Settled(r.c) /\ Shown(r.c) /\ Painting(d, r)
        /\ r.c.index = d.index /\ r.c.loud = d.loud /\ r.c.sel \in {d.sel, AutoTheme}
    BY <1>1, AppliedRight
  <2> HIDE DEF r
  <2>3. Painting(c, r)
    BY <1>1, <2>2 DEF Painting
  <2> QED BY <1>1, <2>1, <2>2, <2>3 DEF r
<1> QED BY <1>2, <1>3

(* SetHighContrast emits unless the theme has no such block.               *)
LEMMA ContrastRight ==
    ASSUME NEW c, Settled(c), NEW on \in BOOLEAN
    PROVE  LET r == SetHighContrast(c, on)
           IN  /\ Settled(r.c) /\ Painting(c, r) /\ r.c.loud = on
               /\ r.c.sel = c.sel /\ r.c.act = c.act
<1> DEFINE d == [c EXCEPT !.loud = on]
<1>1. /\ Settled(d) /\ d.loud = on /\ d.sel = c.sel /\ d.act = c.act
      /\ c.loud \in BOOLEAN /\ c.act.loud \in BOOLEAN
  BY DEF Settled, Steady, Controls, Themes
<1> HIDE DEF d
<1>2. SetHighContrast(c, on) = [c |-> d, changed |-> c.loud # on /\ c.act.loud]
  BY DEF SetHighContrast, d
<1>3. ~(c.loud # on /\ c.act.loud) => (on /\ c.act.loud) = (c.loud /\ c.act.loud)
  BY <1>1
<1> QED BY <1>1, <1>2, <1>3 DEF Painting, BuildStyleCache

(* Cancel takes back the selection and the contrast.                       *)
LEMMA RevertedRight ==
    ASSUME ThemeInv, prefs.open
    PROVE  LET r == Revert(theme)
           IN  /\ Settled(r.c) /\ Painting(theme, r)
               /\ r.c.sel # AutoTheme \/ ~due => Shown(r.c)
               /\ r.c.sel \in {stored.sel, AutoTheme}
               /\ leak = "none" => r.c.loud = stored.loud
<1> DEFINE back == SetActiveSelection(theme, stored.sel)
           calm == SetHighContrast(back.c, prefs.wasLoud)
<1>1. /\ Settled(back.c) /\ Painting(theme, back) /\ (back.c.sel # AutoTheme \/ ~due => Shown(back.c))
      /\ back.c.loud = theme.loud /\ back.c.sel \in {stored.sel, AutoTheme}
  BY SelectedRight DEF ThemeInv, ThemeTypeOK
<1>2. /\ Settled(calm.c) /\ Painting(back.c, calm) /\ calm.c.loud = prefs.wasLoud
      /\ calm.c.sel = back.c.sel /\ calm.c.act = back.c.act
  BY <1>1, ContrastRight DEF ThemeInv, ThemeTypeOK
<1>3. Revert(theme) = IF prefs.loud # prefs.wasLoud
                      THEN [c |-> calm.c, changed |-> back.changed \/ calm.changed]
                      ELSE [c |-> back.c, changed |-> back.changed \/ FALSE]
  BY DEF Revert
<1>4. prefs.wasLoud = stored.loud /\ (leak = "none" => theme.loud = prefs.loud)
  BY DEF ThemeInv, PreviewInv
<1> HIDE DEF back, calm
<1>5. CASE prefs.loud # prefs.wasLoud
  BY <1>1, <1>2, <1>3, <1>4, <1>5 DEF Painting, Shown
<1>6. CASE prefs.loud = prefs.wasLoud
  BY <1>1, <1>3, <1>4, <1>6 DEF Painting
<1> QED BY <1>5, <1>6

(* themeChanged rebuilds the cache and repaints; without it nothing that   *)
(* the cache depends on has changed.                                       *)
LEMMA Repainted ==
    ASSUME StylesCurrent, NEW r, Painting(theme, r), Apply(r)
    PROVE  StylesCurrent'
BY DEF StylesCurrent, Painting, Apply

-----------------------------------------------------------------------------
LEMMA ThemeInitOK == ThemeInit => ThemeInv
<1> SUFFICES ASSUME ThemeInit PROVE ThemeInv
  OBVIOUS
<1>1. ThemeTypeOK
  <2>1. UserThemes \subseteq Themes
    BY ThemeAssumption DEF Themes, ThemeNames, Schemes
  <2>2. "Dark" \in ThemeNames
    BY DEF ThemeNames
  <2>3. Closed \in [open : BOOLEAN, loud : BOOLEAN, icons : BOOLEAN, wasLoud : BOOLEAN, wasIcons : BOOLEAN]
    BY DEF Closed
  <2> QED BY <2>1, <2>2, <2>3 DEF ThemeInit, ThemeTypeOK, Schemes
<1>2. Settled(theme) /\ Shown(theme) /\ theme.loud = stored.loud /\ theme.sel \in {stored.sel, AutoTheme}
  BY <1>1, LoadedRight DEF ThemeInit
<1> QED BY <1>1, <1>2 DEF ThemeInit, ThemeInv, StylesCurrent, ReloadShowsFiles, PreviewInv, PreviewsEnd, Closed

(* Steps that leave the control alone.                                     *)
LEMMA WithoutControl ==
    ASSUME ThemeInv, UNCHANGED <<theme, styles, painted, os, due>>, ThemeTypeOK', ReloadShowsFiles',
           PreviewInv', PreviewsEnd'
    PROVE  ThemeInv'
BY DEF ThemeInv, Settled, Steady, Shown, SchemeTheme, StylesCurrent

(* Steps through Apply, while the system keeps its scheme.                 *)
LEMMA ThroughControl ==
    ASSUME ThemeInv, NEW r, Apply(r), UNCHANGED os, Settled(r.c), Painting(theme, r),
           r.c.sel # AutoTheme \/ ~due' => Shown(r.c),
           ThemeTypeOK', ReloadShowsFiles', PreviewInv', PreviewsEnd'
    PROVE  ThemeInv'
<1>1. StylesCurrent'
  BY Repainted DEF ThemeInv
<1>2. theme' = r.c
  BY DEF Apply
<1> QED BY <1>1, <1>2 DEF ThemeInv, Settled, Steady, Shown, SchemeTheme

(* One case per action of Appearance.                                      *)
LEMMA ThemeStep == ThemeInv /\ [ThemeNext]_themeVars => ThemeInv'
<1> SUFFICES ASSUME ThemeInv, [ThemeNext]_themeVars PROVE ThemeInv'
  OBVIOUS
<1>0. ThemeTypeOK /\ Settled(theme) /\ (theme.sel # AutoTheme \/ ~due => Shown(theme)) /\ StylesCurrent
      /\ PreviewInv /\ PreviewsEnd /\ os \in Schemes
  BY DEF ThemeInv, ThemeTypeOK
<1>1. CASE UNCHANGED themeVars
  <2>1. UNCHANGED <<theme, styles, painted, os, due>> /\ ThemeTypeOK' /\ ReloadShowsFiles' /\ PreviewInv' /\ PreviewsEnd'
    BY <1>1 DEF ThemeInv, themeVars, ThemeTypeOK, ReloadShowsFiles, PreviewInv, PreviewsEnd
  <2> QED BY <2>1, WithoutControl
<1>2. CASE OnPlatformColorSchemeChanged
  <2> USE DEF OnPlatformColorSchemeChanged
  <2>1. os' \in Schemes /\ due' = TRUE
    BY <1>2 DEF Schemes
  <2>2. theme' = IF theme.forced THEN theme ELSE [theme EXCEPT !.known = os']
    BY <1>2
  <2>3. /\ theme' \in Controls /\ theme'.index = theme.index /\ theme'.forced = theme.forced
        /\ theme'.applied = theme.applied /\ theme'.sel = theme.sel /\ theme'.act = theme.act
        /\ theme'.loud = theme.loud /\ (~theme'.forced => theme'.known = os')
    BY <1>0, <2>1, <2>2 DEF Settled, Steady, Controls
  <2>4. Settled(theme)' /\ (theme'.sel # AutoTheme \/ ~due' => Shown(theme)')
    BY <1>0, <2>1, <2>3 DEF Settled, Steady, Shown
  <2>5. ThemeTypeOK' /\ StylesCurrent' /\ ReloadShowsFiles' /\ PreviewInv' /\ PreviewsEnd'
    BY <1>0, <1>2, <2>1, <2>3 DEF ThemeTypeOK, StylesCurrent, ReloadShowsFiles, PreviewInv, PreviewsEnd, Step
  <2> QED BY <2>4, <2>5 DEF ThemeInv
<1>3. CASE Reevaluate
  <2> DEFINE r == IF theme.sel # AutoTheme THEN [c |-> theme, changed |-> FALSE] ELSE ResolveAndApplyActive(theme, FALSE)
  <2>1. /\ Settled(r.c) /\ Painting(theme, r) /\ Shown(r.c) /\ r.c.loud = theme.loud
        /\ r.c.sel = theme.sel
    BY <1>0, AppliedRight DEF Settled, Painting
  <2>2. Apply(r) /\ did' = "palette" /\ due' = FALSE /\ UNCHANGED <<disk, stored, os, prefs, leak>>
    BY <1>3 DEF Reevaluate, Step
  <2> HIDE DEF r
  <2>3. theme' = r.c
    BY <2>2 DEF Apply
  <2>4. ThemeTypeOK' /\ ReloadShowsFiles' /\ PreviewInv' /\ PreviewsEnd'
    BY <1>0, <2>1, <2>2, <2>3 DEF ThemeTypeOK, ReloadShowsFiles, PreviewInv, PreviewsEnd
  <2> QED BY <2>1, <2>2, <2>4, ThroughControl
<1>4. CASE OpenPreferences
  <2>1. ThemeTypeOK'
    BY <1>0, <1>4 DEF OpenPreferences, ThemeTypeOK
  <2>2. ReloadShowsFiles' /\ PreviewInv' /\ PreviewsEnd'
    BY <1>0, <1>4 DEF OpenPreferences, ReloadShowsFiles, PreviewInv, PreviewsEnd, Step, ThemeTypeOK
  <2> QED BY <1>4, <2>1, <2>2, WithoutControl DEF OpenPreferences
<1>5. CASE ReloadAll
  <2> DEFINE c == [theme EXCEPT !.index = DiscoverThemes(disk)]
           r == ResolveAndApplyActive(c, TRUE)
  <2>1. /\ Steady(c) /\ c.index = DiscoverThemes(disk) /\ c.loud = theme.loud /\ c.act = theme.act
        /\ c.sel = theme.sel
    <3>1. DiscoverThemes(disk) \in SUBSET Themes /\ ShipsBuiltIns(DiscoverThemes(disk))
      BY <1>0, Discovered DEF ThemeTypeOK
    <3> QED BY <1>0, <3>1 DEF Settled, Steady, Controls
  <2> HIDE DEF c
  <2>2. /\ Settled(r.c) /\ Shown(r.c) /\ Painting(c, r) /\ r.c.loud = theme.loud
        /\ r.c.act \in DiscoverThemes(disk)
    BY <1>0, <2>1, AppliedRight
  <2>3. Apply(r) /\ did' = "reload" /\ prefs.open /\ UNCHANGED <<disk, stored, os, prefs, due, leak>>
    BY <1>5 DEF ReloadAll, Step, c
  <2> HIDE DEF r
  <2>4. theme' = r.c
    BY <2>3 DEF Apply
  <2>5. ThemeTypeOK' /\ ReloadShowsFiles' /\ PreviewInv' /\ PreviewsEnd'
    BY <1>0, <2>2, <2>3, <2>4 DEF ThemeTypeOK, ReloadShowsFiles, PreviewInv, PreviewsEnd
  <2>6. Painting(theme, r)
    BY <2>1, <2>2 DEF Painting
  <2> QED BY <2>2, <2>3, <2>5, <2>6, ThroughControl
<1>6. CASE \E n \in Selections : PickTheme(n)
  <2> PICK n \in Selections : PickTheme(n)
    BY <1>6
  <2> DEFINE r == SetActiveSelection(theme, n)
  <2>1. n \in ThemeNames \cup {AutoTheme}
    BY <1>0 DEF PickTheme, Named, Settled, Steady, Controls, Themes
  <2>2. /\ Settled(r.c) /\ Painting(theme, r) /\ (r.c.sel # AutoTheme \/ ~due => Shown(r.c))
        /\ r.c.loud = theme.loud
    BY <1>0, <2>1, SelectedRight
  <2>3. Apply(r) /\ did' = "pick" /\ prefs.open /\ UNCHANGED <<disk, stored, os, prefs, due, leak>>
    BY DEF PickTheme, Step
  <2> HIDE DEF r
  <2>4. theme' = r.c
    BY <2>3 DEF Apply
  <2>5. ThemeTypeOK' /\ ReloadShowsFiles' /\ PreviewInv' /\ PreviewsEnd'
    BY <1>0, <2>2, <2>3, <2>4 DEF ThemeTypeOK, ReloadShowsFiles, PreviewInv, PreviewsEnd
  <2> QED BY <2>2, <2>3, <2>5, ThroughControl
<1>7. CASE ToggleLoud
  <2> DEFINE r == SetHighContrast(theme, ~prefs.loud)
  <2>1. /\ Settled(r.c) /\ Painting(theme, r) /\ r.c.loud = ~prefs.loud
        /\ r.c.sel = theme.sel /\ r.c.act = theme.act
    BY <1>0, ContrastRight
  <2>2. /\ Apply(r) /\ did' = "loud" /\ prefs.open /\ UNCHANGED <<disk, stored, os, due, leak>>
        /\ prefs' = [prefs EXCEPT !.loud = ~@]
    BY <1>7 DEF ToggleLoud, Step
  <2> HIDE DEF r
  <2>3. theme' = r.c
    BY <2>2 DEF Apply
  <2>4. prefs' \in [open : BOOLEAN, loud : BOOLEAN, icons : BOOLEAN, wasLoud : BOOLEAN, wasIcons : BOOLEAN]
        /\ prefs'.loud = ~prefs.loud /\ prefs'.wasLoud = prefs.wasLoud /\ prefs'.open = prefs.open
    BY <1>0, <2>2 DEF ThemeTypeOK
  <2>5. ThemeTypeOK' /\ ReloadShowsFiles' /\ PreviewInv' /\ PreviewsEnd'
    BY <1>0, <2>1, <2>2, <2>3, <2>4 DEF ThemeTypeOK, ReloadShowsFiles, PreviewInv, PreviewsEnd
  <2>6. r.c.sel # AutoTheme \/ ~due => Shown(r.c)
    BY <1>0, <2>1 DEF Shown
  <2> QED BY <2>1, <2>2, <2>5, <2>6, ThroughControl
<1>8. CASE ToggleIcons
  <2>1. prefs' = [prefs EXCEPT !.icons = ~@] /\ prefs.open
    BY <1>8 DEF ToggleIcons
  <2>2. prefs' \in [open : BOOLEAN, loud : BOOLEAN, icons : BOOLEAN, wasLoud : BOOLEAN, wasIcons : BOOLEAN]
        /\ prefs'.loud = prefs.loud /\ prefs'.wasLoud = prefs.wasLoud /\ prefs'.open = prefs.open
    BY <1>0, <2>1 DEF ThemeTypeOK
  <2>3. ThemeTypeOK' /\ ReloadShowsFiles' /\ PreviewInv' /\ PreviewsEnd'
    BY <1>0, <1>8, <2>1, <2>2 DEF ToggleIcons, ThemeTypeOK, ReloadShowsFiles, PreviewInv, PreviewsEnd, Step
  <2> QED BY <1>8, <2>3, WithoutControl DEF ToggleIcons
<1>9. CASE Ok
  <2>1. prefs.open /\ prefs' = Closed /\ did' = "ok" /\ UNCHANGED <<disk, os, theme, styles, painted, due, leak>>
    BY <1>9 DEF Ok, Step
  <2>2. stored' = [sel |-> theme.sel,
                   loud |-> IF prefs.loud # prefs.wasLoud THEN prefs.loud ELSE stored.loud,
                   icons |-> IF prefs.icons # prefs.wasIcons THEN prefs.icons ELSE stored.icons]
    BY <1>9 DEF Ok
  <2>3. ThemeTypeOK'
    BY <1>0, <2>1, <2>2 DEF ThemeTypeOK, Closed, Settled, Steady, Controls
  <2>4. ReloadShowsFiles' /\ PreviewInv' /\ PreviewsEnd'
    BY <1>0, <2>1, <2>2 DEF ReloadShowsFiles, PreviewInv, PreviewsEnd, Closed
  <2> QED BY <2>1, <2>3, <2>4, WithoutControl
<1>10. CASE Cancel
  <2> DEFINE r == Revert(theme)
  <2>1. Apply(r) /\ did' = "cancel" /\ prefs.open /\ prefs' = Closed /\ UNCHANGED <<disk, stored, os, due, leak>>
    BY <1>10 DEF Cancel, Step
  <2>2. /\ Settled(r.c) /\ Painting(theme, r) /\ (r.c.sel # AutoTheme \/ ~due => Shown(r.c))
        /\ r.c.sel \in {stored.sel, AutoTheme} /\ (leak = "none" => r.c.loud = stored.loud)
    BY <2>1, RevertedRight
  <2> HIDE DEF r
  <2>3. theme' = r.c
    BY <2>1 DEF Apply
  <2>4. ThemeTypeOK' /\ ReloadShowsFiles' /\ PreviewInv' /\ PreviewsEnd'
    BY <1>0, <2>1, <2>2, <2>3 DEF ThemeTypeOK, ReloadShowsFiles, PreviewInv, PreviewsEnd, Closed
  <2> QED BY <2>1, <2>2, <2>4, ThroughControl
<1>11. CASE Restart
  <2>1. /\ theme' = LoadStored(stored, disk) /\ ~prefs.open /\ due' = FALSE /\ leak' = "none" /\ did' = "start"
        /\ styles' = BuildStyleCache(theme'.act, theme'.loud) /\ painted' = styles'
        /\ UNCHANGED <<disk, stored, os, prefs>>
    BY <1>11 DEF Restart, Step
  <2>2. /\ Settled(theme') /\ Shown(theme') /\ theme'.loud = stored.loud /\ theme'.sel \in {stored.sel, AutoTheme}
    BY <1>0, <2>1, LoadedRight
  <2>3. ThemeTypeOK' /\ ReloadShowsFiles' /\ PreviewInv' /\ PreviewsEnd' /\ StylesCurrent'
    BY <1>0, <2>1, <2>2 DEF ThemeTypeOK, ReloadShowsFiles, PreviewInv, PreviewsEnd, StylesCurrent
  <2>4. Settled(theme)' /\ Shown(theme)'
    BY <2>1, <2>2 DEF Settled, Steady, Shown, SchemeTheme
  <2> QED BY <2>3, <2>4 DEF ThemeInv
<1>12. CASE \E i \in DOMAIN UserFiles : DuplicateTheme(i)
  <2> PICK i \in DOMAIN UserFiles : DuplicateTheme(i)
    BY <1>12
  <2> DEFINE copy == [theme.act EXCEPT !.name = UserFiles[i]]
           found == [disk EXCEPT ![i] = copy]
           c == [theme EXCEPT !.index = DiscoverThemes(found)]
           r == IF copy.name = theme.act.name THEN ResolveAndApplyActive(c, TRUE) ELSE [c |-> c, changed |-> FALSE]
  <2>1. copy \in Themes
    <3>1. UserFiles[i] \in ThemeNames
      <4>1. UserFiles \in Seq(STRING)
        BY ThemeAssumption
      <4>2. UserFiles[i] \in STRING
        BY <4>1
      <4> QED BY <4>2 DEF ThemeNames
    <3> QED BY <1>0, <3>1 DEF Settled, Steady, Controls, Themes
  <2>2. found \in [DOMAIN UserFiles -> {NoTheme} \cup Themes]
    BY <1>0, <2>1 DEF ThemeTypeOK
  <2>3. Apply(r) /\ did' = "duplicate" /\ prefs.open /\ disk' = found /\ UNCHANGED <<stored, os, prefs, due, leak>>
    BY DEF DuplicateTheme, Step
  <2> HIDE DEF copy, found
  <2>4. /\ Settled(c) /\ c.loud = theme.loud /\ c.act = theme.act /\ c.sel = theme.sel
    <3>1. DiscoverThemes(found) \in SUBSET Themes /\ ShipsBuiltIns(DiscoverThemes(found))
      BY <2>2, Discovered
    <3> QED BY <1>0, <3>1 DEF Settled, Steady, Controls
  <2> HIDE DEF c
  <2>5. /\ Settled(r.c) /\ Painting(theme, r) /\ (r.c.sel # AutoTheme \/ ~due => Shown(r.c)) /\ r.c.loud = theme.loud
    <3>1. CASE copy.name = theme.act.name
      <4> DEFINE x == ResolveAndApplyActive(c, TRUE)
      <4>1. Settled(x.c) /\ Shown(x.c) /\ Painting(c, x) /\ x.c.loud = c.loud
        BY <1>0, <2>4, AppliedRight DEF Settled
      <4>2. r = x
        BY <3>1
      <4> HIDE DEF x, r
      <4> QED BY <4>1, <4>2, <2>4 DEF Painting
    <3>2. CASE copy.name # theme.act.name
      BY <1>0, <2>4, <3>2 DEF Painting, Shown
    <3> QED BY <3>1, <3>2
  <2> HIDE DEF r
  <2>6. theme' = r.c
    BY <2>3 DEF Apply
  <2>7. ThemeTypeOK' /\ ReloadShowsFiles' /\ PreviewInv' /\ PreviewsEnd'
    BY <1>0, <2>2, <2>3, <2>5, <2>6 DEF ThemeTypeOK, ReloadShowsFiles, PreviewInv, PreviewsEnd
  <2> QED BY <2>3, <2>5, <2>7, ThroughControl
<1>13. CASE \E i \in DOMAIN UserFiles, t \in UserThemes \cup {NoTheme} : EditFile(i, t)
  <2> PICK i \in DOMAIN UserFiles, t \in UserThemes \cup {NoTheme} : EditFile(i, t)
    BY <1>13
  <2>1. UserThemes \subseteq Themes
    BY ThemeAssumption DEF Themes, ThemeNames, Schemes
  <2>2. ThemeTypeOK' /\ ReloadShowsFiles' /\ PreviewInv' /\ PreviewsEnd'
    BY <1>0, <2>1 DEF EditFile, ThemeTypeOK, ReloadShowsFiles, PreviewInv, PreviewsEnd, Step
  <2> QED BY <2>2, WithoutControl DEF EditFile
<1>14. CASE \E t \in Tabs : SwitchTab(t)
  <2> PICK t \in Tabs : SwitchTab(t)
    BY <1>14
  <2>1. ThemeTypeOK' /\ ReloadShowsFiles' /\ PreviewInv' /\ PreviewsEnd'
    BY <1>0 DEF SwitchTab, ThemeTypeOK, ReloadShowsFiles, PreviewInv, PreviewsEnd, Step
  <2> QED BY <2>1, WithoutControl DEF SwitchTab
<1> QED BY <1>1, <1>2, <1>3, <1>4, <1>5, <1>6, <1>7, <1>8, <1>9, <1>10, <1>11, <1>12, <1>13, <1>14 DEF ThemeNext

(* What ThemeControl shows and the views painted with is what was chosen,  *)
(* for every set of theme files: through system switches, reloads, edits   *)
(* of the files, previews and the closing of the preference window.        *)
THEOREM ThemeAsChosen == ThemeSpec => []PaintedAsChosen
<1>1. ThemeInv => PaintedAsChosen
  <2> SUFFICES ASSUME ThemeInv PROVE PaintedAsChosen
    OBVIOUS
  <2>1. AutoFollowsSystem
    BY DEF ThemeInv, Settled, Steady, Shown, SchemeTheme, AutoFollowsSystem
  <2>2. SelectionPinned
    BY DEF ThemeInv, Settled, Steady, Shown, SelectionPinned
  <2> QED BY <2>1, <2>2 DEF ThemeInv, PaintedAsChosen
<1> QED BY <1>1, ThemeInitOK, ThemeStep, PTL DEF ThemeSpec

-----------------------------------------------------------------------------
(* 3. The session bundle.                                                  *)

Sessions == Writers \cup {"old"}

(* The first n items of an export, and a file with all of them on disk.    *)
Written(w, n) == [k \in 1..n |-> <<w, k - 1>>]
WholeOf(w) == {[data |-> Bundle(w), synced |-> Len(Bundle(w))]}
Whole(d) == d = {} \/ \E w \in Sessions : d = WholeOf(w)

WriterStates == [pc : {"idle", "stage", "write", "close", "replace"}, name : Paths, next : Nat, tries : Nat, stop : BOOLEAN]

(* How much of its bundle the staging file of an export holds.             *)
Staged(w) ==
    LET x == writer[w]
    IN  /\ x.pc \in {"idle", "stage"} => x.name = "dest" /\ x.next = 0
        /\ x.pc \in {"write", "close"} => onDisk[x.name] = {[data |-> Written(w, x.next), synced |-> 0]}
        /\ x.pc \in {"write", "close", "replace"} => x.name \in Names
        /\ x.pc = "write" => x.next <= Len(Rows(w)) + 1
        /\ x.pc = "close" => x.next = Len(Rows(w)) + 2
        /\ x.pc = "replace" => onDisk[x.name] = WholeOf(w)

BundleInv ==
    /\ DOMAIN onDisk = Paths /\ writer \in [Writers -> WriterStates] /\ losses \in Nat
    /\ Whole(onDisk["dest"]) /\ \A d \in past : Whole(d)
    /\ \A w \in Writers : Staged(w)
    /\ StagingFilesOwned
    /\ view.by # "none" => view.by \in Sessions /\ view.anchors \in {{}, RemapAnchors(view.by)}

(* A bundle is a metadata item and one item per row.                       *)
LEMMA RowsAreSequences ==
    ASSUME NEW w \in Sessions
    PROVE  /\ Len(Rows(w)) \in Nat /\ DOMAIN Rows(w) = 1..Len(Rows(w))
           /\ Bundle(w) = Written(w, Len(Rows(w)) + 2)
           /\ Bundle(w) \in Seq({w} \X Int) /\ Len(Bundle(w)) = Len(Rows(w)) + 2
<1>1. Rows(w) \in Seq(Range(Tables[w].rows))
  BY BundleAssumption DEF Rows, Sessions
<1>2. Len(Rows(w)) \in Nat /\ DOMAIN Rows(w) = 1..Len(Rows(w))
  BY <1>1
<1> DEFINE n == Len(Rows(w)) + 2
<1>3. Bundle(w) = Written(w, n)
  BY DEF Bundle, Written
<1>4. n \in Nat
  BY <1>2
<1> HIDE DEF n
<1>5. Written(w, n) \in [1..n -> {w} \X Int]
  BY <1>4 DEF Written
<1>6. Written(w, n) \in Seq({w} \X Int) /\ Len(Written(w, n)) = n
  BY <1>4, <1>5
<1> QED BY <1>2, <1>3, <1>6 DEF n

(* WriteItem appends the next item.                                        *)
LEMMA WrittenGrows ==
    ASSUME NEW w, NEW n \in Nat
    PROVE  Append(Written(w, n), <<w, n>>) = Written(w, n + 1)
<1>1. Written(w, n) \in Seq({w} \X Int) /\ Len(Written(w, n)) = n
  <2>1. Written(w, n) \in [1..n -> {w} \X Int]
    BY DEF Written
  <2> QED BY <2>1
<1>2. Append(Written(w, n), <<w, n>>) =
        [k \in 1..n + 1 |-> IF k = n + 1 THEN <<w, n>> ELSE Written(w, n)[k]]
  BY <1>1
<1> QED BY <1>2 DEF Written

(* A step of one export that touches its own staging file, or takes a name *)
(* that is free, leaves the others what they staged.                       *)
LEMMA OneExport ==
    ASSUME BundleInv, NEW w \in Writers, NEW x \in WriterStates,
           writer' = [writer EXCEPT ![w] = x], UNCHANGED <<view, losses>>, DOMAIN onDisk' = Paths,
           Whole(onDisk'["dest"]), \A d \in past' : Whole(d), Staged(w)',
           x.name = "dest" \/ x.name = writer[w].name \/ onDisk[x.name] = {},
           \A p \in Names : p # writer[w].name /\ p # x.name => onDisk'[p] = onDisk[p],
           writer[w].name \in Names /\ onDisk'[writer[w].name] # {} => x.name = writer[w].name
    PROVE  BundleInv'
<1>1. writer' \in [Writers -> WriterStates] /\ writer'[w] = x /\ \A v \in Writers \ {w} : writer'[v] = writer[v]
  BY DEF BundleInv
<1>2. ASSUME NEW v \in Writers \ {w}, writer[v].name # "dest"
      PROVE  /\ writer[v].name \in Names /\ writer[v].name # writer[w].name /\ onDisk[writer[v].name] # {}
             /\ writer[v].name # x.name
  <2>1. writer[v].pc \in {"write", "close", "replace"} /\ Staged(v) /\ writer[v].name # writer[w].name
    BY <1>2 DEF BundleInv, Staged, WriterStates, StagingFilesOwned
  <2>2. writer[v].name \in Names /\ onDisk[writer[v].name] # {}
    BY <2>1 DEF Staged, WholeOf
  <2> QED BY <1>2, <2>1, <2>2
<1>3. ASSUME NEW v \in Writers \ {w} PROVE Staged(v)'
  <2>1. Staged(v) /\ writer[v] \in WriterStates
    BY <1>3 DEF BundleInv
  <2>2. CASE writer[v].name = "dest"
    <3>1. writer[v].pc \in {"idle", "stage"}
      BY <2>1, <2>2, BundleAssumption DEF Staged, WriterStates
    <3> QED BY <1>1, <2>1, <3>1 DEF Staged
  <2>3. CASE writer[v].name # "dest"
    <3>1. onDisk'[writer[v].name] = onDisk[writer[v].name]
      BY <1>2, <2>3
    <3> QED BY <1>1, <2>1, <3>1 DEF Staged, WholeOf
  <2> QED BY <2>2, <2>3
<1>4. StagingFilesOwned'
  <2>1. ASSUME NEW w1 \in Writers, NEW w2 \in Writers, writer'[w1].name # "dest", writer'[w1].name = writer'[w2].name
        PROVE  w1 = w2
    BY <1>1, <1>2, <2>1 DEF BundleInv, StagingFilesOwned
  <2>2. ASSUME losses' = 0, NEW p \in Names, onDisk'[p] # {}
        PROVE  \E v \in Writers : writer'[v].name = p
    <3>1. CASE p = x.name
      BY <1>1, <3>1
    <3>2. CASE p = writer[w].name
      BY <1>1, <2>2, <3>2
    <3>3. CASE p # x.name /\ p # writer[w].name
      <4>1. PICK v \in Writers : writer[v].name = p
        BY <2>2, <3>3 DEF BundleInv, StagingFilesOwned
      <4> QED BY <1>1, <3>3, <4>1
    <3> QED BY <3>1, <3>2, <3>3
  <2> QED BY <2>1, <2>2 DEF StagingFilesOwned
<1>5. \A v \in Writers : Staged(v)'
  BY <1>3
<1>6. losses' \in Nat /\ (view'.by # "none" => view'.by \in Sessions /\ view'.anchors \in {{}, RemapAnchors(view'.by)})
  BY DEF BundleInv
<1> QED BY <1>1, <1>4, <1>5, <1>6 DEF BundleInv

(* An export that ends gives its name back with nothing under it.          *)
LEMMA ExportFails ==
    ASSUME BundleInv, NEW w \in Writers, Fail(w), UNCHANGED <<view, losses>>
    PROVE  BundleInv'
<1> DEFINE n == writer[w].name
<1>1. IdleWriter \in WriterStates /\ IdleWriter.name = "dest" /\ IdleWriter.pc = "idle" /\ IdleWriter.next = 0
  BY DEF IdleWriter, WriterStates, Paths
<1>2. writer' = [writer EXCEPT ![w] = IdleWriter] /\ past' = past
      /\ onDisk' = [onDisk EXCEPT ![n] = IF n = "dest" THEN @ ELSE {}]
  BY DEF Fail
<1>3. DOMAIN onDisk' = Paths /\ onDisk'["dest"] = onDisk["dest"] /\ n \in Paths
      /\ (n # "dest" => onDisk'[n] = {}) /\ \A p \in Names : p # n => onDisk'[p] = onDisk[p]
  BY <1>2 DEF BundleInv, WriterStates, Paths
<1>4. Staged(w)'
  BY <1>1, <1>2 DEF Staged, BundleInv
<1>5. Whole(onDisk'["dest"]) /\ \A d \in past' : Whole(d)
  BY <1>2, <1>3 DEF BundleInv
<1> QED BY <1>1, <1>2, <1>3, <1>4, <1>5, BundleAssumption, OneExport

(* One case per action of SessionBundle.                                   *)
LEMMA BundleStep == BundleInv /\ [BundleNext]_bundleVars => BundleInv'
<1> SUFFICES ASSUME BundleInv, [BundleNext]_bundleVars PROVE BundleInv'
  OBVIOUS
<1>0. /\ DOMAIN onDisk = Paths /\ writer \in [Writers -> WriterStates] /\ losses \in Nat
      /\ Whole(onDisk["dest"]) /\ (\A d \in past : Whole(d)) /\ \A w \in Writers : Staged(w)
  BY DEF BundleInv
<1>1. CASE UNCHANGED bundleVars
  BY <1>1 DEF BundleInv, Staged, Whole, WholeOf, StagingFilesOwned, bundleVars
<1>2. ASSUME NEW w \in Writers, BeginAsyncBundleExport(w) PROVE BundleInv'
  <2> DEFINE x == [writer[w] EXCEPT !.pc = IF Len(Rows(w)) > MaxRows THEN "idle" ELSE "stage"]
  <2>1. /\ writer' = [writer EXCEPT ![w] = x] /\ UNCHANGED <<onDisk, past, view, losses>>
        /\ writer[w].pc = "idle"
    BY <1>0, <1>2 DEF BeginAsyncBundleExport
  <2>2. x \in WriterStates /\ x.name = "dest" /\ x.next = 0 /\ x.pc \in {"idle", "stage"} /\ writer[w].name = "dest"
    BY <1>0, <2>1 DEF WriterStates, Staged
  <2> HIDE DEF x
  <2>3. Staged(w)'
    BY <1>0, <2>1, <2>2 DEF Staged
  <2> QED BY <1>0, <2>1, <2>2, <2>3, BundleAssumption, OneExport
<1>3. ASSUME NEW w \in Writers, NEW name \in Names, OpenStagingFileWithRetry(w, name) PROVE BundleInv'
  <2>1. writer[w].pc = "stage" /\ writer[w].name = "dest" /\ writer[w].next = 0 /\ name # "dest" /\ name \in Paths
    BY <1>0, <1>3, BundleAssumption DEF OpenStagingFileWithRetry, Staged, Paths
  <2>2. UNCHANGED <<view, losses>>
    BY <1>3 DEF OpenStagingFileWithRetry
  <2>3. CASE /\ onDisk[name] = {} /\ past' = past
             /\ onDisk' = [onDisk EXCEPT ![name] = {[data |-> <<>>, synced |-> 0]}]
             /\ writer' = [writer EXCEPT ![w].pc = "write", ![w].name = name]
    <3> DEFINE x == [writer[w] EXCEPT !.pc = "write", !.name = name]
    <3>1. writer' = [writer EXCEPT ![w] = x]
      BY <1>0, <2>3
    <3>2. x \in WriterStates /\ x.name = name /\ x.pc = "write" /\ x.next = 0
      BY <1>0, <2>1 DEF WriterStates
    <3> HIDE DEF x
    <3>3. Written(w, 0) = <<>>
      BY DEF Written
    <3>4. Staged(w)'
      BY <1>0, <2>1, <2>3, <3>1, <3>2, <3>3, RowsAreSequences DEF Staged, Sessions
    <3>5. /\ onDisk'["dest"] = onDisk["dest"] /\ DOMAIN onDisk' = Paths
          /\ \A p \in Names : p # name => onDisk'[p] = onDisk[p]
      BY <1>0, <2>1, <2>3 DEF Paths
    <3>6. Whole(onDisk'["dest"]) /\ \A d \in past' : Whole(d)
      BY <1>0, <2>3, <3>5
    <3>7. writer[w].name \notin Names /\ onDisk[x.name] = {}
      BY <2>1, <2>3, <3>2, BundleAssumption
    <3>8. \A p \in Names : p # writer[w].name /\ p # x.name => onDisk'[p] = onDisk[p]
      BY <3>2, <3>5
    <3> QED BY <2>2, <3>1, <3>2, <3>4, <3>5, <3>6, <3>7, <3>8, OneExport
  <2>4. CASE writer' = [writer EXCEPT ![w].tries = @ + 1] /\ UNCHANGED <<onDisk, past>>
    <3> DEFINE x == [writer[w] EXCEPT !.tries = @ + 1]
    <3>1. writer' = [writer EXCEPT ![w] = x]
      BY <1>0, <2>4
    <3>2. x \in WriterStates /\ x.name = "dest" /\ x.pc = "stage" /\ x.next = 0
      BY <1>0, <2>1 DEF WriterStates
    <3> HIDE DEF x
    <3>3. Staged(w)'
      BY <1>0, <2>4, <3>1, <3>2 DEF Staged
    <3> QED BY <1>0, <2>1, <2>2, <2>4, <3>1, <3>2, <3>3, BundleAssumption, OneExport
  <2> QED BY <1>3, <2>2, <2>3, <2>4, ExportFails DEF OpenStagingFileWithRetry
<1>4. ASSUME NEW w \in Writers, WriteItem(w) PROVE BundleInv'
  <2> DEFINE n == writer[w].name
             k == writer[w].next
             x == [writer[w] EXCEPT !.next = @ + 1, !.pc = IF k > Len(Rows(w)) THEN "close" ELSE "write"]
  <2>1. /\ writer[w].pc = "write" /\ n \in Names /\ n # "dest" /\ k \in Nat /\ k <= Len(Rows(w)) + 1
        /\ onDisk[n] = {[data |-> Written(w, k), synced |-> 0]} /\ n \in Paths /\ Len(Rows(w)) \in Nat
    BY <1>0, <1>4, BundleAssumption, RowsAreSequences DEF WriteItem, Staged, Paths, WriterStates, Sessions
  <2>2. UNCHANGED <<view, losses>>
    BY <1>4 DEF WriteItem
  <2>3. CASE /\ onDisk' = [onDisk EXCEPT ![n] = {[StagedBy(w) EXCEPT !.data = Append(@, <<w, k>>)]}] /\ past' = past
             /\ writer' = [writer EXCEPT ![w].next = @ + 1, ![w].pc = IF k > Len(Rows(w)) THEN "close" ELSE "write"]
    <3>1. StagedBy(w) = [data |-> Written(w, k), synced |-> 0]
      BY <2>1 DEF StagedBy, Only
    <3> HIDE DEF k
    <3>2. [StagedBy(w) EXCEPT !.data = Append(@, <<w, k>>)] = [data |-> Written(w, k + 1), synced |-> 0]
      <4>1. Append(Written(w, k), <<w, k>>) = Written(w, k + 1)
        BY <2>1, WrittenGrows
      <4> DEFINE g == [StagedBy(w) EXCEPT !.data = Append(@, <<w, k>>)]
      <4>2. g.data = Written(w, k + 1) /\ g.synced = 0 /\ DOMAIN g = {"data", "synced"}
        BY <3>1, <4>1
      <4>3. g = [y \in DOMAIN g |-> g[y]]
        OBVIOUS
      <4> HIDE DEF g
      <4>4. g = [data |-> Written(w, k + 1), synced |-> 0]
        BY <4>2, <4>3
      <4> QED BY <4>4 DEF g
    <3>3. writer' = [writer EXCEPT ![w] = x]
      BY <1>0, <2>3
    <3>4. /\ x \in WriterStates /\ x.name = n /\ x.next = k + 1
          /\ \/ x.pc = "close" /\ x.next = Len(Rows(w)) + 2
             \/ x.pc = "write" /\ x.next <= Len(Rows(w)) + 1
      <4>1. writer[w] \in WriterStates
        BY <1>0
      <4> DEFINE m == k + 1
                 c == IF k > Len(Rows(w)) THEN "close" ELSE "write"
      <4>2. m \in Nat /\ c \in {"write", "close"} /\ x = [writer[w] EXCEPT !.next = m, !.pc = c]
        BY <2>1 DEF k
      <4> HIDE DEF m, c
      <4>3. x \in WriterStates /\ x.name = n /\ x.next = m /\ x.pc = c
        <5> HIDE DEF x
        <5> QED BY <4>1, <4>2 DEF WriterStates
      <4> HIDE DEF x
      <4> QED BY <2>1, <4>3 DEF m, c
    <3>5. /\ onDisk'[n] = {[data |-> Written(w, k + 1), synced |-> 0]} /\ DOMAIN onDisk' = Paths
          /\ \A p \in Paths : p # n => onDisk'[p] = onDisk[p]
      BY <1>0, <2>1, <2>3, <3>2
    <3>6. writer'[w] = x
      BY <1>0, <3>3
    <3> HIDE DEF x
    <3>7. Staged(w)'
      BY <2>1, <3>4, <3>5, <3>6 DEF Staged
    <3> QED BY <1>0, <2>1, <2>2, <2>3, <3>3, <3>4, <3>5, <3>7, OneExport DEF Paths
  <2> QED BY <1>4, <2>2, <2>3, ExportFails DEF WriteItem
<1>5. ASSUME NEW w \in Writers, Close(w) PROVE BundleInv'
  <2> DEFINE n == writer[w].name
             x == [writer[w] EXCEPT !.pc = "replace"]
  <2>1. /\ writer[w].pc = "close" /\ n \in Names /\ n # "dest" /\ n \in Paths
        /\ onDisk[n] = {[data |-> Bundle(w), synced |-> 0]}
    BY <1>0, <1>5, BundleAssumption, RowsAreSequences DEF Close, Staged, Paths, Sessions
  <2>2. UNCHANGED <<view, losses>>
    BY <1>5 DEF Close
  <2>3. CASE /\ onDisk' = [onDisk EXCEPT ![n] = {Sync(StagedBy(w))}] /\ past' = past
             /\ writer' = [writer EXCEPT ![w].pc = "replace"]
    <3>1. StagedBy(w) = [data |-> Bundle(w), synced |-> 0]
      BY <2>1 DEF StagedBy, Only
    <3>2. {Sync(StagedBy(w))} = WholeOf(w)
      BY <3>1 DEF Sync, WholeOf
    <3>3. writer' = [writer EXCEPT ![w] = x]
      BY <1>0, <2>3
    <3>4. x \in WriterStates /\ x.name = n /\ x.pc = "replace"
      BY <1>0, <2>1 DEF WriterStates
    <3>5. /\ onDisk'[n] = WholeOf(w) /\ DOMAIN onDisk' = Paths
          /\ \A p \in Paths : p # n => onDisk'[p] = onDisk[p]
      BY <1>0, <2>1, <2>3, <3>2
    <3>6. writer'[w] = x
      BY <1>0, <3>3
    <3> HIDE DEF x
    <3>7. Staged(w)'
      BY <2>1, <3>4, <3>5, <3>6 DEF Staged, WholeOf
    <3> QED BY <1>0, <2>1, <2>2, <2>3, <3>3, <3>4, <3>5, <3>7, OneExport DEF Paths
  <2> QED BY <1>5, <2>2, <2>3, ExportFails DEF Close
<1>6. ASSUME NEW w \in Writers, ReplaceAtomically(w) PROVE BundleInv'
  <2> DEFINE n == writer[w].name
  <2>1. writer[w].pc = "replace" /\ n \in Names /\ n # "dest" /\ n \in Paths /\ onDisk[n] = WholeOf(w) /\ w \in Sessions
    BY <1>0, <1>6, BundleAssumption DEF ReplaceAtomically, Staged, Paths, Sessions
  <2>2. UNCHANGED <<view, losses>>
    BY <1>6 DEF ReplaceAtomically
  <2>3. CASE /\ onDisk' = [onDisk EXCEPT !["dest"] = onDisk[n], ![n] = {}]
             /\ past' = past \cup {onDisk[n]}
             /\ writer' = [writer EXCEPT ![w] = IdleWriter]
    <3>1. IdleWriter \in WriterStates /\ IdleWriter.name = "dest" /\ IdleWriter.pc = "idle" /\ IdleWriter.next = 0
      BY DEF IdleWriter, WriterStates, Paths
    <3>2. /\ onDisk'["dest"] = WholeOf(w) /\ onDisk'[n] = {} /\ DOMAIN onDisk' = Paths
          /\ \A p \in Names : p # n => onDisk'[p] = onDisk[p]
      BY <1>0, <2>1, <2>3, BundleAssumption DEF Paths
    <3>3. Whole(WholeOf(w))
      BY <2>1 DEF Whole
    <3>4. Staged(w)'
      BY <1>0, <2>3, <3>1 DEF Staged
    <3>5. \A d \in past' : Whole(d)
      BY <1>0, <2>1, <2>3, <3>3
    <3> QED BY <2>1, <2>2, <2>3, <3>1, <3>2, <3>3, <3>4, <3>5, OneExport
  <2> QED BY <1>6, <2>2, <2>3, ExportFails DEF ReplaceAtomically
<1>7. ASSUME NEW w \in Writers, CancelExport(w) PROVE BundleInv'
  <2> DEFINE x == [writer[w] EXCEPT !.stop = TRUE]
  <2>1. writer' = [writer EXCEPT ![w] = x] /\ UNCHANGED <<onDisk, past, view, losses>>
    BY <1>0, <1>7 DEF CancelExport
  <2>2. x \in WriterStates /\ x.name = writer[w].name /\ x.pc = writer[w].pc /\ x.next = writer[w].next /\ writer'[w] = x
    BY <1>0, <2>1 DEF WriterStates
  <2> HIDE DEF x
  <2>3. Staged(w)'
    BY <1>0, <2>1, <2>2 DEF Staged, WholeOf
  <2> QED BY <1>0, <2>1, <2>2, <2>3, OneExport
<1>8. CASE Writeback
  BY <1>0, <1>8 DEF BundleInv, Writeback, Staged, Whole, WholeOf, StagingFilesOwned
<1>9. ASSUME losses' = losses + 1, writer' = [w \in Writers |-> IdleWriter], view' = NoView,
             DOMAIN onDisk' = Paths, Whole(onDisk'["dest"]), \A d \in past' : Whole(d)
      PROVE  BundleInv'
  <2>1. IdleWriter \in WriterStates /\ IdleWriter.name = "dest" /\ IdleWriter.pc = "idle" /\ IdleWriter.next = 0
    BY DEF IdleWriter, WriterStates, Paths
  <2>2. \A w \in Writers : Staged(w)'
    BY <1>9, <2>1 DEF Staged
  <2>3. StagingFilesOwned'
    BY <1>0, <1>9, <2>1 DEF StagingFilesOwned
  <2> QED BY <1>0, <1>9, <2>1, <2>2, <2>3 DEF BundleInv, NoView
<1>10. CASE Kill
  BY <1>0, <1>9, <1>10 DEF Kill
<1>11. CASE PowerLoss
  <2> PICK d \in past : \E c \in Survives(d) : onDisk' = [onDisk EXCEPT !["dest"] = c]
    BY <1>11 DEF PowerLoss
  <2>1. PICK c \in Survives(d) : onDisk' = [onDisk EXCEPT !["dest"] = c]
    OBVIOUS
  <2>2. c = d
    <3>1. CASE d = {}
      BY <2>1, <3>1 DEF Survives
    <3>2. CASE d # {}
      <4>1. PICK w \in Sessions : d = WholeOf(w)
        BY <1>0, <3>2 DEF Whole
      <4> DEFINE b == Bundle(w)
                 f == [data |-> b, synced |-> Len(b)]
      <4>2. Only(d) = f /\ f.data = b /\ f.synced = Len(b)
        BY <4>1 DEF WholeOf, Only
      <4>3. PICK m \in Len(b)..Len(b) : c = {[data |-> SubSeq(b, 1, m), synced |-> m]}
        BY <2>1, <3>2, <4>2 DEF Survives
      <4>4. b \in Seq({w} \X Int) /\ Len(b) \in Nat
        BY RowsAreSequences
      <4> HIDE DEF b
      <4>5. m = Len(b) /\ SubSeq(b, 1, Len(b)) = b
        BY <4>3, <4>4
      <4> QED BY <4>1, <4>3, <4>5 DEF WholeOf, b
    <3> QED BY <3>1, <3>2
  <2>3. DOMAIN onDisk' = Paths /\ onDisk'["dest"] = d
    BY <1>0, <2>1, <2>2 DEF Paths
  <2>4. losses' = losses + 1 /\ writer' = [w \in Writers |-> IdleWriter] /\ view' = NoView /\ past' = {onDisk'["dest"]}
    BY <1>11 DEF PowerLoss
  <2> QED BY <1>0, <1>9, <2>3, <2>4
<1>12. ASSUME NEW armed \in BOOLEAN, OpenBundle(armed) PROVE BundleInv'
  <2> DEFINE f == Only(onDisk["dest"])
             w == f.data[1][1]
  <2>1. /\ onDisk["dest"] # {} /\ f.data = Bundle(w)
        /\ view' = [by |-> w, anchors |-> IF armed THEN RemapAnchors(w) ELSE {}]
        /\ UNCHANGED <<onDisk, past, writer, losses>>
    BY <1>12 DEF OpenBundle
  <2>2. PICK v \in Sessions : onDisk["dest"] = WholeOf(v)
    BY <1>0, <2>1 DEF Whole
  <2>3. f.data = Bundle(v)
    <3>1. f = [data |-> Bundle(v), synced |-> Len(Bundle(v))]
      BY <2>2 DEF WholeOf, Only
    <3> QED BY <3>1
  <2>4. Bundle(v)[1] = <<v, 0>>
    BY RowsAreSequences DEF Bundle
  <2>5. w = v
    BY <2>3, <2>4
  <2> HIDE DEF w
  <2>6. view'.by \in Sessions /\ view'.anchors \in {{}, RemapAnchors(view'.by)}
    BY <2>1, <2>5
  <2> QED BY <1>0, <2>1, <2>6 DEF BundleInv, Staged, WholeOf, StagingFilesOwned
<1> QED BY <1>1, <1>2, <1>3, <1>4, <1>5, <1>6, <1>7, <1>8, <1>10, <1>11, <1>12 DEF BundleNext

(* RemapAnchors puts an anchor on a row only if that is the one row with   *)
(* the anchor's locator and line.                                          *)
LEMMA RemappedRight ==
    ASSUME NEW w \in Sessions, NEW i \in RemapAnchors(w)
    PROVE  \E a \in Tables[w].anchors : Cardinality(Matches(w, a)) = 1 /\ Rows(w)[i + 1] = a
<1>1. PICK a \in Tables[w].anchors : Cardinality(Matches(w, a)) = 1 /\ i = (CHOOSE k \in Matches(w, a) : TRUE) - 1
  BY DEF RemapAnchors
<1> DEFINE k == CHOOSE k \in Matches(w, a) : TRUE
<1>2. Matches(w, a) # {}
  BY <1>1, FS_EmptySet
<1>3. k \in Matches(w, a)
  BY <1>2
<1> HIDE DEF k
<1>4. k \in DOMAIN Rows(w) /\ Rows(w)[k] = a
  BY <1>3 DEF Matches
<1>5. i + 1 = k
  <2>1. k \in Int /\ i = k - 1
    BY <1>1, <1>4, RowsAreSequences DEF k
  <2> QED BY <2>1
<1> QED BY <1>1, <1>4, <1>5

(* And it does so for every anchor that has such a row.                    *)
LEMMA UniqueRemapped ==
    ASSUME NEW w \in Sessions, NEW a \in Tables[w].anchors, Cardinality(Matches(w, a)) = 1
    PROVE  \E i \in RemapAnchors(w) : Rows(w)[i + 1] = a
<1> DEFINE k == CHOOSE k \in Matches(w, a) : TRUE
<1>1. Matches(w, a) # {}
  BY FS_EmptySet
<1>2. k \in Matches(w, a)
  BY <1>1
<1>3. k - 1 \in RemapAnchors(w)
  BY DEF RemapAnchors
<1> HIDE DEF k
<1>4. Rows(w)[k] = a /\ (k - 1) + 1 = k
  <2>1. k \in DOMAIN Rows(w) /\ Rows(w)[k] = a
    BY <1>2 DEF Matches
  <2>2. DOMAIN Rows(w) = 1..Len(Rows(w)) /\ Len(Rows(w)) \in Nat
    BY RowsAreSequences
  <2>3. k \in Int
    BY <2>1, <2>2
  <2> QED BY <2>1, <2>3
<1> QED BY <1>3, <1>4

(* Exports write staging files of their own, sync and rename: whatever     *)
(* fails, is cancelled, killed or loses power, the destination is absent,  *)
(* what it was, or one export, and its anchors reopen on their records.    *)
THEOREM BundleWhole == BundleSpec => []BundleReopensAsSaved
<1>1. BundleInit => BundleInv
  <2> SUFFICES ASSUME BundleInit PROVE BundleInv
    OBVIOUS
  <2>1. PICK d \in {{}, WholeOf("old")} : onDisk = [p \in Paths |-> IF p = "dest" THEN d ELSE {}]
    BY DEF BundleInit, WholeOf
  <2>2. DOMAIN onDisk = Paths /\ onDisk["dest"] = d /\ \A p \in Names : onDisk[p] = {}
    BY <2>1, BundleAssumption DEF Paths
  <2>3. Whole(d)
    BY DEF Whole, Sessions
  <2>4. IdleWriter \in WriterStates /\ IdleWriter.name = "dest" /\ IdleWriter.pc = "idle" /\ IdleWriter.next = 0
    BY DEF IdleWriter, WriterStates, Paths
  <2>5. \A w \in Writers : Staged(w)
    BY <2>4 DEF BundleInit, Staged
  <2>6. StagingFilesOwned
    BY <2>2, <2>4 DEF BundleInit, StagingFilesOwned
  <2> QED BY <2>2, <2>3, <2>4, <2>5, <2>6 DEF BundleInit, BundleInv, NoView
<1>2. BundleInv => BundleReopensAsSaved
  <2> SUFFICES ASSUME BundleInv PROVE BundleReopensAsSaved
    OBVIOUS
  <2>1. DestinationWhole
    BY DEF BundleInv, Whole, WholeOf, Sessions, DestinationWhole
  <2>2. AnchorsFollowRecords
    <3> SUFFICES ASSUME view.by # "none"
                 PROVE  /\ \A i \in view.anchors : Rows(view.by)[i + 1] \in Tables[view.by].anchors
                        /\ view.anchors # {} => \A a \in Tables[view.by].anchors :
                             Cardinality(Matches(view.by, a)) = 1 <=> \E i \in view.anchors : Rows(view.by)[i + 1] = a
      BY DEF AnchorsFollowRecords
    <3> DEFINE w == view.by
    <3>1. w \in Sessions /\ view.anchors \in {{}, RemapAnchors(w)}
      BY DEF BundleInv
    <3>2. CASE view.anchors = {}
      BY <3>2
    <3>3. CASE view.anchors = RemapAnchors(w)
      BY <3>1, <3>3, RemappedRight, UniqueRemapped
    <3> QED BY <3>1, <3>2, <3>3
  <2> QED BY <2>1, <2>2 DEF BundleInv, BundleReopensAsSaved
<1> QED BY <1>1, <1>2, BundleStep, PTL DEF BundleSpec

-----------------------------------------------------------------------------
(* 4. The single-instance guard, for any number of launches, timeouts and  *)
(* crashes.                                                                *)
(*                                                                         *)
(* Neither property is inductive.  OnePrimary needs that whoever is past   *)
(* TryAcquire's lock still holds it, and that an undisturbed launch that   *)
(* found no primary finds none until it listens itself.                    *)
(* OneWindowPerLaunch needs that a frame which a primary may still decode  *)
(* belongs to a launch without a window.                                   *)

Launches == {"off", "probe", "sent", "lock", "retry", "resent", "remove",
             "listen", "late", "latesent", "run", "exited", "crashed"}
Frames == {"none", "whole", "partial", "closed"}

TypeInv ==
    /\ launch \in [Procs -> Launches]
    /\ files \in [Procs -> [asked : Nat, sent : Nat]]
    /\ \A p \in Procs : files[p].sent <= files[p].asked
    /\ conn \in [Procs -> [to : Procs \union {NoProc}, frame : Frames]]
    /\ bound \in Procs \union {NoProc} /\ takeover \in Procs \union {NoProc}
    /\ listening \subseteq Procs
    /\ opened \in [Procs -> Nat \X Nat \X Nat]
    /\ slow \in Nat /\ guardCrashes \in Nat /\ contended \in BOOLEAN

(* Only a running process listens.                                         *)
ListenersRun == \A p \in listening : launch[p] = "run"

(* The lock is not released, and not taken over, before its holder is done. *)
HoldsLock ==
    \A p \in Procs :
        launch[p] \in {"remove", "listen", "late", "latesent"} => takeover = p

(* Of launches that do not overlap: one acquires at a time, the name leads *)
(* to the only primary, and there is none once the first connect failed.   *)
Undisturbed ==
    ~contended =>
        /\ \A p, q \in Procs : Acquiring(p) /\ Acquiring(q) => p = q
        /\ \A p \in listening : bound = p
        /\ \A p \in Procs :
             launch[p] \in {"lock", "retry", "resent", "remove", "listen", "late", "latesent"}
                => listening = {}

(* A launch that still probes has a frame to send, or somebody was there.  *)
ProbeFits == \A p \in Procs : launch[p] \in {"probe", "sent"} => PayloadFits(files[p])

PrimaryInv == TypeInv /\ ListenersRun /\ HoldsLock /\ ProbeFits /\ Undisturbed

Pending(p) == conn[p].frame \in {"whole", "partial"}

(* A frame that may still be decoded has opened no window, and a launch    *)
(* that is about to run on its own has no such frame left.                 *)
WindowInv ==
    \A p \in Procs :
        /\ Pending(p) => opened[p][1] = 0
        /\ launch[p] \in {"off", "probe", "lock", "retry", "remove", "listen", "late"}
              => opened[p][1] = 0 /\ ~Pending(p)
-----------------------------------------------------------------------------
(* Data.                                                                   *)

(* The least of three numbers is one of them, and not above the others.    *)
LEMMA LeastOfThree ==
    ASSUME NEW a \in Nat, NEW b \in Nat, NEW c \in Nat
    PROVE  Min({a, b, c}) \in {a, b, c} /\ Min({a, b, c}) <= a
<1> DEFINE S == {a, b, c}
<1>1. \E x \in S : \A y \in S : x <= y
  <2>1. CASE a <= b /\ a <= c BY <2>1
  <2>2. CASE b <= a /\ b <= c BY <2>2
  <2>3. CASE c <= a /\ c <= b BY <2>3
  <2> QED BY <2>1, <2>2, <2>3
<1> QED BY <1>1 DEF Min

(* TrimPayload sends a number of files.                                    *)
LEMMA TrimmedType ==
    ASSUME NEW n \in Nat, NEW fit \in Nat
    PROVE  Trimmed(n, fit) \in Nat /\ Trimmed(n, fit) <= n
BY LeastOfThree, GuardAssumption DEF Trimmed

-----------------------------------------------------------------------------
(* The step of each invariant.                                             *)

(* Every step keeps the types.                                             *)
LEMMA TypeStep ==
    ASSUME TypeInv, [GuardNext]_guardVars
    PROVE  TypeInv'
<1> USE GuardAssumption DEF guardVars
<1>1. ASSUME NEW p \in Procs, NEW alone \in BOOLEAN, NEW n \in FileCounts, NEW fit \in 0..n, Launch(p, alone, n, fit) PROVE TypeInv'
  <2>1. n \in Nat
    BY GuardAssumption
  <2>2. fit \in Nat
    BY <2>1
  <2>3. Trimmed(n, fit) \in Nat /\ Trimmed(n, fit) <= n
    BY <2>1, <2>2, TrimmedType
  <2>4. files' \in [Procs -> [asked : Nat, sent : Nat]] /\ \A q \in Procs : files'[q].sent <= files'[q].asked
    BY <1>1, <2>1, <2>3 DEF Launch, TypeInv
  <2>5. CASE alone
    <3>1. opened' \in [Procs -> Nat \X Nat \X Nat]
      BY <1>1, <2>1, <2>5 DEF Launch, TypeInv
    <3>2. launch' \in [Procs -> Launches] /\ contended' = contended
      BY <1>1, <2>5 DEF Launch, TypeInv, Launches
    <3> QED BY <1>1, <2>4, <3>1, <3>2 DEF Launch, TypeInv
  <2>6. CASE ~alone
    <3>1. contended' \in BOOLEAN
      BY <1>1, <2>6 DEF Launch, TypeInv
    <3>2. launch' \in [Procs -> Launches] /\ opened' = opened
      BY <1>1, <2>6 DEF Launch, TypeInv, Launches
    <3> QED BY <1>1, <2>4, <3>1, <3>2 DEF Launch, TypeInv
  <2> QED BY <2>5, <2>6
<1>2. ASSUME NEW p \in Procs, NEW whole \in BOOLEAN, Connect(p, whole) PROVE TypeInv'
  BY <1>2 DEF TypeInv, Launches, Frames, Connect, Awaits
<1>3. ASSUME NEW p \in Procs, ConnectFails(p) PROVE TypeInv'
  <2>1. opened' \in [Procs -> Nat \X Nat \X Nat] /\ takeover' \in Procs \union {NoProc}
    BY <1>3 DEF TypeInv, ConnectFails, GiveUp, Run
  <2>2. launch' \in [Procs -> Launches]
    BY <1>3 DEF TypeInv, Launches, ConnectFails, GiveUp, Run
  <2>3. slow' \in Nat
    BY <1>3 DEF TypeInv, ConnectFails
  <2>4. contended' \in BOOLEAN
    BY <1>3 DEF TypeInv, ConnectFails
  <2> QED BY <1>3, <2>1, <2>2, <2>3, <2>4 DEF TypeInv, ConnectFails
<1>4. ASSUME NEW p \in Procs, Forwarded(p) PROVE TypeInv'
  <2>1. slow' \in Nat
    BY <1>4 DEF TypeInv, Forwarded
  <2>4. contended' \in BOOLEAN
    BY <1>4 DEF TypeInv, Forwarded
  <2> QED BY <1>4, <2>1, <2>4 DEF TypeInv, Launches, Forwarded
<1>5. ASSUME NEW p \in Procs, ForwardStalls(p) PROVE TypeInv'
  <2>1. opened' \in [Procs -> Nat \X Nat \X Nat] /\ takeover' \in Procs \union {NoProc}
    <3>1. CASE launch[p] = "sent"
      BY <1>5, <3>1 DEF TypeInv, ForwardStalls, GiveUp
    <3>2. CASE launch[p] # "sent"
      <4>1. launch[p] \notin {"probe", "sent"} /\ launch[p] \in {"resent", "latesent"}
        BY <1>5, <3>2 DEF ForwardStalls
      <4> QED BY <1>5, <4>1 DEF TypeInv, ForwardStalls, GiveUp, Run
    <3> QED BY <3>1, <3>2
  <2>2. launch' \in [Procs -> Launches]
    BY <1>5 DEF TypeInv, Launches, ForwardStalls, GiveUp, Run
  <2>3. conn' \in [Procs -> [to : Procs \union {NoProc}, frame : Frames]]
    BY <1>5 DEF TypeInv, Frames, ForwardStalls
  <2> QED BY <1>5, <2>1, <2>2, <2>3 DEF TypeInv, ForwardStalls
<1>6. ASSUME NEW p \in Procs, TakeLock(p) PROVE TypeInv'
  BY <1>6 DEF TypeInv, Launches, Frames, TakeLock
<1>7. ASSUME NEW p \in Procs, LockTimesOut(p) PROVE TypeInv'
  BY <1>7 DEF TypeInv, Launches, Frames, LockTimesOut
<1>8. ASSUME NEW p \in Procs, RemoveServer(p) PROVE TypeInv'
  BY <1>8 DEF TypeInv, Launches, Frames, RemoveServer
<1>9. ASSUME NEW p \in Procs, Listen(p) PROVE TypeInv'
  BY <1>9 DEF TypeInv, Launches, Frames, Listen, Run
<1>10. ASSUME NEW p \in Procs, ListenFails(p) PROVE TypeInv'
  BY <1>10 DEF TypeInv, Launches, Frames, ListenFails
<1>11. ASSUME NEW p \in Procs, NEW q \in Procs, HandleNewConnection(p, q) PROVE TypeInv'
  <2>1. files[q].sent \in Nat /\ files[q].sent <= files[q].asked
    BY DEF TypeInv
  <2>2. opened' \in [Procs -> Nat \X Nat \X Nat]
    BY <1>11, <2>1 DEF TypeInv, HandleNewConnection
  <2>3. conn' \in [Procs -> [to : Procs \union {NoProc}, frame : Frames]]
    BY <1>11 DEF TypeInv, Frames, HandleNewConnection
  <2> QED BY <1>11, <2>2, <2>3 DEF TypeInv, HandleNewConnection
<1>12. ASSUME NEW p \in Procs, NEW q \in Procs, DropIdle(p, q) PROVE TypeInv'
  BY <1>12 DEF TypeInv, Launches, Frames, DropIdle
<1>13. ASSUME NEW p \in Procs, Quit(p) PROVE TypeInv'
  BY <1>13 DEF TypeInv, Launches, Frames, Quit, DropConnections
<1>14. ASSUME NEW p \in Procs, GuardCrash(p) PROVE TypeInv'
  <2>1. DropConnections(p) \in [Procs -> [to : Procs \union {NoProc}, frame : Frames]]
    BY DEF TypeInv, DropConnections, Frames
  <2>2. conn' \in [Procs -> [to : Procs \union {NoProc}, frame : Frames]]
    BY <1>14, <2>1 DEF GuardCrash, Frames
  <2> QED BY <1>14, <2>2 DEF TypeInv, Launches, GuardCrash
<1>15. CASE UNCHANGED guardVars
  BY <1>15 DEF TypeInv, Launches, Frames
<1> QED BY <1>1, <1>2, <1>3, <1>4, <1>5, <1>6, <1>7, <1>8, <1>9, <1>10, <1>11, <1>12, <1>13, <1>14, <1>15 DEF GuardNext

(* A process that listens runs; whoever quits or crashes stops listening.  *)
LEMMA RunningStep ==
    ASSUME TypeInv, ListenersRun, [GuardNext]_guardVars
    PROVE  ListenersRun'
<1> USE GuardAssumption DEF guardVars
<1>1. ASSUME NEW p \in Procs, NEW alone \in BOOLEAN, NEW n \in FileCounts, NEW fit \in 0..n, Launch(p, alone, n, fit) PROVE ListenersRun'
  BY <1>1 DEF TypeInv, ListenersRun, Launch
<1>2. ASSUME NEW p \in Procs, NEW whole \in BOOLEAN, Connect(p, whole) PROVE ListenersRun'
  BY <1>2 DEF TypeInv, ListenersRun, Connect, Awaits
<1>3. ASSUME NEW p \in Procs, ConnectFails(p) PROVE ListenersRun'
  BY <1>3 DEF TypeInv, ListenersRun, ConnectFails, GiveUp, Run, Awaits
<1>4. ASSUME NEW p \in Procs, Forwarded(p) PROVE ListenersRun'
  BY <1>4 DEF TypeInv, ListenersRun, Forwarded
<1>5. ASSUME NEW p \in Procs, ForwardStalls(p) PROVE ListenersRun'
  BY <1>5 DEF TypeInv, ListenersRun, ForwardStalls, Stalled, GiveUp, Run
<1>6. ASSUME NEW p \in Procs, TakeLock(p) PROVE ListenersRun'
  BY <1>6 DEF TypeInv, ListenersRun, TakeLock
<1>7. ASSUME NEW p \in Procs, LockTimesOut(p) PROVE ListenersRun'
  BY <1>7 DEF TypeInv, ListenersRun, LockTimesOut
<1>8. ASSUME NEW p \in Procs, RemoveServer(p) PROVE ListenersRun'
  BY <1>8 DEF TypeInv, ListenersRun, RemoveServer
<1>9. ASSUME NEW p \in Procs, Listen(p) PROVE ListenersRun'
  BY <1>9 DEF TypeInv, ListenersRun, Listen, Run
<1>10. ASSUME NEW p \in Procs, ListenFails(p) PROVE ListenersRun'
  BY <1>10 DEF TypeInv, ListenersRun, ListenFails
<1>11. ASSUME NEW p \in Procs, NEW q \in Procs, HandleNewConnection(p, q) PROVE ListenersRun'
  BY <1>11 DEF TypeInv, ListenersRun, HandleNewConnection
<1>12. ASSUME NEW p \in Procs, NEW q \in Procs, DropIdle(p, q) PROVE ListenersRun'
  BY <1>12 DEF TypeInv, ListenersRun, DropIdle
<1>13. ASSUME NEW p \in Procs, Quit(p) PROVE ListenersRun'
  BY <1>13 DEF TypeInv, ListenersRun, Quit, DropConnections
<1>14. ASSUME NEW p \in Procs, GuardCrash(p) PROVE ListenersRun'
  BY <1>14 DEF TypeInv, ListenersRun, GuardCrash, DropConnections, Alive
<1>15. CASE UNCHANGED guardVars
  BY <1>15 DEF TypeInv, ListenersRun
<1> QED BY <1>1, <1>2, <1>3, <1>4, <1>5, <1>6, <1>7, <1>8, <1>9, <1>10, <1>11, <1>12, <1>13, <1>14, <1>15 DEF GuardNext

(* The holder of the takeover lock is the process past TakeLock, alive.    *)
LEMMA HoldsStep ==
    ASSUME TypeInv, HoldsLock, [GuardNext]_guardVars
    PROVE  HoldsLock'
<1> USE GuardAssumption DEF guardVars
<1>1. ASSUME NEW p \in Procs, NEW alone \in BOOLEAN, NEW n \in FileCounts, NEW fit \in 0..n, Launch(p, alone, n, fit) PROVE HoldsLock'
  BY <1>1 DEF TypeInv, HoldsLock, Launch
<1>2. ASSUME NEW p \in Procs, NEW whole \in BOOLEAN, Connect(p, whole) PROVE HoldsLock'
  BY <1>2 DEF TypeInv, HoldsLock, Connect, Awaits
<1>3. ASSUME NEW p \in Procs, ConnectFails(p) PROVE HoldsLock'
  BY <1>3 DEF TypeInv, HoldsLock, ConnectFails, GiveUp, Run, Awaits
<1>4. ASSUME NEW p \in Procs, Forwarded(p) PROVE HoldsLock'
  BY <1>4 DEF TypeInv, HoldsLock, Forwarded
<1>5. ASSUME NEW p \in Procs, ForwardStalls(p) PROVE HoldsLock'
  BY <1>5 DEF TypeInv, HoldsLock, ForwardStalls, Stalled, GiveUp, Run
<1>6. ASSUME NEW p \in Procs, TakeLock(p) PROVE HoldsLock'
  <2>1. ASSUME NEW q \in Procs, launch[q] \in {"remove", "listen", "late", "latesent"} PROVE FALSE
    BY <1>6, <2>1 DEF TakeLock, TakeoverFree, HoldsLock, Alive
  <2> QED BY <1>6, <2>1 DEF TakeLock, TypeInv, HoldsLock
<1>7. ASSUME NEW p \in Procs, LockTimesOut(p) PROVE HoldsLock'
  BY <1>7 DEF TypeInv, HoldsLock, LockTimesOut
<1>8. ASSUME NEW p \in Procs, RemoveServer(p) PROVE HoldsLock'
  BY <1>8 DEF TypeInv, HoldsLock, RemoveServer
<1>9. ASSUME NEW p \in Procs, Listen(p) PROVE HoldsLock'
  BY <1>9 DEF TypeInv, HoldsLock, Listen, Run
<1>10. ASSUME NEW p \in Procs, ListenFails(p) PROVE HoldsLock'
  BY <1>10 DEF TypeInv, HoldsLock, ListenFails
<1>11. ASSUME NEW p \in Procs, NEW q \in Procs, HandleNewConnection(p, q) PROVE HoldsLock'
  BY <1>11 DEF TypeInv, HoldsLock, HandleNewConnection
<1>12. ASSUME NEW p \in Procs, NEW q \in Procs, DropIdle(p, q) PROVE HoldsLock'
  BY <1>12 DEF TypeInv, HoldsLock, DropIdle
<1>13. ASSUME NEW p \in Procs, Quit(p) PROVE HoldsLock'
  BY <1>13 DEF TypeInv, HoldsLock, Quit, DropConnections
<1>14. ASSUME NEW p \in Procs, GuardCrash(p) PROVE HoldsLock'
  BY <1>14 DEF TypeInv, HoldsLock, GuardCrash, DropConnections, Alive
<1>15. CASE UNCHANGED guardVars
  BY <1>15 DEF TypeInv, HoldsLock
<1> QED BY <1>1, <1>2, <1>3, <1>4, <1>5, <1>6, <1>7, <1>8, <1>9, <1>10, <1>11, <1>12, <1>13, <1>14, <1>15 DEF GuardNext

(* TryAcquire probes with a frame only.                                    *)
LEMMA ProbeStep ==
    ASSUME TypeInv, ProbeFits, [GuardNext]_guardVars
    PROVE  ProbeFits'
<1> USE GuardAssumption DEF guardVars
<1>1. ASSUME NEW p \in Procs, NEW alone \in BOOLEAN, NEW n \in FileCounts, NEW fit \in 0..n, Launch(p, alone, n, fit) PROVE ProbeFits'
  BY <1>1 DEF TypeInv, ProbeFits, PayloadFits, Launch
<1>2. ASSUME NEW p \in Procs, NEW whole \in BOOLEAN, Connect(p, whole) PROVE ProbeFits'
  BY <1>2 DEF TypeInv, ProbeFits, PayloadFits, Connect, Awaits
<1>3. ASSUME NEW p \in Procs, ConnectFails(p) PROVE ProbeFits'
  BY <1>3 DEF TypeInv, ProbeFits, PayloadFits, ConnectFails, GiveUp, Run, Awaits
<1>4. ASSUME NEW p \in Procs, Forwarded(p) PROVE ProbeFits'
  BY <1>4 DEF TypeInv, ProbeFits, PayloadFits, Forwarded
<1>5. ASSUME NEW p \in Procs, ForwardStalls(p) PROVE ProbeFits'
  BY <1>5 DEF TypeInv, ProbeFits, PayloadFits, ForwardStalls, Stalled, GiveUp, Run
<1>6. ASSUME NEW p \in Procs, TakeLock(p) PROVE ProbeFits'
  BY <1>6 DEF TypeInv, ProbeFits, PayloadFits, TakeLock
<1>7. ASSUME NEW p \in Procs, LockTimesOut(p) PROVE ProbeFits'
  BY <1>7 DEF TypeInv, ProbeFits, PayloadFits, LockTimesOut
<1>8. ASSUME NEW p \in Procs, RemoveServer(p) PROVE ProbeFits'
  BY <1>8 DEF TypeInv, ProbeFits, PayloadFits, RemoveServer
<1>9. ASSUME NEW p \in Procs, Listen(p) PROVE ProbeFits'
  BY <1>9 DEF TypeInv, ProbeFits, PayloadFits, Listen, Run
<1>10. ASSUME NEW p \in Procs, ListenFails(p) PROVE ProbeFits'
  BY <1>10 DEF TypeInv, ProbeFits, PayloadFits, ListenFails
<1>11. ASSUME NEW p \in Procs, NEW q \in Procs, HandleNewConnection(p, q) PROVE ProbeFits'
  BY <1>11 DEF TypeInv, ProbeFits, PayloadFits, HandleNewConnection
<1>12. ASSUME NEW p \in Procs, NEW q \in Procs, DropIdle(p, q) PROVE ProbeFits'
  BY <1>12 DEF TypeInv, ProbeFits, PayloadFits, DropIdle
<1>13. ASSUME NEW p \in Procs, Quit(p) PROVE ProbeFits'
  BY <1>13 DEF TypeInv, ProbeFits, PayloadFits, Quit, DropConnections
<1>14. ASSUME NEW p \in Procs, GuardCrash(p) PROVE ProbeFits'
  BY <1>14 DEF TypeInv, ProbeFits, PayloadFits, GuardCrash, DropConnections, Alive
<1>15. CASE UNCHANGED guardVars
  BY <1>15 DEF TypeInv, ProbeFits, PayloadFits
<1> QED BY <1>1, <1>2, <1>3, <1>4, <1>5, <1>6, <1>7, <1>8, <1>9, <1>10, <1>11, <1>12, <1>13, <1>14, <1>15 DEF GuardNext

(* Undisturbed launches come one after the other.                          *)
LEMMA UndisturbedStep ==
    ASSUME TypeInv, ListenersRun, HoldsLock, ProbeFits, Undisturbed, [GuardNext]_guardVars
    PROVE  Undisturbed'
<1> USE GuardAssumption DEF guardVars
<1>1. ASSUME NEW p \in Procs, NEW alone \in BOOLEAN, NEW n \in FileCounts, NEW fit \in 0..n, Launch(p, alone, n, fit) PROVE Undisturbed'
  <2> SUFFICES ASSUME ~contended' PROVE Undisturbed'
    BY DEF Undisturbed
  <2>1. ~contended
    BY <1>1 DEF Launch
  <2>2. CASE alone
    BY <1>1, <2>1, <2>2 DEF TypeInv, Undisturbed, Acquiring, Launch
  <2>3. CASE ~alone
    <3>1. launch' = [launch EXCEPT ![p] = "probe"] /\ \A q \in Procs : ~Acquiring(q)
      <4>1. PayloadFits(files'[p]) /\ \A q \in Procs : ~Acquiring(q)
        BY <1>1, <2>3 DEF Launch
      <4> QED BY <1>1, <2>3, <4>1 DEF Launch
    <3>2. listening' = listening /\ bound' = bound
      BY <1>1 DEF Launch
    <3> QED BY <2>1, <3>1, <3>2 DEF TypeInv, Undisturbed, Acquiring
  <2> QED BY <2>2, <2>3
<1>2. ASSUME NEW p \in Procs, NEW whole \in BOOLEAN, Connect(p, whole) PROVE Undisturbed'
  BY <1>2 DEF TypeInv, Undisturbed, Acquiring, Connect, Awaits
<1>3. ASSUME NEW p \in Procs, ConnectFails(p) PROVE Undisturbed'
  <2> SUFFICES ASSUME ~contended' PROVE Undisturbed'
    BY DEF Undisturbed
  <2>1. ~contended
    BY <1>3 DEF ConnectFails, TypeInv
  <2>2. launch[p] = "probe" => listening = {}
    BY <1>3, <2>1 DEF ConnectFails, ProbeFits, Reachable, ListenersRun, Undisturbed, Alive, TypeInv
  <2>3. listening' = listening /\ bound' = bound
    BY <1>3 DEF ConnectFails
  <2>4. launch[p] \in {"probe", "retry", "late"}
    BY <1>3 DEF ConnectFails, Awaits
  <2>5. CASE launch[p] = "probe"
    <3>1. launch' = [launch EXCEPT ![p] = "lock"]
      BY <1>3, <2>5 DEF ConnectFails, GiveUp
    <3> QED BY <2>1, <2>2, <2>3, <2>5, <3>1 DEF TypeInv, Undisturbed, Acquiring
  <2>6. CASE launch[p] \in {"retry", "late"}
    <3>1. launch' = [launch EXCEPT ![p] = "run"]
      BY <1>3, <2>6 DEF ConnectFails, GiveUp, Run
    <3> QED BY <2>1, <2>3, <3>1 DEF TypeInv, Undisturbed, Acquiring
  <2> QED BY <2>4, <2>5, <2>6
<1>4. ASSUME NEW p \in Procs, Forwarded(p) PROVE Undisturbed'
  BY <1>4 DEF TypeInv, Undisturbed, Acquiring, Forwarded
<1>5. ASSUME NEW p \in Procs, ForwardStalls(p) PROVE Undisturbed'
  BY <1>5 DEF TypeInv, Undisturbed, Acquiring, ForwardStalls, Stalled, GiveUp, Run
<1>6. ASSUME NEW p \in Procs, TakeLock(p) PROVE Undisturbed'
  BY <1>6 DEF TypeInv, Undisturbed, Acquiring, TakeLock
<1>7. ASSUME NEW p \in Procs, LockTimesOut(p) PROVE Undisturbed'
  BY <1>7 DEF TypeInv, Undisturbed, Acquiring, LockTimesOut
<1>8. ASSUME NEW p \in Procs, RemoveServer(p) PROVE Undisturbed'
  BY <1>8 DEF TypeInv, Undisturbed, Acquiring, RemoveServer
<1>9. ASSUME NEW p \in Procs, Listen(p) PROVE Undisturbed'
  BY <1>9 DEF TypeInv, Undisturbed, Acquiring, Listen, Run
<1>10. ASSUME NEW p \in Procs, ListenFails(p) PROVE Undisturbed'
  BY <1>10 DEF TypeInv, Undisturbed, Acquiring, ListenFails
<1>11. ASSUME NEW p \in Procs, NEW q \in Procs, HandleNewConnection(p, q) PROVE Undisturbed'
  BY <1>11 DEF TypeInv, Undisturbed, Acquiring, HandleNewConnection
<1>12. ASSUME NEW p \in Procs, NEW q \in Procs, DropIdle(p, q) PROVE Undisturbed'
  BY <1>12 DEF TypeInv, Undisturbed, Acquiring, DropIdle
<1>13. ASSUME NEW p \in Procs, Quit(p) PROVE Undisturbed'
  BY <1>13 DEF TypeInv, Undisturbed, Acquiring, Quit, DropConnections
<1>14. ASSUME NEW p \in Procs, GuardCrash(p) PROVE Undisturbed'
  BY <1>14 DEF TypeInv, Undisturbed, Acquiring, GuardCrash, DropConnections, Alive
<1>15. CASE UNCHANGED guardVars
  BY <1>15 DEF TypeInv, Undisturbed, Acquiring
<1> QED BY <1>1, <1>2, <1>3, <1>4, <1>5, <1>6, <1>7, <1>8, <1>9, <1>10, <1>11, <1>12, <1>13, <1>14, <1>15 DEF GuardNext

(* No second window, whatever times out.                                   *)
LEMMA WindowStep ==
    ASSUME TypeInv, WindowInv, [GuardNext]_guardVars
    PROVE  WindowInv'
<1> USE GuardAssumption DEF guardVars
<1>1. ASSUME NEW p \in Procs, NEW alone \in BOOLEAN, NEW n \in FileCounts, NEW fit \in 0..n, Launch(p, alone, n, fit) PROVE WindowInv'
  BY <1>1 DEF TypeInv, WindowInv, Pending, Launch
<1>2. ASSUME NEW p \in Procs, NEW whole \in BOOLEAN, Connect(p, whole) PROVE WindowInv'
  BY <1>2 DEF TypeInv, WindowInv, Pending, Connect, Awaits
<1>3. ASSUME NEW p \in Procs, ConnectFails(p) PROVE WindowInv'
  BY <1>3 DEF TypeInv, WindowInv, Pending, ConnectFails, GiveUp, Run, Awaits
<1>4. ASSUME NEW p \in Procs, Forwarded(p) PROVE WindowInv'
  BY <1>4 DEF TypeInv, WindowInv, Pending, Forwarded
<1>5. ASSUME NEW p \in Procs, ForwardStalls(p) PROVE WindowInv'
  BY <1>5 DEF TypeInv, WindowInv, Pending, ForwardStalls, Stalled, GiveUp, Run
<1>6. ASSUME NEW p \in Procs, TakeLock(p) PROVE WindowInv'
  BY <1>6 DEF TypeInv, WindowInv, Pending, TakeLock
<1>7. ASSUME NEW p \in Procs, LockTimesOut(p) PROVE WindowInv'
  BY <1>7 DEF TypeInv, WindowInv, Pending, LockTimesOut
<1>8. ASSUME NEW p \in Procs, RemoveServer(p) PROVE WindowInv'
  BY <1>8 DEF TypeInv, WindowInv, Pending, RemoveServer
<1>9. ASSUME NEW p \in Procs, Listen(p) PROVE WindowInv'
  BY <1>9 DEF TypeInv, WindowInv, Pending, Listen, Run
<1>10. ASSUME NEW p \in Procs, ListenFails(p) PROVE WindowInv'
  BY <1>10 DEF TypeInv, WindowInv, Pending, ListenFails
<1>11. ASSUME NEW p \in Procs, NEW q \in Procs, HandleNewConnection(p, q) PROVE WindowInv'
  BY <1>11 DEF TypeInv, WindowInv, Pending, HandleNewConnection
<1>12. ASSUME NEW p \in Procs, NEW q \in Procs, DropIdle(p, q) PROVE WindowInv'
  BY <1>12 DEF TypeInv, WindowInv, Pending, DropIdle
<1>13. ASSUME NEW p \in Procs, Quit(p) PROVE WindowInv'
  BY <1>13 DEF TypeInv, WindowInv, Pending, Quit, DropConnections
<1>14. ASSUME NEW p \in Procs, GuardCrash(p) PROVE WindowInv'
  BY <1>14 DEF TypeInv, WindowInv, Pending, GuardCrash, DropConnections, Alive
<1>15. CASE UNCHANGED guardVars
  BY <1>15 DEF TypeInv, WindowInv, Pending
<1> QED BY <1>1, <1>2, <1>3, <1>4, <1>5, <1>6, <1>7, <1>8, <1>9, <1>10, <1>11, <1>12, <1>13, <1>14, <1>15 DEF GuardNext

(* Whoever opens a window tells it of all files of the launch.             *)
LEMMA AccountStep ==
    ASSUME TypeInv, WindowInv, OneWindowPerLaunch, [GuardNext]_guardVars
    PROVE  OneWindowPerLaunch'
<1> USE GuardAssumption DEF guardVars
<1>1. ASSUME NEW p \in Procs, NEW alone \in BOOLEAN, NEW n \in FileCounts, NEW fit \in 0..n, Launch(p, alone, n, fit) PROVE OneWindowPerLaunch'
  BY <1>1 DEF TypeInv, WindowInv, Pending, OneWindowPerLaunch, Launch
<1>2. ASSUME NEW p \in Procs, NEW whole \in BOOLEAN, Connect(p, whole) PROVE OneWindowPerLaunch'
  BY <1>2 DEF TypeInv, WindowInv, Pending, OneWindowPerLaunch, Connect, Awaits
<1>3. ASSUME NEW p \in Procs, ConnectFails(p) PROVE OneWindowPerLaunch'
  <2>1. files' = files /\ launch[p] \in {"probe", "retry", "late"}
    BY <1>3 DEF ConnectFails, Awaits
  <2>2. CASE launch[p] = "probe"
    BY <1>3, <2>1, <2>2 DEF OneWindowPerLaunch, ConnectFails, GiveUp
  <2>3. CASE launch[p] # "probe"
    <3>1. opened' = [opened EXCEPT ![p] = <<opened[p][1] + 1, files[p].asked, 0>>]
      BY <1>3, <2>1, <2>3 DEF ConnectFails, GiveUp, Run
    <3>2. opened[p][1] = 0
      BY <2>1, <2>3 DEF WindowInv
    <3> QED BY <2>1, <3>1, <3>2 DEF TypeInv, OneWindowPerLaunch
  <2> QED BY <2>2, <2>3
<1>4. ASSUME NEW p \in Procs, Forwarded(p) PROVE OneWindowPerLaunch'
  BY <1>4 DEF TypeInv, WindowInv, Pending, OneWindowPerLaunch, Forwarded
<1>5. ASSUME NEW p \in Procs, ForwardStalls(p) PROVE OneWindowPerLaunch'
  BY <1>5 DEF TypeInv, WindowInv, Pending, OneWindowPerLaunch, ForwardStalls, Stalled, GiveUp, Run
<1>6. ASSUME NEW p \in Procs, TakeLock(p) PROVE OneWindowPerLaunch'
  BY <1>6 DEF TypeInv, WindowInv, Pending, OneWindowPerLaunch, TakeLock
<1>7. ASSUME NEW p \in Procs, LockTimesOut(p) PROVE OneWindowPerLaunch'
  BY <1>7 DEF TypeInv, WindowInv, Pending, OneWindowPerLaunch, LockTimesOut
<1>8. ASSUME NEW p \in Procs, RemoveServer(p) PROVE OneWindowPerLaunch'
  BY <1>8 DEF TypeInv, WindowInv, Pending, OneWindowPerLaunch, RemoveServer
<1>9. ASSUME NEW p \in Procs, Listen(p) PROVE OneWindowPerLaunch'
  BY <1>9 DEF TypeInv, WindowInv, Pending, OneWindowPerLaunch, Listen, Run
<1>10. ASSUME NEW p \in Procs, ListenFails(p) PROVE OneWindowPerLaunch'
  BY <1>10 DEF TypeInv, WindowInv, Pending, OneWindowPerLaunch, ListenFails
<1>11. ASSUME NEW p \in Procs, NEW q \in Procs, HandleNewConnection(p, q) PROVE OneWindowPerLaunch'
  BY <1>11 DEF TypeInv, WindowInv, Pending, OneWindowPerLaunch, HandleNewConnection
<1>12. ASSUME NEW p \in Procs, NEW q \in Procs, DropIdle(p, q) PROVE OneWindowPerLaunch'
  BY <1>12 DEF TypeInv, WindowInv, Pending, OneWindowPerLaunch, DropIdle
<1>13. ASSUME NEW p \in Procs, Quit(p) PROVE OneWindowPerLaunch'
  BY <1>13 DEF TypeInv, WindowInv, Pending, OneWindowPerLaunch, Quit, DropConnections
<1>14. ASSUME NEW p \in Procs, GuardCrash(p) PROVE OneWindowPerLaunch'
  BY <1>14 DEF TypeInv, WindowInv, Pending, OneWindowPerLaunch, GuardCrash, DropConnections, Alive
<1>15. CASE UNCHANGED guardVars
  BY <1>15 DEF TypeInv, WindowInv, Pending, OneWindowPerLaunch
<1> QED BY <1>1, <1>2, <1>3, <1>4, <1>5, <1>6, <1>7, <1>8, <1>9, <1>10, <1>11, <1>12, <1>13, <1>14, <1>15 DEF GuardNext

-----------------------------------------------------------------------------
LEMMA GuardInitOK == GuardInit => PrimaryInv /\ WindowInv /\ OneWindowPerLaunch
<1> SUFFICES ASSUME GuardInit PROVE PrimaryInv /\ WindowInv /\ OneWindowPerLaunch
  OBVIOUS
<1> USE GuardAssumption DEF GuardInit, NoConn
<1>1. TypeInv
  <2>1. files \in [Procs -> [asked : Nat, sent : Nat]] /\ opened \in [Procs -> Nat \X Nat \X Nat]
    OBVIOUS
  <2>2. \A p \in Procs : files[p].sent <= files[p].asked
    OBVIOUS
  <2>3. launch \in [Procs -> Launches] /\ conn \in [Procs -> [to : Procs \union {NoProc}, frame : Frames]]
    BY DEF Launches, Frames
  <2> QED BY <2>1, <2>2, <2>3 DEF TypeInv
<1>2. ListenersRun /\ HoldsLock /\ ProbeFits
  BY DEF ListenersRun, HoldsLock, ProbeFits
<1>3. Undisturbed
  BY DEF Undisturbed, Acquiring
<1>4. WindowInv
  BY DEF WindowInv, Pending
<1>5. OneWindowPerLaunch
  BY DEF OneWindowPerLaunch
<1> QED BY <1>1, <1>2, <1>3, <1>4, <1>5 DEF PrimaryInv

LEMMA PrimaryInvariant == GuardSpec => []PrimaryInv
<1>1. PrimaryInv /\ [GuardNext]_guardVars => PrimaryInv'
  BY TypeStep, RunningStep, HoldsStep, ProbeStep, UndisturbedStep DEF PrimaryInv
<1> QED BY <1>1, GuardInitOK, PTL DEF GuardSpec

(* TryAcquire's lock lets one process at a time remove and bind the name,  *)
(* and launches that neither overlap nor time out leave one primary that   *)
(* the next launch finds.                                                  *)
THEOREM OnePrimaryAtATime == GuardSpec => []OnePrimary
<1>1. PrimaryInv => OnePrimary
  <2> SUFFICES ASSUME PrimaryInv PROVE OnePrimary
    OBVIOUS
  <2> USE DEF PrimaryInv
  <2>1. GuardTypeOK
    BY DEF TypeInv, ListenersRun, GuardTypeOK, Launches
  <2>2. TakeoverExclusive
    BY DEF HoldsLock, TakeoverExclusive
  <2>3. SerialLaunchesOnePrimary
    <3> SUFFICES ASSUME ~contended PROVE Cardinality(listening) <= 1 /\ \A p \in listening : bound = p
      BY DEF SerialLaunchesOnePrimary
    <3>1. \A p \in listening : bound = p
      BY DEF Undisturbed
    <3>2. CASE listening = {}
      BY <3>1, <3>2, FS_EmptySet
    <3>3. CASE listening # {}
      <4>1. listening = {bound}
        BY <3>1, <3>3
      <4>2. Cardinality({bound}) = 1
        BY FS_Singleton
      <4> QED BY <3>1, <4>1, <4>2
    <3> QED BY <3>2, <3>3
  <2> QED BY <2>1, <2>2, <2>3 DEF OnePrimary
<1> QED BY <1>1, PrimaryInvariant, PTL

(* A launch opens at most one window, whichever of its frames a primary    *)
(* decodes late and whatever it gives up on, and the window is told of     *)
(* every file of the launch (HandleNewConnection, TryAcquire, main).       *)
THEOREM OneWindowEach == GuardSpec => []OneWindowPerLaunch
<1> DEFINE Inv == TypeInv /\ WindowInv /\ OneWindowPerLaunch
<1>1. Inv /\ [GuardNext]_guardVars => Inv'
  BY TypeStep, WindowStep, AccountStep
<1>2. GuardInit => Inv
  BY GuardInitOK DEF PrimaryInv
<1> QED BY <1>1, <1>2, PTL DEF GuardSpec
-----------------------------------------------------------------------------
(* 5. What the recent sessions and the workspace keep: their sequences.    *)

LEMMA LeastNumber ==
    ASSUME NEW T \in SUBSET Nat, T # {}
    PROVE  \E m \in T : \A k \in T : m <= k
<1> DEFINE R == OpToRel(<, Nat)
<1>1. IsWellFoundedOn(R, Nat)
  BY NatLessThanWellFounded
<1>2. PICK m \in T : \A k \in T : ~ (<<k, m>> \in R)
  BY <1>1, WFMin, Zenon
<1>3. \A k, n \in Nat : k < n => <<k, n>> \in R
  BY DEF OpToRel
<1> HIDE DEF R
<1>4. \A k \in T : ~ (k < m) /\ k \in Nat /\ m \in Nat
  BY <1>2, <1>3
<1> QED BY <1>4

(* What holds of no least number holds of none.                            *)
LEMMA NoneFails ==
    ASSUME NEW Bad \in SUBSET Nat, 0 \notin Bad, \A n \in Nat : n \notin Bad => n + 1 \notin Bad
    PROVE  Bad = {}
<1> SUFFICES ASSUME Bad # {} PROVE FALSE
  OBVIOUS
<1>1. PICK m \in Bad : \A k \in Bad : m <= k
  BY LeastNumber
<1>2. m - 1 \in Nat /\ m - 1 \notin Bad /\ (m - 1) + 1 = m
  BY <1>1
<1> QED BY <1>1, <1>2

LEMMA Members == \A s : ToSet(s) = {s[i] : i \in DOMAIN s}
  BY DEF ToSet

LEMMA MembersOfSeq ==
    ASSUME NEW A, NEW s \in Seq(A)
    PROVE  /\ Len(s) \in Nat /\ DOMAIN s = 1 .. Len(s) /\ ToSet(s) \subseteq A
           /\ \A i \in 1 .. Len(s) : s[i] \in ToSet(s) /\ s[i] \in A
           /\ \A x \in ToSet(s) : \E i \in 1 .. Len(s) : x = s[i]
<1>1. Len(s) \in Nat /\ DOMAIN s = 1 .. Len(s) /\ \A i \in 1 .. Len(s) : s[i] \in A
  OBVIOUS
<1> QED BY <1>1 DEF ToSet

(* What the loop of MembersIn has gathered after each number of members.   *)
Gathers(kept, n, s, S) ==
    kept = [i \in 0 .. n |-> IF i = 0 THEN <<>>
                             ELSE IF s[i] \in S THEN Append(kept[i - 1], s[i]) ELSE kept[i - 1]]

LEMMA GathersSome ==
    ASSUME NEW s, NEW S, NEW n \in Nat
    PROVE  \E f : Gathers(f, n, s, S)
<1> DEFINE Bad == {k \in Nat : ~ \E f : Gathers(f, k, s, S)}
<1>1. 0 \notin Bad
  <2> DEFINE f == [i \in 0 .. 0 |-> <<>>]
  <2>1. Gathers(f, 0, s, S)
    BY DEF Gathers
  <2> QED BY <2>1
<1>2. ASSUME NEW k \in Nat, k \notin Bad PROVE k + 1 \notin Bad
  <2>1. PICK f : Gathers(f, k, s, S)
    BY <1>2
  <2> DEFINE g == [i \in 0 .. k + 1 |-> IF i = 0 THEN <<>>
                             ELSE IF s[i] \in S THEN Append(f[i - 1], s[i]) ELSE f[i - 1]]
  <2>2. ASSUME NEW i \in 0 .. k PROVE g[i] = f[i]
    <3>1. i \in 0 .. k + 1
      OBVIOUS
    <3>2. f[i] = IF i = 0 THEN <<>> ELSE IF s[i] \in S THEN Append(f[i - 1], s[i]) ELSE f[i - 1]
      BY <2>1 DEF Gathers
    <3> QED BY <3>1, <3>2
  <2>3. ASSUME NEW i \in 0 .. k + 1
        PROVE  g[i] = IF i = 0 THEN <<>> ELSE IF s[i] \in S THEN Append(g[i - 1], s[i]) ELSE g[i - 1]
    <3>1. CASE i = 0
      BY <3>1
    <3>2. CASE i # 0
      <4>1. i - 1 \in 0 .. k
        BY <3>2
      <4>2. g[i - 1] = f[i - 1]
        BY <2>2, <4>1
      <4>3. g[i] = IF s[i] \in S THEN Append(f[i - 1], s[i]) ELSE f[i - 1]
        BY <3>2
      <4> HIDE DEF g
      <4> QED BY <3>2, <4>2, <4>3
    <3> QED BY <3>1, <3>2
  <2>4. g = [i \in 0 .. k + 1 |-> g[i]]
    OBVIOUS
  <2>5. Gathers(g, k + 1, s, S)
    <3> HIDE DEF g
    <3> QED BY <2>3, <2>4 DEF Gathers
  <2> QED BY <2>5
<1>3. Bad = {}
  <2> HIDE DEF Bad
  <2>1. Bad \in SUBSET Nat
    BY DEF Bad
  <2> QED BY <1>1, <1>2, <2>1, NoneFails
<1> QED BY <1>3

(* MembersIn keeps exactly the members that are in the set.                *)
LEMMA MembersInIs ==
    ASSUME NEW A, NEW s \in Seq(A), NEW S
    PROVE  MembersIn(s, S) \in Seq(A) /\ ToSet(MembersIn(s, S)) = ToSet(s) \cap S
<1> DEFINE P(f) == f = [i \in 0 .. Len(s) |-> IF i = 0 THEN <<>>
                             ELSE IF s[i] \in S THEN Append(f[i - 1], s[i]) ELSE f[i - 1]]
           kept == CHOOSE f : P(f)
<1>0. Len(s) \in Nat /\ DOMAIN s = 1 .. Len(s)
  OBVIOUS
<1>1. Gathers(kept, Len(s), s, S)
  <2>1. PICK f : Gathers(f, Len(s), s, S)
    BY <1>0, GathersSome
  <2>2. P(f)
    BY <2>1 DEF Gathers
  <2>3. P(kept)
    <3> HIDE DEF P
    <3> QED BY <2>2
  <2> HIDE DEF kept
  <2> QED BY <2>3 DEF Gathers
<1>2. MembersIn(s, S) = kept[Len(s)]
  BY DEF MembersIn
<1> HIDE DEF kept, P
<1> DEFINE Right(i) == kept[i] \in Seq(A) /\ ToSet(kept[i]) = {s[j] : j \in 1 .. i} \cap S
           Bad == {i \in Nat : i <= Len(s) /\ ~Right(i)}
<1>3. 0 \notin Bad
  <2>1. kept[0] = <<>>
    BY <1>0, <1>1 DEF Gathers
  <2>2. ToSet(<<>>) = {}
    BY DEF ToSet
  <2>3. {s[j] : j \in 1 .. 0} = {} /\ <<>> \in Seq(A)
    OBVIOUS
  <2> QED BY <2>1, <2>2, <2>3
<1>4. ASSUME NEW k \in Nat, k \notin Bad PROVE k + 1 \notin Bad
  <2> SUFFICES ASSUME k + 1 <= Len(s) PROVE Right(k + 1)
    OBVIOUS
  <2>1. k + 1 \in 0 .. Len(s) /\ k + 1 # 0 /\ (k + 1) - 1 = k /\ k + 1 \in 1 .. Len(s)
    BY <1>0
  <2>2. kept[k + 1] = IF s[k + 1] \in S THEN Append(kept[k], s[k + 1]) ELSE kept[k]
    BY <1>1, <2>1, Zenon DEF Gathers
  <2>3. Right(k)
    BY <1>0, <1>4
  <2>4. s[k + 1] \in A
    BY <2>1
  <2>5. {s[j] : j \in 1 .. k + 1} = {s[j] : j \in 1 .. k} \cup {s[k + 1]}
    <3>1. 1 .. k + 1 = (1 .. k) \cup {k + 1}
      OBVIOUS
    <3> QED BY <3>1
  <2>6. CASE s[k + 1] \in S
    <3>1. PICK t \in Seq(A) : t = kept[k]
      BY <2>3
    <3>2. /\ Append(t, s[k + 1]) \in Seq(A) /\ Len(Append(t, s[k + 1])) = Len(t) + 1
          /\ \A i \in 1 .. Len(t) : Append(t, s[k + 1])[i] = t[i]
          /\ Append(t, s[k + 1])[Len(t) + 1] = s[k + 1]
      BY <2>4, AppendProperties
    <3>3. ToSet(Append(t, s[k + 1])) = ToSet(t) \cup {s[k + 1]}
      <4>1. DOMAIN t = 1 .. Len(t) /\ Len(t) \in Nat /\ DOMAIN Append(t, s[k + 1]) = (1 .. Len(t)) \cup {Len(t) + 1}
        BY <3>2
      <4> QED BY <3>2, <4>1 DEF ToSet
    <3> QED BY <2>2, <2>3, <2>5, <2>6, <3>1, <3>2, <3>3
  <2>7. CASE s[k + 1] \notin S
    BY <2>2, <2>3, <2>5, <2>7
  <2> QED BY <2>6, <2>7
<1>5. Bad = {}
  <2> HIDE DEF Bad
  <2>1. Bad \in SUBSET Nat
    BY DEF Bad
  <2> QED BY <1>3, <1>4, <2>1, NoneFails
<1>6. Right(Len(s))
  <2>1. Len(s) <= Len(s)
    BY <1>0
  <2>2. Len(s) \notin Bad
    <3> HIDE DEF Bad
    <3> QED BY <1>5
  <2> HIDE DEF Right
  <2> QED BY <1>0, <2>1, <2>2
<1> QED BY <1>0, <1>2, <1>6 DEF ToSet

(* Erasing the first occurrence moves what is behind it up by one.         *)
LEMMA WithoutIs ==
    ASSUME NEW A, NEW s \in Seq(A), NEW u
    PROVE  /\ Without(s, u) \in Seq(A) /\ ToSet(Without(s, u)) \subseteq ToSet(s)
           /\ u \notin ToSet(s) => Without(s, u) = s
           /\ u \in ToSet(s) => Len(Without(s, u)) = Len(s) - 1
           /\ IsInjective(s) => IsInjective(Without(s, u)) /\ u \notin ToSet(Without(s, u))
           /\ \A j \in 1 .. Len(s) : s[j] # u =>
                 \E i \in 1 .. j : i <= Len(Without(s, u)) /\ Without(s, u)[i] = s[j]
<1>0. Len(s) \in Nat /\ DOMAIN s = 1 .. Len(s) /\ \A i \in 1 .. Len(s) : s[i] \in A
  OBVIOUS
<1>1. CASE u \notin ToSet(s)
  <2>1. ~ \E i \in 1 .. Len(s) : s[i] = u
    BY <1>0, <1>1 DEF ToSet
  <2>2. Without(s, u) = s
    BY <2>1 DEF Without, RemoveFirst
  <2>3. \A j \in 1 .. Len(s) : j \in 1 .. j /\ j <= Len(s)
    BY <1>0
  <2> QED BY <1>1, <2>2, <2>3
<1>2. CASE u \in ToSet(s)
  <2> DEFINE I == {i \in 1 .. Len(s) : s[i] = u}
             k == Min(I)
  <2>1. I # {} /\ \E i \in 1 .. Len(s) : s[i] = u
    BY <1>0, <1>2 DEF ToSet
  <2>2. k \in I
    <3>1. PICK m \in I : \A n \in I : m <= n
      <4>1. I \in SUBSET Nat
        OBVIOUS
      <4> HIDE DEF I
      <4> QED BY <2>1, <4>1, LeastNumber
    <3> HIDE DEF I
    <3> QED BY <3>1, Zenon DEF Min
  <2>3. SelectInSeq(s, LAMBDA v : v = u) = k
    BY <2>1 DEF SelectInSeq
  <2>4. Without(s, u) = SubSeq(s, 1, k - 1) \o SubSeq(s, k + 1, Len(s))
    <3> HIDE DEF k, I
    <3> QED BY <2>1, <2>3 DEF Without, RemoveFirst, RemoveAt
  <2>5. PICK m \in 1 .. Len(s) : m = k /\ s[m] = u
    BY <2>2
  <2> HIDE DEF k, I
  <2> DEFINE a == SubSeq(s, 1, m - 1)
             b == SubSeq(s, m + 1, Len(s))
             w == a \o b
  <2>6. Without(s, u) = w
    BY <2>4, <2>5
  <2>7. a \in Seq(A) /\ Len(a) = m - 1 /\ \A i \in 1 .. m - 1 : a[i] = s[i]
    <3>1. 1 \in Int /\ m - 1 \in Int /\ \A i \in 1 .. m - 1 : s[i] \in A
      BY <1>0
    <3>2. /\ a \in Seq(A) /\ Len(a) = IF 1 <= m - 1 THEN m - 1 - 1 + 1 ELSE 0
          /\ \A i \in 1 .. m - 1 - 1 + 1 : a[i] = s[1 + i - 1]
      BY <3>1, SubSeqProperties
    <3>3. m - 1 - 1 + 1 = m - 1 /\ \A i \in 1 .. m - 1 : 1 + i - 1 = i
      BY <1>0
    <3> HIDE DEF a
    <3> QED BY <1>0, <3>2, <3>3
  <2>8. b \in Seq(A) /\ Len(b) = Len(s) - m /\ \A i \in 1 .. Len(s) - m : b[i] = s[m + i]
    <3>1. m + 1 \in Int /\ Len(s) \in Int /\ \A i \in m + 1 .. Len(s) : s[i] \in A
      BY <1>0
    <3>2. /\ b \in Seq(A) /\ Len(b) = IF m + 1 <= Len(s) THEN Len(s) - (m + 1) + 1 ELSE 0
          /\ \A i \in 1 .. Len(s) - (m + 1) + 1 : b[i] = s[m + 1 + i - 1]
      BY <3>1, SubSeqProperties
    <3>3. Len(s) - (m + 1) + 1 = Len(s) - m /\ \A i \in 1 .. Len(s) - m : m + 1 + i - 1 = m + i
      BY <1>0
    <3> HIDE DEF b
    <3>4. Len(b) = Len(s) - m
      <4>1. CASE m + 1 <= Len(s)
        BY <3>2, <3>3, <4>1
      <4>2. CASE ~(m + 1 <= Len(s))
        <5>1. PICK n \in Nat : n = Len(s)
          BY <1>0
        <5>2. m \in 1 .. n /\ ~(m + 1 <= n)
          BY <4>2, <5>1
        <5>3. n - m = 0
          BY <5>2
        <5> QED BY <3>2, <4>2, <5>1, <5>3
      <4> QED BY <4>1, <4>2
    <3>5. ASSUME NEW i \in 1 .. Len(s) - m PROVE b[i] = s[m + i]
      BY <3>2, <3>3
    <3> QED BY <3>2, <3>4, <3>5
  <2> HIDE DEF a, b
  <2>9. /\ w \in Seq(A) /\ Len(w) = Len(s) - 1
        /\ \A i \in 1 .. Len(s) - 1 : w[i] = IF i < m THEN s[i] ELSE s[i + 1]
    <3>1. /\ w \in Seq(A) /\ Len(w) = Len(a) + Len(b)
          /\ \A i \in 1 .. Len(a) + Len(b) : w[i] = IF i <= Len(a) THEN a[i] ELSE b[i - Len(a)]
      BY <2>7, <2>8, ConcatProperties
    <3>2. Len(a) + Len(b) = Len(s) - 1
      BY <1>0, <2>7, <2>8
    <3>3. ASSUME NEW i \in 1 .. Len(s) - 1
          PROVE  w[i] = IF i < m THEN s[i] ELSE s[i + 1]
      <4>1. CASE i < m
        <5>1. i <= Len(a) /\ i \in 1 .. m - 1
          BY <1>0, <2>7, <4>1
        <5> QED BY <2>7, <3>1, <3>2, <4>1, <5>1
      <4>2. CASE ~(i < m)
        <5>1. ~(i <= Len(a)) /\ i - Len(a) \in 1 .. Len(s) - m /\ m + (i - Len(a)) = i + 1
          BY <1>0, <2>7, <4>2
        <5> QED BY <2>8, <3>1, <3>2, <4>2, <5>1
      <4> QED BY <4>1, <4>2
    <3> HIDE DEF w
    <3> QED BY <3>1, <3>2, <3>3
  <2> HIDE DEF w
  <2>10. DOMAIN w = 1 .. Len(s) - 1
    BY <2>9
  <2>11. ASSUME NEW i \in 1 .. Len(s) - 1
         PROVE  \E j \in 1 .. Len(s) : j # m /\ w[i] = s[j] /\ j = IF i < m THEN i ELSE i + 1
    <3>1. CASE i < m
      <4>1. i \in 1 .. Len(s) /\ i # m
        BY <1>0, <3>1
      <4> QED BY <2>9, <3>1, <4>1
    <3>2. CASE ~(i < m)
      <4>1. i + 1 \in 1 .. Len(s) /\ i + 1 # m
        BY <1>0, <3>2
      <4> QED BY <2>9, <3>2, <4>1
    <3> QED BY <3>1, <3>2
  <2>12. ToSet(w) \subseteq ToSet(s)
    BY <1>0, <2>10, <2>11 DEF ToSet
  <2>13. ASSUME IsInjective(s) PROVE IsInjective(w) /\ u \notin ToSet(w)
    <3>1. ASSUME NEW i \in 1 .. Len(s) - 1, NEW j \in 1 .. Len(s) - 1, w[i] = w[j] PROVE i = j
      <4>1. PICK x \in 1 .. Len(s) : w[i] = s[x] /\ x = IF i < m THEN i ELSE i + 1
        BY <2>11
      <4>2. PICK y \in 1 .. Len(s) : w[j] = s[y] /\ y = IF j < m THEN j ELSE j + 1
        BY <2>11
      <4>3. x = y
        BY <1>0, <2>13, <3>1, <4>1, <4>2 DEF IsInjective
      <4> QED BY <1>0, <4>1, <4>2, <4>3
    <3>2. \A i \in 1 .. Len(s) - 1 : w[i] # u
      BY <1>0, <2>5, <2>11, <2>13 DEF IsInjective
    <3> QED BY <2>10, <3>1, <3>2 DEF IsInjective, ToSet
  <2>14. ASSUME NEW j \in 1 .. Len(s), s[j] # u
         PROVE  \E i \in 1 .. j : i <= Len(w) /\ w[i] = s[j]
    <3>1. CASE j < m
      <4>1. j \in 1 .. Len(s) - 1
        BY <1>0, <3>1
      <4> QED BY <2>9, <3>1, <4>1
    <3>2. CASE j > m
      <4>1. j - 1 \in 1 .. Len(s) - 1 /\ ~(j - 1 < m) /\ (j - 1) + 1 = j /\ j - 1 \in 1 .. j
        BY <1>0, <3>2
      <4>2. w[j - 1] = s[j]
        BY <2>9, <4>1
      <4> QED BY <2>9, <4>1, <4>2
    <3>3. j # m
      BY <2>5, <2>14
    <3> QED BY <1>0, <3>1, <3>2, <3>3
  <2> QED BY <1>2, <2>6, <2>9, <2>12, <2>13, <2>14
<1> QED BY <1>1, <1>2

(* The first members of a sequence.                                        *)
LEMMA FirstOf ==
    ASSUME NEW A, NEW s \in Seq(A), NEW n \in Nat
    PROVE  /\ SubSeq(s, 1, Min({n, Len(s)})) \in Seq(A)
           /\ Len(SubSeq(s, 1, Min({n, Len(s)}))) = IF n <= Len(s) THEN n ELSE Len(s)
           /\ \A i \in 1 .. Len(s) : i <= n => SubSeq(s, 1, Min({n, Len(s)}))[i] = s[i]
<1>0. Len(s) \in Nat /\ \A i \in 1 .. Len(s) : s[i] \in A
  OBVIOUS
<1>1. Min({n, Len(s)}) = IF n <= Len(s) THEN n ELSE Len(s)
  BY <1>0 DEF Min
<1>2. PICK m \in 0 .. Len(s) : m = Min({n, Len(s)}) /\ m = IF n <= Len(s) THEN n ELSE Len(s)
  BY <1>0, <1>1
<1>3. /\ SubSeq(s, 1, m) \in Seq(A) /\ Len(SubSeq(s, 1, m)) = IF 1 <= m THEN m - 1 + 1 ELSE 0
      /\ \A i \in 1 .. m - 1 + 1 : SubSeq(s, 1, m)[i] = s[1 + i - 1]
  <2>1. \A i \in 1 .. m : s[i] \in A
    BY <1>0
  <2> QED BY <2>1, SubSeqProperties
<1>4. m - 1 + 1 = m /\ \A i \in 1 .. m : 1 + i - 1 = i
  OBVIOUS
<1>5. \A i \in 1 .. Len(s) : i <= n => i \in 1 .. m
  BY <1>0, <1>2
<1>6. Len(SubSeq(s, 1, m)) = m
  <2>1. CASE 1 <= m
    BY <1>3, <1>4, <2>1
  <2>2. CASE ~(1 <= m)
    BY <1>3, <2>2
  <2> QED BY <2>1, <2>2
<1>7. \A i \in 1 .. Len(s) : i <= n => SubSeq(s, 1, m)[i] = s[i]
  BY <1>3, <1>4, <1>5
<1> QED BY <1>2, <1>3, <1>6, <1>7

-----------------------------------------------------------------------------
(* 6. The recents index.  What a mutator in progress has still to write:   *)
(* first the session's file, then the index and its size, then the last    *)
(* session, then the files the index no longer names and the open windows. *)
Ends(t, F) ==
    \A i \in 1 .. Len(t) :
        \/ t[i].do = "unlink" /\ t[i].arg \in Uuids \ ToSet(F)
        \/ i = Len(t) /\ t[i].do = "open" /\ t[i].arg \in Seq(Uuids)

NamesLast(t, F) ==
    \/ Ends(t, F) /\ (crashes = 0 => last = Newest(F))
    \/ t # <<>> /\ Head(t) = [do |-> "last", arg |-> Newest(F)] /\ Ends(Tail(t), F)

NamesSize(t, F) == t # <<>> /\ Head(t) = [do |-> "size", arg |-> Len(F)] /\ NamesLast(Tail(t), F)

WritesIndex(t, F) ==
    \/ ReadIndex = F /\ NamesLast(t, F)
    \/ slots = F /\ NamesSize(t, F)
    \/ t # <<>> /\ Head(t) = [do |-> "slots", arg |-> F] /\ NamesSize(Tail(t), F)

(* F can become the index, with the files there are and those to be saved. *)
Fits(F, saved) ==
    /\ F \in Seq(Uuids) /\ IsInjective(F) /\ Len(F) <= MaxEntries /\ Len(F) <= size + 1
    /\ ToSet(F) \subseteq jsons \cup vanished \cup saved

(* The sessions K have their files and are among the newest of F.          *)
Keeps(F, K, saved) ==
    \A x \in ToSet(K) : x \in jsons \cup saved /\ \E j \in 1 .. Len(K) : j <= Len(F) /\ F[j] = x

Saves(t, F, K, u) ==
    /\ t # <<>> /\ Head(t) = [do |-> "save", arg |-> u]
    /\ Fits(F, {u}) /\ Keeps(F, K, {u}) /\ WritesIndex(Tail(t), F)
    /\ crashes = 0 => last = Newest(ReadIndex)

Leads(t, F, K) ==
    \/ Fits(F, {}) /\ Keeps(F, K, {}) /\ WritesIndex(t, F)
    \/ \E u \in Uuids : Saves(t, F, K, u)

Planned(t, K) == \E F \in Seq(Uuids) : Leads(t, F, K)

(* What a mutator writes.                                                  *)
Kinds == {"save", "slots", "size", "last", "unlink", "open"}
Writes == [do : Kinds, arg : Uuids \cup {None} \cup Nat \cup Seq(Uuids)]

DiskOK ==
    /\ slots \in Seq(Uuids) /\ IsInjective(slots) /\ size \in 0 .. MaxEntries /\ Len(slots) <= size + 1
    /\ last \in Uuids \cup {None} /\ jsons \subseteq Uuids /\ atQuit \in Seq(Uuids)
    /\ ToSet(ReadIndex) \subseteq jsons \cup vanished
    /\ crashes \in Nat

LockOK ==
    /\ recentsLock \in Instances \cup {None, Dead}
    /\ todo \in [Instances -> Seq(Writes)]
    /\ \A p \in Instances : todo[p] # <<>> <=> recentsLock = p
    /\ recentsLock = Dead => crashes > 0
    /\ recentsLock = None /\ crashes = 0 => last = Newest(ReadIndex)
    /\ \A p \in Instances : todo[p] # <<>> => Planned(todo[p], <<>>)

HistoryOK == DiskOK /\ LockOK

(* The rest of a mutator's writes after the first one.                     *)
LEMMA OneWritten ==
    ASSUME NEW A, NEW t \in Seq(A), t # <<>>
    PROVE  /\ Tail(t) \in Seq(A) /\ Len(t) \in Nat \ {0} /\ Len(Tail(t)) = Len(t) - 1 /\ Head(t) = t[1]
           /\ \A i \in 1 .. Len(t) - 1 : i + 1 \in 1 .. Len(t) /\ Tail(t)[i] = t[i + 1]
           /\ Len(t) = 1 <=> Tail(t) = <<>>
<1>1. /\ Tail(t) \in Seq(A) /\ Len(t) \in Nat \ {0} /\ Len(Tail(t)) = Len(t) - 1
      /\ \A i \in 1 .. Len(Tail(t)) : Tail(t)[i] = t[i + 1]
  BY HeadTailProperties, EmptySeq
<1>2. Len(t) = 1 <=> Tail(t) = <<>>
  BY <1>1, EmptySeq
<1> QED BY <1>1, <1>2

LEMMA EndsGoOn ==
    ASSUME NEW t \in Seq(Writes), t # <<>>, NEW F, Ends(t, F)
    PROVE  /\ Ends(Tail(t), F)
           /\ \/ Head(t).do = "unlink" /\ Head(t).arg \in Uuids \ ToSet(F)
              \/ Head(t).do = "open" /\ Head(t).arg \in Seq(Uuids)
<1>1. /\ Tail(t) \in Seq(Writes) /\ Len(t) \in Nat \ {0} /\ Len(Tail(t)) = Len(t) - 1 /\ Head(t) = t[1]
      /\ \A i \in 1 .. Len(t) - 1 : i + 1 \in 1 .. Len(t) /\ Tail(t)[i] = t[i + 1]
  BY OneWritten
<1>2. ASSUME NEW i \in 1 .. Len(Tail(t))
      PROVE  \/ Tail(t)[i].do = "unlink" /\ Tail(t)[i].arg \in Uuids \ ToSet(F)
             \/ i = Len(Tail(t)) /\ Tail(t)[i].do = "open" /\ Tail(t)[i].arg \in Seq(Uuids)
  <2>1. i \in 1 .. Len(t) - 1 /\ (i + 1 = Len(t) => i = Len(Tail(t)))
    <3>1. PICK n \in Nat : n = Len(t) /\ Len(Tail(t)) = n - 1
      BY <1>1
    <3>2. i \in 1 .. n - 1
      BY <3>1
    <3> QED BY <3>1, <3>2
  <2> QED BY <1>1, <2>1 DEF Ends
<1>3. 1 \in 1 .. Len(t)
  BY <1>1
<1> QED BY <1>1, <1>2, <1>3 DEF Ends

(* The index that is read.                                                 *)
LEMMA IndexRead ==
    ASSUME DiskOK
    PROVE  /\ ReadIndex \in Seq(Uuids) /\ IsInjective(ReadIndex)
           /\ Len(ReadIndex) = (IF size <= Len(slots) THEN size ELSE Len(slots))
           /\ \A i \in 1 .. Len(ReadIndex) : i \in 1 .. Len(slots) /\ ReadIndex[i] = slots[i]
           /\ size = Len(slots) => ReadIndex = slots
<1>0. slots \in Seq(Uuids) /\ Len(slots) \in Nat /\ size \in Nat /\ DOMAIN slots = 1 .. Len(slots)
  BY HistoryAssumption DEF DiskOK
<1>1. /\ ReadIndex \in Seq(Uuids) /\ Len(ReadIndex) = (IF size <= Len(slots) THEN size ELSE Len(slots))
      /\ \A i \in 1 .. Len(slots) : i <= size => ReadIndex[i] = slots[i]
  BY <1>0, FirstOf DEF ReadIndex
<1>2. \A i \in 1 .. Len(ReadIndex) : i \in 1 .. Len(slots) /\ i <= size
  BY <1>0, <1>1
<1>3. DOMAIN ReadIndex = 1 .. Len(ReadIndex)
  BY <1>1
<1>4. IsInjective(ReadIndex)
  BY <1>0, <1>1, <1>2, <1>3 DEF DiskOK, IsInjective
<1>5. ASSUME size = Len(slots) PROVE ReadIndex = slots
  <2>1. Len(ReadIndex) = Len(slots) /\ \A i \in 1 .. Len(slots) : ReadIndex[i] = slots[i]
    BY <1>0, <1>1, <1>5
  <2> QED BY <1>0, <1>1, <2>1, SeqEqual
<1> QED BY <1>1, <1>2, <1>4, <1>5

LEMMA PartOf ==
    ASSUME NEW A, NEW s \in Seq(A), NEW n \in Nat
    PROVE  /\ ToSet(SubSeq(s, 1, Min({n, Len(s)}))) \subseteq ToSet(s)
           /\ n = Len(s) => SubSeq(s, 1, Min({n, Len(s)})) = s
<1> DEFINE r == SubSeq(s, 1, Min({n, Len(s)}))
<1>1. /\ r \in Seq(A) /\ Len(r) = (IF n <= Len(s) THEN n ELSE Len(s)) /\ Len(s) \in Nat
      /\ \A i \in 1 .. Len(s) : i <= n => r[i] = s[i]
  BY FirstOf
<1> HIDE DEF r
<1>2. \A i \in 1 .. Len(r) : i \in 1 .. Len(s) /\ i <= n
  BY <1>1
<1>3. ToSet(r) \subseteq ToSet(s)
  BY <1>1, <1>2, MembersOfSeq
<1>4. ASSUME n = Len(s) PROVE r = s
  <2>1. Len(r) = Len(s) /\ \A i \in 1 .. Len(r) : r[i] = s[i]
    BY <1>1, <1>4
  <2> QED BY <1>1, <2>1, SeqEqual
<1> QED BY <1>3, <1>4 DEF r

(* Each write leads on.                                                    *)
LEMMA WriteGoesOn ==
    ASSUME NEW p \in Instances, NEW K \in Seq(Uuids), DiskOK, WriteStep(p),
           todo \in [Instances -> Seq(Writes)], Planned(todo[p], K)
    PROVE  DiskOK' /\ Planned(todo[p], K)'
<1> DEFINE t == todo[p]
           w == Head(t)
<1>1. PICK F \in Seq(Uuids) : Leads(t, F, K)
  BY DEF Planned
<1>2. t \in Seq(Writes) /\ t # <<>> /\ todo'[p] = Tail(t)
  BY DEF WriteStep
<1>3. /\ slots' = IF w.do = "slots" THEN w.arg ELSE slots
      /\ size' = IF w.do = "size" THEN w.arg ELSE size
      /\ last' = IF w.do = "last" THEN w.arg ELSE last
      /\ jsons' = CASE w.do = "save" -> jsons \union {w.arg}
                    [] w.do = "unlink" -> jsons \ {w.arg}
                    [] OTHER -> jsons
      /\ atQuit' = IF w.do = "open" THEN w.arg ELSE atQuit
      /\ UNCHANGED <<crashes, vanished>>
  BY DEF WriteStep
<1>4. /\ ReadIndex \in Seq(Uuids) /\ IsInjective(ReadIndex)
  BY IndexRead
<1>5. SUFFICES DiskOK' /\ Leads(t, F, K)'
  <2>1. Leads(t, F, K)' => Planned(t, K)'
    BY DEF Planned
  <2> QED BY <2>1
<1>6. F \in Seq(Uuids) /\ Len(F) \in Nat /\ DOMAIN F = 1 .. Len(F) /\ ToSet(F) \subseteq Uuids
  BY MembersOfSeq
<1>7. Newest(F) \in Uuids \cup {None}
  <2>1. F # <<>> => Head(F) \in Uuids
    OBVIOUS
  <2> QED BY <2>1 DEF Newest
<1>u. t' = Tail(t) /\ Tail(t) \in Seq(Writes)
  BY <1>2, OneWritten
<1> HIDE DEF t, w
<1>8. CASE Fits(F, {}) /\ Keeps(F, K, {}) /\ ReadIndex = F /\ NamesLast(t, F)
  <2>1. ASSUME slots' = slots, size' = size, atQuit' \in Seq(Uuids), last' \in Uuids \cup {None},
               jsons' \subseteq jsons, jsons \subseteq jsons' \cup (Uuids \ ToSet(F)), NamesLast(t, F)'
        PROVE  DiskOK' /\ Leads(t, F, K)'
    <3>1. ReadIndex' = F
      BY <1>8, <2>1 DEF ReadIndex
    <3>2. ToSet(F) \subseteq jsons' \cup vanished'
      BY <1>3, <1>8, <2>1 DEF Fits
    <3>3. Fits(F, {})'
      BY <1>3, <1>8, <2>1, <3>2 DEF Fits
    <3>4. Keeps(F, K, {})'
      <4>1. ASSUME NEW x \in ToSet(K), NEW j \in 1 .. Len(K), j <= Len(F), F[j] = x PROVE x \in ToSet(F)
        <5>1. Len(K) \in Nat
          OBVIOUS
        <5>2. j \in 1 .. Len(F)
          BY <1>6, <4>1, <5>1
        <5> QED BY <4>1, <5>2, MembersOfSeq
      <4> QED BY <1>8, <2>1, <4>1 DEF Keeps
    <3>5. DiskOK'
      BY <1>3, <1>8, <2>1, <3>1, <3>2 DEF DiskOK
    <3> QED BY <2>1, <3>1, <3>3, <3>4, <3>5 DEF Leads, WritesIndex
  <2>2. CASE Ends(t, F) /\ (crashes = 0 => last = Newest(F))
    <3>1. /\ Ends(Tail(t), F)
          /\ \/ w.do = "unlink" /\ w.arg \in Uuids \ ToSet(F)
             \/ w.do = "open" /\ w.arg \in Seq(Uuids)
      BY <1>2, <2>2, EndsGoOn DEF w, t
    <3>2. NamesLast(t, F)'
      <4>1. last' = last /\ crashes' = crashes
        BY <1>3, <3>1
      <4>2. Ends(t, F)'
        BY <1>u, <3>1 DEF Ends
      <4>3. (crashes = 0 => last = Newest(F))'
        BY <2>2, <4>1 DEF Newest
      <4> QED BY <4>2, <4>3 DEF NamesLast
    <3>3. slots' = slots /\ size' = size /\ last' \in Uuids \cup {None} /\ atQuit' \in Seq(Uuids)
      BY <1>3, <3>1 DEF DiskOK
    <3>4. jsons' \subseteq jsons /\ jsons \subseteq jsons' \cup (Uuids \ ToSet(F))
      BY <1>3, <3>1
    <3> QED BY <2>1, <3>2, <3>3, <3>4
  <2>3. CASE w = [do |-> "last", arg |-> Newest(F)] /\ Ends(Tail(t), F)
    <3>1. w.do = "last" /\ w.arg = Newest(F)
      BY <2>3
    <3>2. slots' = slots /\ size' = size /\ last' = Newest(F) /\ jsons' = jsons /\ atQuit' = atQuit
      BY <1>3, <3>1
    <3>3. NamesLast(t, F)'
      BY <1>u, <2>3, <3>2 DEF NamesLast, Ends, Newest
    <3> QED BY <1>7, <2>1, <3>2, <3>3 DEF DiskOK
  <2> QED BY <1>8, <2>2, <2>3 DEF NamesLast, w
<1>9. CASE Fits(F, {}) /\ Keeps(F, K, {}) /\ slots = F /\ NamesSize(t, F)
  <2>1. w.do = "size" /\ w.arg = Len(F) /\ NamesLast(Tail(t), F)
    BY <1>9 DEF NamesSize, w
  <2>2. /\ slots' = slots /\ size' = Len(F) /\ last' = last /\ jsons' = jsons /\ atQuit' = atQuit
        /\ crashes' = crashes /\ vanished' = vanished
    BY <1>3, <2>1
  <2>3. ReadIndex' = F
    <3>1. SubSeq(slots', 1, Min({size', Len(slots')})) = F
      BY <1>6, <1>9, <2>2, PartOf
    <3> QED BY <3>1 DEF ReadIndex
  <2>4. Len(F) \in 0 .. MaxEntries
    BY <1>6, <1>9 DEF Fits
  <2>5. DiskOK'
    BY <1>6, <1>9, <2>2, <2>3, <2>4 DEF DiskOK, Fits
  <2>6. NamesLast(t, F)'
    BY <1>u, <2>1, <2>2 DEF NamesLast, Ends, Newest
  <2>7. Fits(F, {})' /\ Keeps(F, K, {})'
    BY <1>6, <1>9, <2>2 DEF Fits, Keeps
  <2> QED BY <2>3, <2>5, <2>6, <2>7 DEF Leads, WritesIndex
<1>10. CASE Fits(F, {}) /\ Keeps(F, K, {}) /\ w = [do |-> "slots", arg |-> F] /\ NamesSize(Tail(t), F)
  <2>1. w.do = "slots" /\ w.arg = F
    BY <1>10
  <2>2. /\ slots' = F /\ size' = size /\ last' = last /\ jsons' = jsons /\ atQuit' = atQuit
        /\ crashes' = crashes /\ vanished' = vanished
    BY <1>3, <2>1
  <2>3. ToSet(ReadIndex') \subseteq jsons' \cup vanished'
    <3>1. size \in Nat
      BY HistoryAssumption DEF DiskOK
    <3>2. ToSet(SubSeq(F, 1, Min({size, Len(F)}))) \subseteq ToSet(F)
      BY <3>1, PartOf
    <3> QED BY <1>10, <2>2, <3>2 DEF ReadIndex, Fits
  <2>4. DiskOK'
    BY <1>6, <1>10, <2>2, <2>3 DEF DiskOK, Fits
  <2>5. NamesSize(t, F)'
    BY <1>u, <1>10, <2>2 DEF NamesSize, NamesLast, Ends, Newest
  <2>6. Fits(F, {})' /\ Keeps(F, K, {})'
    BY <1>6, <1>10, <2>2 DEF Fits, Keeps
  <2> QED BY <2>2, <2>4, <2>5, <2>6 DEF Leads, WritesIndex
<1>11. CASE \E u \in Uuids : Saves(t, F, K, u)
  <2>1. PICK u \in Uuids : Saves(t, F, K, u)
    BY <1>11
  <2>2. w.do = "save" /\ w.arg = u /\ WritesIndex(Tail(t), F) /\ Fits(F, {u}) /\ Keeps(F, K, {u})
    BY <2>1 DEF Saves, w
  <2>3. /\ slots' = slots /\ size' = size /\ last' = last /\ jsons' = jsons \cup {u} /\ atQuit' = atQuit
        /\ crashes' = crashes /\ vanished' = vanished
    BY <1>3, <2>2
  <2>4. ReadIndex' = ReadIndex
    BY <2>3 DEF ReadIndex
  <2>5. DiskOK'
    BY <2>3, <2>4 DEF DiskOK
  <2>6. WritesIndex(t, F)'
    <3>1. PICK r \in Seq(Writes) : r = Tail(t) /\ t' = r /\ WritesIndex(r, F)
      BY <1>u, <2>2
    <3>2. CASE ReadIndex = F /\ NamesLast(r, F)
      <4>1. NamesLast(t, F)'
        BY <2>3, <3>1, <3>2 DEF NamesLast, Ends, Newest
      <4> QED BY <2>4, <3>2, <4>1 DEF WritesIndex
    <3>3. CASE slots = F /\ NamesSize(r, F)
      <4>1. NamesSize(t, F)'
        BY <2>3, <3>1, <3>3 DEF NamesSize, NamesLast, Ends, Newest
      <4> QED BY <2>3, <3>3, <4>1 DEF WritesIndex
    <3>4. CASE r # <<>> /\ Head(r) = [do |-> "slots", arg |-> F] /\ NamesSize(Tail(r), F)
      <4>1. NamesSize(Tail(t), F)'
        BY <2>3, <3>1, <3>4 DEF NamesSize, NamesLast, Ends, Newest
      <4> QED BY <3>1, <3>4, <4>1 DEF WritesIndex
    <3> QED BY <3>1, <3>2, <3>3, <3>4 DEF WritesIndex
  <2>7. Fits(F, {})' /\ Keeps(F, K, {})'
    BY <2>2, <2>3 DEF Fits, Keeps
  <2> QED BY <2>5, <2>6, <2>7 DEF Leads
<1> QED BY <1>1, <1>8, <1>9, <1>10, <1>11 DEF Leads, WritesIndex, w

-----------------------------------------------------------------------------
(* What the mutators plan.                                                 *)
Opens(op) == op = <<>> \/ \E us \in Seq(Uuids) : op = WriteOpen(us)
AtRest == crashes = 0 => last = Newest(ReadIndex)

LEMMA AWrite ==
    /\ \A u \in Uuids : [do |-> "save", arg |-> u] \in Writes /\ [do |-> "unlink", arg |-> u] \in Writes
    /\ \A u \in Uuids \cup {None} : [do |-> "last", arg |-> u] \in Writes
    /\ \A us \in Seq(Uuids) : [do |-> "slots", arg |-> us] \in Writes /\ [do |-> "open", arg |-> us] \in Writes
    /\ \A n \in Nat : [do |-> "size", arg |-> n] \in Writes
<1> DEFINE Args == Uuids \cup {None} \cup Nat \cup Seq(Uuids)
<1>1. /\ \A u \in Uuids : u \in Args
      /\ \A u \in Uuids \cup {None} : u \in Args
      /\ \A us \in Seq(Uuids) : us \in Args
      /\ \A n \in Nat : n \in Args
  OBVIOUS
<1> HIDE DEF Args
<1>2. \A x \in Args : /\ [do |-> "save", arg |-> x] \in [do : Kinds, arg : Args]
                      /\ [do |-> "unlink", arg |-> x] \in [do : Kinds, arg : Args]
                      /\ [do |-> "last", arg |-> x] \in [do : Kinds, arg : Args]
                      /\ [do |-> "slots", arg |-> x] \in [do : Kinds, arg : Args]
                      /\ [do |-> "open", arg |-> x] \in [do : Kinds, arg : Args]
                      /\ [do |-> "size", arg |-> x] \in [do : Kinds, arg : Args]
  BY DEF Kinds
<1>3. Writes = [do : Kinds, arg : Args]
  BY DEF Writes, Args
<1> QED BY <1>1, <1>2, <1>3

LEMMA WriteFirst ==
    ASSUME NEW w \in Writes, NEW r \in Seq(Writes)
    PROVE  /\ <<w>> \o r \in Seq(Writes) /\ <<w>> \o r # <<>>
           /\ Head(<<w>> \o r) = w /\ Tail(<<w>> \o r) = r
<1> DEFINE c == <<w>> \o r
<1>0. Len(r) \in Nat /\ <<w>> \in Seq(Writes) /\ Len(<<w>>) = 1 /\ <<w>>[1] = w
  OBVIOUS
<1>1. /\ c \in Seq(Writes) /\ Len(c) = 1 + Len(r)
      /\ \A i \in 1 .. 1 + Len(r) : c[i] = IF i <= 1 THEN <<w>>[i] ELSE r[i - 1]
  BY <1>0, ConcatProperties
<1>2. c[1] = w /\ \A i \in 1 .. Len(r) : c[i + 1] = r[i]
  <2>1. c[1] = w
    BY <1>0, <1>1
  <2>2. ASSUME NEW i \in 1 .. Len(r) PROVE c[i + 1] = r[i]
    <3>1. i + 1 \in 1 .. 1 + Len(r) /\ ~(i + 1 <= 1) /\ (i + 1) - 1 = i
      BY <1>0
    <3> QED BY <1>1, <3>1
  <2> QED BY <2>1, <2>2
<1> HIDE DEF c
<1>3. c # <<>>
  <2>1. Len(c) # 0
    BY <1>0, <1>1
  <2> QED BY <2>1, EmptySeq
<1>4. Head(c) = w /\ Tail(c) \in Seq(Writes) /\ Len(Tail(c)) = Len(r)
  BY <1>0, <1>1, <1>2, <1>3, OneWritten
<1>5. \A i \in 1 .. Len(Tail(c)) : Tail(c)[i] = r[i]
  BY <1>0, <1>1, <1>2, <1>3, <1>4, OneWritten
<1>6. Tail(c) = r
  BY <1>4, <1>5, SeqEqual
<1> QED BY <1>1, <1>3, <1>4, <1>6 DEF c

LEMMA OpensAre ==
    ASSUME NEW op, Opens(op)
    PROVE  op \in Seq(Writes) /\ Len(op) \in 0 .. 1
           /\ \A i \in 1 .. Len(op) : i = Len(op) /\ op[i].do = "open" /\ op[i].arg \in Seq(Uuids)
<1>1. CASE op = <<>>
  BY <1>1
<1>2. CASE \E us \in Seq(Uuids) : op = WriteOpen(us)
  <2>1. PICK us \in Seq(Uuids) : op = WriteOpen(us)
    BY <1>2
  <2>2. PICK w \in Writes : w = [do |-> "open", arg |-> us]
    BY AWrite
  <2>3. op = <<w>> /\ w.do = "open" /\ w.arg = us
    BY <2>1, <2>2 DEF WriteOpen
  <2> QED BY <2>3
<1> QED BY <1>1, <1>2 DEF Opens

(* Files that go, then the open windows.                                   *)
LEMMA UnlinksEnd ==
    ASSUME NEW us \in Seq(Uuids), NEW op, Opens(op), NEW F, ToSet(us) \cap ToSet(F) = {}
    PROVE  Unlink(us) \o op \in Seq(Writes) /\ Ends(Unlink(us) \o op, F)
<1> DEFINE a == Unlink(us)
           t == a \o op
<1>1. /\ Len(us) \in Nat /\ ToSet(us) \subseteq Uuids
      /\ \A i \in 1 .. Len(us) : us[i] \in ToSet(us) /\ us[i] \in Uuids
  BY MembersOfSeq
<1>2. /\ a \in Seq(Writes) /\ Len(a) = Len(us)
      /\ \A i \in 1 .. Len(us) : a[i].do = "unlink" /\ a[i].arg = us[i]
  <2>1. a = [i \in 1 .. Len(us) |-> [do |-> "unlink", arg |-> us[i]]]
    BY DEF Unlink
  <2>2. \A i \in 1 .. Len(us) : [do |-> "unlink", arg |-> us[i]] \in Writes
    BY <1>1, AWrite
  <2>3. a \in [1 .. Len(us) -> Writes]
    BY <2>1, <2>2
  <2> HIDE DEF a
  <2>4. a \in Seq(Writes) /\ Len(a) = Len(us)
    BY <1>1, <2>3
  <2> QED BY <2>1, <2>4
<1>3. /\ op \in Seq(Writes) /\ Len(op) \in 0 .. 1
      /\ \A i \in 1 .. Len(op) : i = Len(op) /\ op[i].do = "open" /\ op[i].arg \in Seq(Uuids)
  BY OpensAre
<1> HIDE DEF a
<1>4. /\ t \in Seq(Writes) /\ Len(t) = Len(us) + Len(op)
      /\ \A i \in 1 .. Len(us) + Len(op) : t[i] = IF i <= Len(us) THEN a[i] ELSE op[i - Len(us)]
  BY <1>2, <1>3, ConcatProperties
<1> HIDE DEF t
<1>5. ASSUME NEW i \in 1 .. Len(t)
      PROVE  \/ t[i].do = "unlink" /\ t[i].arg \in Uuids \ ToSet(F)
             \/ i = Len(t) /\ t[i].do = "open" /\ t[i].arg \in Seq(Uuids)
  <2>1. CASE i <= Len(us)
    <3>1. i \in 1 .. Len(us)
      BY <1>1, <2>1
    <3>2. t[i] = a[i]
      BY <1>4, <2>1
    <3> QED BY <1>1, <1>2, <3>1, <3>2
  <2>2. CASE ~(i <= Len(us))
    <3>1. i - Len(us) \in 1 .. Len(op) /\ (i - Len(us) = Len(op) => i = Len(t))
      BY <1>1, <1>3, <1>4, <2>2
    <3>2. t[i] = op[i - Len(us)]
      BY <1>4, <2>2
    <3> QED BY <1>3, <3>1, <3>2
  <2> QED BY <2>1, <2>2
<1> QED BY <1>4, <1>5 DEF Ends, a, t

(* The last session, then the rest.                                        *)
LEMMA LastThenEnds ==
    ASSUME NEW F \in Seq(Uuids), NEW r \in Seq(Writes), Ends(r, F)
    PROVE  WriteLastUuid(Newest(F)) \o r \in Seq(Writes) /\ NamesLast(WriteLastUuid(Newest(F)) \o r, F)
<1>1. Newest(F) \in Uuids \cup {None}
  <2>1. F # <<>> => Head(F) \in Uuids
    OBVIOUS
  <2> QED BY <2>1 DEF Newest
<1>2. PICK w \in Writes : w = [do |-> "last", arg |-> Newest(F)]
  BY <1>1, AWrite
<1>3. /\ <<w>> \o r \in Seq(Writes) /\ <<w>> \o r # <<>>
      /\ Head(<<w>> \o r) = w /\ Tail(<<w>> \o r) = r
  BY WriteFirst
<1>4. WriteLastUuid(Newest(F)) = <<w>>
  BY <1>2 DEF WriteLastUuid
<1> QED BY <1>2, <1>3, <1>4 DEF NamesLast

(* The index with its size, then the rest.                                 *)
LEMMA IndexThenLast ==
    ASSUME NEW F \in Seq(Uuids), NEW r \in Seq(Writes), NamesLast(r, F)
    PROVE  WriteIndex(F) \o r \in Seq(Writes) /\ WritesIndex(WriteIndex(F) \o r, F)
<1>1. Len(F) \in Nat
  OBVIOUS
<1>2. PICK v \in Writes : v = [do |-> "slots", arg |-> F]
  BY AWrite
<1>3. PICK w \in Writes : w = [do |-> "size", arg |-> Len(F)]
  BY <1>1, AWrite
<1> DEFINE s == <<w>> \o r
           t == <<v>> \o s
<1>4. s \in Seq(Writes) /\ s # <<>> /\ Head(s) = w /\ Tail(s) = r
  BY WriteFirst
<1> HIDE DEF s
<1>5. t \in Seq(Writes) /\ t # <<>> /\ Head(t) = v /\ Tail(t) = s
  BY <1>4, WriteFirst
<1>6. WriteIndex(F) \o r = t
  <2>1. WriteIndex(F) = <<v, w>> /\ <<v, w>> = <<v>> \o <<w>>
    BY <1>2, <1>3 DEF WriteIndex
  <2>2. (<<v>> \o <<w>>) \o r = <<v>> \o (<<w>> \o r)
    <3>1. <<v>> \in Seq(Writes) /\ <<w>> \in Seq(Writes)
      OBVIOUS
    <3> QED BY <3>1, ConcatAssociative
  <2> QED BY <2>1, <2>2 DEF s
<1> HIDE DEF t
<1> QED BY <1>2, <1>3, <1>4, <1>5, <1>6 DEF WritesIndex, NamesSize

(* A session moved to the front keeps the others, one place on at most.    *)
LEMMA FrontIs ==
    ASSUME NEW s \in Seq(Uuids), IsInjective(s), NEW u \in Uuids
    PROVE  /\ ToFront(s, u) \in Seq(Uuids) /\ IsInjective(ToFront(s, u)) /\ ToSet(ToFront(s, u)) \subseteq ToSet(s) \cup {u}
           /\ Len(ToFront(s, u)) \in 1 .. Len(s) + 1 /\ ToFront(s, u)[1] = u
           /\ u \in ToSet(s) => Len(ToFront(s, u)) = Len(s)
           /\ Newest(ToFront(s, u)) = u
           /\ \A j \in 1 .. Len(s) : s[j] # u =>
                 \E i \in 1 .. j + 1 : i <= Len(ToFront(s, u)) /\ ToFront(s, u)[i] = s[j]
<1> DEFINE b == Without(s, u)
           f == ToFront(s, u)
<1>0. Len(s) \in Nat /\ DOMAIN s = 1 .. Len(s)
  OBVIOUS
<1>1. /\ b \in Seq(Uuids) /\ ToSet(b) \subseteq ToSet(s) /\ IsInjective(b) /\ u \notin ToSet(b)
      /\ u \notin ToSet(s) => b = s
      /\ u \in ToSet(s) => Len(b) = Len(s) - 1
      /\ \A j \in 1 .. Len(s) : s[j] # u => \E i \in 1 .. j : i <= Len(b) /\ b[i] = s[j]
  BY WithoutIs
<1>2. f = <<u>> \o b
  BY DEF ToFront
<1> HIDE DEF b, f
<1>3. /\ Len(b) \in Nat /\ DOMAIN b = 1 .. Len(b) /\ <<u>> \in Seq(Uuids) /\ Len(<<u>>) = 1 /\ <<u>>[1] = u
      /\ \A i \in 1 .. Len(b) : b[i] \in ToSet(b)
  BY <1>1, MembersOfSeq
<1>4. /\ f \in Seq(Uuids) /\ Len(f) = 1 + Len(b)
      /\ \A i \in 1 .. 1 + Len(b) : f[i] = IF i <= 1 THEN <<u>>[i] ELSE b[i - 1]
  BY <1>1, <1>2, <1>3, ConcatProperties
<1>5. f[1] = u /\ \A i \in 1 .. Len(b) : f[i + 1] = b[i]
  <2>1. f[1] = u
    BY <1>3, <1>4
  <2>2. ASSUME NEW i \in 1 .. Len(b) PROVE f[i + 1] = b[i]
    <3>1. i + 1 \in 1 .. 1 + Len(b) /\ ~(i + 1 <= 1) /\ (i + 1) - 1 = i
      BY <1>3
    <3> QED BY <1>4, <3>1
  <2> QED BY <2>1, <2>2
<1>6. DOMAIN f = 1 .. 1 + Len(b)
  BY <1>4
<1>7. ASSUME NEW i \in DOMAIN f
      PROVE  (i = 1 /\ f[i] = u) \/ (i - 1 \in 1 .. Len(b) /\ f[i] = b[i - 1] /\ f[i] \in ToSet(b))
  <2>1. CASE i = 1
    BY <1>5, <2>1
  <2>2. CASE i # 1
    <3>1. i - 1 \in 1 .. Len(b) /\ (i - 1) + 1 = i
      BY <1>3, <1>6, <2>2
    <3> QED BY <1>3, <1>5, <3>1
  <2> QED BY <2>1, <2>2
<1>8. IsInjective(f)
  <2>1. ASSUME NEW i \in DOMAIN f, NEW j \in DOMAIN f, f[i] = f[j] PROVE i = j
    <3>1. CASE i = 1 /\ j = 1
      BY <3>1
    <3>2. CASE i - 1 \in 1 .. Len(b) /\ j - 1 \in 1 .. Len(b) /\ f[i] = b[i - 1] /\ f[j] = b[j - 1]
      <4>1. i - 1 = j - 1
        <5>1. PICK x \in DOMAIN b, y \in DOMAIN b : x = i - 1 /\ y = j - 1
          BY <1>3, <3>2
        <5>2. b[x] = b[y]
          BY <2>1, <3>2, <5>1
        <5>3. x = y
          BY <1>1, <5>2 DEF IsInjective
        <5> QED BY <5>1, <5>3
      <4> QED BY <1>3, <1>6, <4>1
    <3> QED BY <1>1, <1>7, <2>1, <3>1, <3>2
  <2> QED BY <2>1 DEF IsInjective
<1>9. ToSet(f) \subseteq ToSet(s) \cup {u}
  BY <1>1, <1>7 DEF ToSet
<1>10. Len(f) \in 1 .. Len(s) + 1 /\ (u \in ToSet(s) => Len(f) = Len(s))
  <2>1. PICK n \in Nat, m \in Nat : n = Len(s) /\ m = Len(b) /\ Len(f) = 1 + m
    BY <1>0, <1>3, <1>4
  <2>2. (u \notin ToSet(s) => m = n) /\ (u \in ToSet(s) => m = n - 1)
    BY <1>1, <2>1
  <2> QED BY <2>1, <2>2
<1>11. Newest(f) = u
  <2>1. f # <<>>
    BY <1>3, <1>4, EmptySeq
  <2>2. Head(f) = f[1]
    BY <1>4, <2>1, OneWritten
  <2> QED BY <1>5, <2>1, <2>2 DEF Newest
<1>12. ASSUME NEW j \in 1 .. Len(s), s[j] # u
       PROVE  \E i \in 1 .. j + 1 : i <= Len(f) /\ f[i] = s[j]
  <2>1. PICK i \in 1 .. j : i <= Len(b) /\ b[i] = s[j]
    BY <1>1, <1>12
  <2>2. i \in 1 .. Len(b) /\ i + 1 \in 1 .. j + 1 /\ i + 1 <= Len(f)
    BY <1>0, <1>3, <1>4, <2>1
  <2> QED BY <1>5, <2>1, <2>2
<1> QED BY <1>4, <1>5, <1>8, <1>9, <1>10, <1>11, <1>12 DEF f

(* What a full index keeps and what it evicts.                             *)
LEMMA KeptIs ==
    ASSUME NEW s \in Seq(Uuids), IsInjective(s)
    PROVE  /\ Kept(s) \in Seq(Uuids) /\ IsInjective(Kept(s)) /\ ToSet(Kept(s)) \subseteq ToSet(s)
           /\ Len(Kept(s)) <= MaxEntries /\ Len(Kept(s)) <= Len(s)
           /\ \A i \in 1 .. Len(s) : i <= MaxEntries => i <= Len(Kept(s)) /\ Kept(s)[i] = s[i]
           /\ Len(s) > 0 => Newest(Kept(s)) = Newest(s)
           /\ Evicted(s) \in Seq(Uuids) /\ ToSet(Evicted(s)) \cap ToSet(Kept(s)) = {}
<1> DEFINE k == Kept(s)
           e == Evicted(s)
<1>0. Len(s) \in Nat /\ DOMAIN s = 1 .. Len(s) /\ MaxEntries \in Nat \ {0}
  BY HistoryAssumption
<1>1. /\ k \in Seq(Uuids) /\ Len(k) = (IF MaxEntries <= Len(s) THEN MaxEntries ELSE Len(s))
      /\ \A i \in 1 .. Len(s) : i <= MaxEntries => k[i] = s[i]
  <2>1. k = SubSeq(s, 1, Min({MaxEntries, Len(s)}))
    <3>1. {Len(s), MaxEntries} = {MaxEntries, Len(s)}
      OBVIOUS
    <3> QED BY <3>1 DEF Kept
  <2> HIDE DEF k
  <2> QED BY <1>0, <2>1, FirstOf
<1> HIDE DEF k
<1>2. DOMAIN k = 1 .. Len(k) /\ \A i \in 1 .. Len(k) : i \in 1 .. Len(s) /\ i <= MaxEntries /\ k[i] = s[i]
  BY <1>0, <1>1
<1>3. IsInjective(k) /\ ToSet(k) \subseteq ToSet(s)
  BY <1>0, <1>2 DEF IsInjective, ToSet
<1>4. Len(s) > 0 => Newest(k) = Newest(s)
  <2>1. ASSUME Len(s) > 0 PROVE Newest(k) = Newest(s)
    <3>1. Len(k) > 0 /\ 1 \in 1 .. Len(s) /\ k[1] = s[1]
      BY <1>0, <1>1, <2>1
    <3>2. k # <<>> /\ s # <<>>
      BY <2>1, <3>1, EmptySeq
    <3>3. Head(k) = k[1] /\ Head(s) = s[1]
      BY <1>1, <3>2, OneWritten
    <3> QED BY <3>1, <3>2, <3>3 DEF Newest
  <2> QED BY <2>1
<1>5. /\ e \in Seq(Uuids) /\ Len(e) = (IF MaxEntries + 1 <= Len(s) THEN Len(s) - (MaxEntries + 1) + 1 ELSE 0)
      /\ \A i \in 1 .. Len(s) - (MaxEntries + 1) + 1 : e[i] = s[MaxEntries + 1 + i - 1]
  <2>1. MaxEntries + 1 \in Int /\ Len(s) \in Int /\ \A i \in MaxEntries + 1 .. Len(s) : s[i] \in Uuids
    BY <1>0
  <2> QED BY <2>1, SubSeqProperties DEF Evicted
<1> HIDE DEF e
<1>6. ToSet(e) \cap ToSet(k) = {}
  <2>1. ASSUME NEW i \in 1 .. Len(e), NEW j \in 1 .. Len(k), e[i] = k[j] PROVE FALSE
    <3>1. MaxEntries + 1 <= Len(s) /\ i \in 1 .. Len(s) - (MaxEntries + 1) + 1
      <4>1. PICK n \in Nat, m \in Nat : n = Len(s) /\ m = MaxEntries
        BY <1>0
      <4>2. Len(e) = IF m + 1 <= n THEN n - (m + 1) + 1 ELSE 0
        BY <1>5, <4>1
      <4>3. i \in 1 .. (IF m + 1 <= n THEN n - (m + 1) + 1 ELSE 0)
        BY <4>2
      <4>4. m + 1 <= n /\ i \in 1 .. n - (m + 1) + 1
        BY <4>3
      <4> QED BY <4>1, <4>4
    <3>2. MaxEntries + 1 + i - 1 \in 1 .. Len(s) /\ MaxEntries + 1 + i - 1 > MaxEntries
      BY <1>0, <3>1
    <3>3. s[MaxEntries + 1 + i - 1] = s[j]
      BY <1>2, <1>5, <2>1, <3>1
    <3>4. MaxEntries + 1 + i - 1 = j
      BY <1>0, <1>2, <3>2, <3>3 DEF IsInjective
    <3> QED BY <1>0, <1>2, <3>2, <3>4
  <2>2. \A x \in ToSet(e) : \E i \in 1 .. Len(e) : x = e[i]
    BY <1>5, MembersOfSeq
  <2>3. \A x \in ToSet(k) : \E i \in 1 .. Len(k) : x = k[i]
    BY <1>1, MembersOfSeq
  <2> QED BY <2>1, <2>2, <2>3
<1>7. Len(k) <= MaxEntries /\ Len(k) <= Len(s) /\ \A i \in 1 .. Len(s) : i <= MaxEntries => i <= Len(k)
  BY <1>0, <1>1
<1> QED BY <1>1, <1>3, <1>4, <1>5, <1>6, <1>7 DEF k, e

(* An index at rest fits and keeps no one in particular.                   *)
LEMMA RestingIndex ==
    ASSUME DiskOK
    PROVE  /\ Fits(ReadIndex, {}) /\ \A u : Fits(ReadIndex, {u})
           /\ Len(ReadIndex) \in Nat /\ Len(ReadIndex) <= size /\ size <= MaxEntries
<1>1. /\ ReadIndex \in Seq(Uuids) /\ IsInjective(ReadIndex)
      /\ Len(ReadIndex) = (IF size <= Len(slots) THEN size ELSE Len(slots))
  BY IndexRead
<1>2. Len(slots) \in Nat /\ size \in Nat /\ size <= MaxEntries /\ MaxEntries \in Nat
  BY HistoryAssumption DEF DiskOK
<1>3. Len(ReadIndex) <= size /\ Len(ReadIndex) \in Nat /\ Len(ReadIndex) <= MaxEntries /\ Len(ReadIndex) <= size + 1
  BY <1>1, <1>2
<1>4. ToSet(ReadIndex) \subseteq jsons \cup vanished
  BY DEF DiskOK
<1> QED BY <1>1, <1>2, <1>3, <1>4 DEF Fits

LEMMA KeepsNone == \A F, saved : Keeps(F, <<>>, saved)
  BY DEF Keeps, ToSet

LEMMA FewerKept ==
    ASSUME NEW t, NEW K, Planned(t, K)
    PROVE  Planned(t, <<>>)
  BY KeepsNone DEF Planned, Leads, Saves

LEMMA OpensEnd ==
    ASSUME NEW op, Opens(op), NEW F
    PROVE  op \in Seq(Writes) /\ Ends(op, F)
  BY OpensAre DEF Ends

LEMMA AddOpens ==
    ASSUME DiskOK, NEW us \in Seq(Uuids)
    PROVE  Opens(AddOpen(us))
<1>1. MembersIn(us, ToSet(us) \ ToSet(atQuit)) \in Seq(Uuids) /\ atQuit \in Seq(Uuids)
  BY MembersInIs DEF DiskOK
<1>2. atQuit \o MembersIn(us, ToSet(us) \ ToSet(atQuit)) \in Seq(Uuids)
  BY <1>1, ConcatProperties
<1> QED BY <1>2 DEF Opens, AddOpen

(* The last session is written only when it changes.                       *)
LEMMA DriftedEnds ==
    ASSUME NEW F \in Seq(Uuids), NEW u \in Uuids, Newest(F) = u, NEW r \in Seq(Writes), Ends(r, F)
    PROVE  /\ LastIfDrifted(u) \in Seq(Writes) /\ LastIfDrifted(u) \o r \in Seq(Writes)
           /\ NamesLast(LastIfDrifted(u) \o r, F)
<1>1. CASE last = u
  <2>1. LastIfDrifted(u) = <<>> /\ <<>> \o r = r /\ <<>> \in Seq(Writes)
    BY <1>1, ConcatEmptySeq DEF LastIfDrifted
  <2> QED BY <1>1, <2>1 DEF NamesLast
<1>2. CASE last # u
  <2>1. LastIfDrifted(u) = WriteLastUuid(Newest(F))
    BY <1>2 DEF LastIfDrifted
  <2>2. WriteLastUuid(u) \in Seq(Writes)
    BY AWrite DEF WriteLastUuid
  <2> QED BY <2>1, <2>2, LastThenEnds
<1> QED BY <1>1, <1>2

LEMMA IndexWrites ==
    ASSUME NEW F \in Seq(Uuids)
    PROVE  WriteIndex(F) \in Seq(Writes)
<1>1. Len(F) \in Nat
  OBVIOUS
<1>2. PICK v \in Writes, w \in Writes : v = [do |-> "slots", arg |-> F] /\ w = [do |-> "size", arg |-> Len(F)]
  BY <1>1, AWrite
<1>3. WriteIndex(F) = <<v, w>>
  BY <1>2 DEF WriteIndex
<1> QED BY <1>3

LEMMA LastWrites ==
    ASSUME NEW u \in Uuids \cup {None}
    PROVE  WriteLastUuid(u) \in Seq(Writes)
<1>1. PICK w \in Writes : w = [do |-> "last", arg |-> u]
  BY AWrite
<1>2. WriteLastUuid(u) = <<w>>
  BY <1>1 DEF WriteLastUuid
<1> QED BY <1>2

LEMMA UnlinkWrites ==
    ASSUME NEW us \in Seq(Uuids)
    PROVE  Unlink(us) \in Seq(Writes)
<1>1. Len(us) \in Nat /\ \A i \in 1 .. Len(us) : [do |-> "unlink", arg |-> us[i]] \in Writes
  BY MembersOfSeq, AWrite
<1> QED BY <1>1 DEF Unlink

(* Writes that leave the index alone.                                      *)
LEMMA PlanAtRest ==
    ASSUME DiskOK, AtRest, NEW t \in Seq(Writes), Ends(t, ReadIndex)
    PROVE  Planned(t, <<>>) /\ \A K : Keeps(ReadIndex, K, {}) => Planned(t, K)
<1>1. ReadIndex \in Seq(Uuids) /\ Fits(ReadIndex, {})
  BY IndexRead, RestingIndex
<1>2. WritesIndex(t, ReadIndex)
  BY DEF WritesIndex, NamesLast, AtRest
<1> QED BY <1>1, <1>2, KeepsNone DEF Planned, Leads

(* Writes that replace the index.                                          *)
LEMMA PlanOfIndex ==
    ASSUME NEW F \in Seq(Uuids), NEW r \in Seq(Writes), NamesLast(r, F), Fits(F, {})
    PROVE  WriteIndex(F) \o r \in Seq(Writes) /\ Planned(WriteIndex(F) \o r, <<>>)
  BY IndexThenLast, KeepsNone DEF Planned, Leads

LEMMA TouchPlanned ==
    ASSUME DiskOK, AtRest, NEW u \in Uuids, NEW op, Opens(op)
    PROVE  TouchPlan(u) \o op \in Seq(Writes) /\ Planned(TouchPlan(u) \o op, <<>>)
<1> DEFINE F == ToFront(ReadIndex, u)
<1>1. op \in Seq(Writes) /\ Ends(op, F) /\ Ends(op, ReadIndex)
  BY OpensEnd
<1>2. CASE u \in ToSet(ReadIndex)
  <2>1. ReadIndex \in Seq(Uuids) /\ IsInjective(ReadIndex) /\ Fits(ReadIndex, {})
    BY IndexRead, RestingIndex
  <2>2. /\ F \in Seq(Uuids) /\ IsInjective(F) /\ ToSet(F) \subseteq ToSet(ReadIndex) \cup {u}
        /\ Len(F) = Len(ReadIndex) /\ Newest(F) = u
    BY <1>2, <2>1, FrontIs
  <2> HIDE DEF F
  <2>3. Fits(F, {})
    BY <1>2, <2>1, <2>2 DEF Fits
  <2>4. /\ LastIfDrifted(u) \in Seq(Writes) /\ LastIfDrifted(u) \o op \in Seq(Writes)
        /\ NamesLast(LastIfDrifted(u) \o op, F)
    BY <1>1, <2>2, DriftedEnds
  <2>5. /\ WriteIndex(F) \o (LastIfDrifted(u) \o op) \in Seq(Writes)
        /\ Planned(WriteIndex(F) \o (LastIfDrifted(u) \o op), <<>>)
    BY <2>2, <2>3, <2>4, PlanOfIndex
  <2>6. TouchPlan(u) = WriteIndex(F) \o LastIfDrifted(u)
    BY <1>2 DEF TouchPlan, F
  <2>7. (WriteIndex(F) \o LastIfDrifted(u)) \o op = WriteIndex(F) \o (LastIfDrifted(u) \o op)
    BY <1>1, <2>2, <2>4, IndexWrites, ConcatAssociative
  <2> QED BY <2>5, <2>6, <2>7
<1>3. CASE u \notin ToSet(ReadIndex)
  <2>1. TouchPlan(u) = <<>> /\ <<>> \o op = op
    BY <1>1, <1>3, ConcatEmptySeq DEF TouchPlan
  <2> QED BY <1>1, <2>1, PlanAtRest
<1> QED BY <1>2, <1>3

LEMMA RemovePlanned ==
    ASSUME DiskOK, AtRest, NEW u \in Uuids
    PROVE  RemovePlan(u) \in Seq(Writes) /\ Planned(RemovePlan(u), <<>>)
<1> DEFINE F == Without(ReadIndex, u)
           R == ReadIndex
<1>1. CASE u \in ToSet(ReadIndex)
  <2>1. R \in Seq(Uuids) /\ IsInjective(R) /\ Fits(R, {}) /\ Len(R) \in Nat
    BY IndexRead, RestingIndex
  <2>2. /\ F \in Seq(Uuids) /\ IsInjective(F) /\ ToSet(F) \subseteq ToSet(R) /\ u \notin ToSet(F)
        /\ Len(F) = Len(R) - 1
        /\ \A j \in 1 .. Len(R) : R[j] # u => \E i \in 1 .. j : i <= Len(F) /\ F[i] = R[j]
    BY <1>1, <2>1, WithoutIs
  <2> HIDE DEF F
  <2>3. Fits(F, {})
    <3>1. Len(F) <= Len(R)
      BY <2>1, <2>2
    <3>2. size \in Nat /\ MaxEntries \in Nat /\ Len(F) \in Nat /\ Len(R) <= MaxEntries /\ Len(R) <= size + 1
      BY <2>1, <2>2, HistoryAssumption DEF DiskOK, Fits
    <3>3. Len(F) <= MaxEntries /\ Len(F) <= size + 1
      BY <2>1, <3>1, <3>2
    <3> QED BY <2>1, <2>2, <3>3 DEF Fits
  <2> DEFINE e == Unlink(<<u>>)
             l == IF last = u THEN WriteLastUuid(Newest(F)) ELSE <<>>
  <2>4. e \in Seq(Writes) /\ Ends(e, F)
    <3>1. <<u>> \in Seq(Uuids) /\ ToSet(<<u>>) = {u} /\ Opens(<<>>)
      BY DEF ToSet, Opens
    <3>2. e \o <<>> \in Seq(Writes) /\ Ends(e \o <<>>, F)
      BY <2>2, <3>1, UnlinksEnd
    <3>3. e \in Seq(Writes)
      BY <3>1, UnlinkWrites
    <3>4. e \o <<>> = e
      BY <3>3, ConcatEmptySeq
    <3> QED BY <3>2, <3>4
  <2> HIDE DEF e
  <2>5. CASE last = u
    <3>1. WriteLastUuid(Newest(F)) \o e \in Seq(Writes) /\ NamesLast(WriteLastUuid(Newest(F)) \o e, F)
      BY <2>2, <2>4, LastThenEnds
    <3>2. WriteLastUuid(Newest(F)) \in Seq(Writes)
      <4>1. F # <<>> => Head(F) \in Uuids
        BY <2>2
      <4> QED BY <4>1, LastWrites DEF Newest
    <3>3. RemovePlan(u) = (WriteIndex(F) \o WriteLastUuid(Newest(F))) \o e
      BY <1>1, <2>5 DEF RemovePlan, F, e
    <3>4. RemovePlan(u) = WriteIndex(F) \o (WriteLastUuid(Newest(F)) \o e)
      BY <2>2, <2>4, <3>2, <3>3, IndexWrites, ConcatAssociative
    <3> QED BY <2>2, <2>3, <3>1, <3>4, PlanOfIndex
  <2>6. CASE last # u
    <3>1. RemovePlan(u) = (WriteIndex(F) \o <<>>) \o e
      BY <1>1, <2>6 DEF RemovePlan, F, e
    <3>2. RemovePlan(u) = WriteIndex(F) \o e
      BY <2>2, <3>1, IndexWrites, ConcatEmptySeq
    <3>3. crashes = 0 => last = Newest(F)
      <4> SUFFICES ASSUME last = Newest(R) PROVE Newest(F) = Newest(R)
        BY DEF AtRest
      <4>1. R # <<>>
        BY <1>1 DEF ToSet
      <4>2. R[1] # u /\ Newest(R) = R[1] /\ 1 \in 1 .. Len(R)
        BY <2>1, <2>6, <4>1, OneWritten DEF Newest
      <4>3. PICK i \in 1 .. 1 : i <= Len(F) /\ F[i] = R[1]
        BY <2>2, <4>2
      <4>4. F # <<>> /\ F[1] = R[1]
        BY <4>3, EmptySeq
      <4> QED BY <2>2, <4>2, <4>4, OneWritten DEF Newest
    <3>4. NamesLast(e, F)
      BY <2>4, <3>3 DEF NamesLast
    <3> QED BY <2>2, <2>3, <2>4, <3>2, <3>4, PlanOfIndex
  <2> QED BY <2>5, <2>6
<1>2. CASE u \notin ToSet(ReadIndex)
  <2>1. RemovePlan(u) = <<>>
    BY <1>2 DEF RemovePlan
  <2>2. Opens(<<>>)
    BY DEF Opens
  <2> QED BY <2>1, <2>2, OpensEnd, PlanAtRest
<1> QED BY <1>1, <1>2

LEMMA ClearPlanned ==
    ASSUME DiskOK, NEW op, Opens(op)
    PROVE  ClearPlan \o op \in Seq(Writes) /\ Planned(ClearPlan \o op, <<>>)
<1> DEFINE w == WriteIndex(<<>>)
           l == WriteLastUuid(None)
           e == Unlink(ReadIndex)
<1>1. ReadIndex \in Seq(Uuids) /\ <<>> \in Seq(Uuids) /\ ToSet(<<>>) = {} /\ Newest(<<>>) = None
  BY IndexRead DEF ToSet, Newest
<1>2. e \o op \in Seq(Writes) /\ Ends(e \o op, <<>>)
  BY <1>1, UnlinksEnd
<1>3. l \o (e \o op) \in Seq(Writes) /\ NamesLast(l \o (e \o op), <<>>)
  BY <1>1, <1>2, LastThenEnds
<1>4. w \in Seq(Writes) /\ l \in Seq(Writes) /\ op \in Seq(Writes) /\ e \in Seq(Writes)
  BY <1>1, IndexWrites, LastWrites, UnlinkWrites, OpensEnd
<1>5. ClearPlan = (w \o l) \o e
  BY DEF ClearPlan
<1> HIDE DEF w, l, e
<1>6. ClearPlan \o op = w \o (l \o (e \o op))
  <2>1. w \o l \in Seq(Writes) /\ e \o op \in Seq(Writes)
    BY <1>2, <1>4, ConcatProperties
  <2>2. ((w \o l) \o e) \o op = (w \o l) \o (e \o op)
    BY <1>4, <2>1, ConcatAssociative
  <2>3. PICK r \in Seq(Writes) : r = e \o op
    BY <2>1
  <2>4. (w \o l) \o r = w \o (l \o r)
    BY <1>4, ConcatAssociative
  <2> QED BY <1>5, <2>2, <2>3, <2>4
<1>7. Fits(<<>>, {})
  <2>1. size \in Nat /\ MaxEntries \in Nat /\ Len(<<>>) = 0
    BY HistoryAssumption DEF DiskOK
  <2> QED BY <1>1, <2>1 DEF Fits, IsInjective
<1> QED BY <1>1, <1>3, <1>6, <1>7, PlanOfIndex DEF w

LEMMA CleanupPlanned ==
    ASSUME DiskOK, AtRest
    PROVE  CleanupPlan \in Seq(Writes) /\ Planned(CleanupPlan, <<>>)
<1> DEFINE orphans == jsons \ ToSet(ReadIndex)
           n == Cardinality(orphans)
           s == SetToSeq(orphans)
           m == Min({n, CleanupCap})
           us == SubSeq(s, 1, m)
<1>1. IsFiniteSet(orphans) /\ orphans \subseteq Uuids
  <2>1. orphans \subseteq Uuids
    BY DEF DiskOK
  <2> QED BY <2>1, HistoryAssumption, FS_Subset
<1>2. n \in Nat /\ s \in [1 .. n -> orphans]
  <2>1. n \in Nat /\ ExistsBijection(1 .. n, orphans)
    BY <1>1, FS_CardinalityType
  <2>2. \E f \in [1 .. n -> orphans] : IsInjective(f)
    BY <2>1 DEF ExistsBijection, Bijection, Injection
  <2> QED BY <2>1, <2>2 DEF SetToSeq
<1> HIDE DEF n, s
<1>3. s \in Seq(orphans) /\ Len(s) = n
  BY <1>2
<1>4. us \in Seq(orphans)
  <2>1. us = SubSeq(s, 1, Min({CleanupCap, Len(s)}))
    <3>1. {n, CleanupCap} = {CleanupCap, n}
      OBVIOUS
    <3> QED BY <1>3, <3>1
  <2>2. CleanupCap \in Nat
    BY HistoryAssumption
  <2> HIDE DEF us
  <2> QED BY <1>3, <2>1, <2>2, FirstOf
<1>5. CleanupPlan = Unlink(us)
  BY DEF CleanupPlan, n, s
<1> HIDE DEF us
<1>6. us \in Seq(Uuids) /\ ToSet(us) \cap ToSet(ReadIndex) = {}
  BY <1>1, <1>4, MembersOfSeq
<1>7. Unlink(us) \in Seq(Writes)
  BY <1>6, UnlinkWrites
<1>8. Unlink(us) \o <<>> = Unlink(us)
  BY <1>7, ConcatEmptySeq
<1>9. Ends(Unlink(us), ReadIndex)
  <2>1. Opens(<<>>)
    BY DEF Opens
  <2> QED BY <1>6, <1>8, <2>1, UnlinksEnd
<1> QED BY <1>5, <1>7, <1>9, PlanAtRest

LEMMA Regrouped == \A a, b, c \in Seq(Writes) : (a \o b) \o c = a \o (b \o c)
<1> SUFFICES ASSUME NEW a \in Seq(Writes), NEW b \in Seq(Writes), NEW c \in Seq(Writes)
             PROVE  (a \o b) \o c = a \o (b \o c)
  BY Zenon
<1> QED BY ConcatAssociative

(* A session saved next keeps the ones saved before it.                    *)
LEMMA OneMoreKept ==
    ASSUME DiskOK, NEW K \in Seq(Uuids), NEW u \in Uuids, NEW F \in Seq(Uuids), F # <<>>, F[1] = u,
           Keeps(ReadIndex, K, {}), Len(K) < MaxEntries,
           \A j \in 1 .. Len(ReadIndex) : ReadIndex[j] # u /\ j < MaxEntries =>
                \E i \in 1 .. j + 1 : i <= Len(F) /\ F[i] = ReadIndex[j]
    PROVE  Append(K, u) \in Seq(Uuids) /\ Keeps(F, Append(K, u), {u})
<1> DEFINE L == Append(K, u)
           R == ReadIndex
<1>1. /\ L \in Seq(Uuids) /\ Len(L) = Len(K) + 1 /\ Len(K) \in Nat
      /\ \A i \in 1 .. Len(K) : L[i] = K[i]
      /\ L[Len(K) + 1] = u
  BY AppendProperties
<1> HIDE DEF L
<1>2. R \in Seq(Uuids) /\ Len(R) \in Nat /\ Len(F) \in Nat /\ Len(F) >= 1 /\ MaxEntries \in Nat
  BY IndexRead, EmptySeq, HistoryAssumption
<1>3. ASSUME NEW x \in ToSet(L)
      PROVE  x \in jsons \cup {u} /\ \E j \in 1 .. Len(L) : j <= Len(F) /\ F[j] = x
  <2>1. CASE x = u
    <3>1. 1 \in 1 .. Len(L) /\ 1 <= Len(F)
      BY <1>1, <1>2
    <3> QED BY <2>1, <3>1
  <2>2. CASE x # u
    <3>1. PICK i \in 1 .. Len(L) : x = L[i]
      BY <1>1, MembersOfSeq
    <3>2. i \in 1 .. Len(K) /\ x = K[i]
      BY <1>1, <2>2, <3>1
    <3>3. x \in ToSet(K)
      BY <3>2, MembersOfSeq
    <3>4. x \in jsons /\ \E j \in 1 .. Len(K) : j <= Len(R) /\ R[j] = x
      BY <3>3 DEF Keeps
    <3>5. PICK j \in 1 .. Len(K) : j <= Len(R) /\ R[j] = x
      BY <3>4
    <3>6. j \in 1 .. Len(R) /\ j < MaxEntries /\ R[j] # u
      BY <1>1, <1>2, <2>2, <3>5
    <3>7. PICK k \in 1 .. j + 1 : k <= Len(F) /\ F[k] = R[j]
      BY <3>6
    <3>8. k \in 1 .. Len(L)
      BY <1>1, <3>5, <3>7
    <3> QED BY <3>4, <3>5, <3>7, <3>8
  <2> QED BY <2>1, <2>2
<1> QED BY <1>1, <1>3 DEF Keeps, L

LEMMA SnapshotPlanned ==
    ASSUME DiskOK, AtRest, NEW u \in Uuids, NEW same \in BOOLEAN, NEW publish \in BOOLEAN
    PROVE  /\ SnapshotPlan(u, same, publish) \in Seq(Writes)
           /\ Planned(SnapshotPlan(u, same, publish), <<>>)
           /\ \A K \in Seq(Uuids) : Keeps(ReadIndex, K, {}) /\ Len(K) < MaxEntries =>
                 Planned(SnapshotPlan(u, same, publish), Append(K, u))
<1> DEFINE R == ReadIndex
           E == ToFront(ReadIndex, u)
           F == Kept(E)
           P == SnapshotPlan(u, same, publish)
           op == IF publish THEN AddOpen(<<u>>) ELSE <<>>
           head == Newest(ReadIndex) = u /\ same
           rest == IF head THEN LastIfDrifted(u) ELSE WriteIndex(F) \o WriteLastUuid(u) \o Unlink(Evicted(E))
<1>1. PICK w \in Writes : w = [do |-> "save", arg |-> u]
  BY AWrite
<1>2. P = (<<w>> \o rest) \o op
  BY <1>1 DEF SnapshotPlan
<1>3. Opens(op) /\ op \in Seq(Writes)
  <2>1. <<u>> \in Seq(Uuids) /\ Opens(<<>>)
    BY DEF Opens
  <2>2. Opens(AddOpen(<<u>>))
    BY <2>1, AddOpens
  <2> QED BY <2>1, <2>2, OpensEnd
<1> HIDE DEF P, op
<1>4. /\ R \in Seq(Uuids) /\ IsInjective(R) /\ Len(R) \in Nat /\ Fits(R, {}) /\ Fits(R, {u})
  BY IndexRead, RestingIndex
<1>5. ASSUME NEW G \in Seq(Uuids), Fits(G, {u}), G # <<>>, G[1] = u, rest \in Seq(Writes), rest \o op \in Seq(Writes),
             WritesIndex(rest \o op, G),
             \A j \in 1 .. Len(R) : R[j] # u /\ j < MaxEntries => \E i \in 1 .. j + 1 : i <= Len(G) /\ G[i] = R[j]
      PROVE  /\ P \in Seq(Writes) /\ Planned(P, <<>>)
             /\ \A K \in Seq(Uuids) : Keeps(R, K, {}) /\ Len(K) < MaxEntries => Planned(P, Append(K, u))
  <2> HIDE DEF rest
  <2>1. PICK r \in Seq(Writes) : r = rest \o op
    BY <1>5
  <2>2. P = <<w>> \o r
    <3>1. <<w>> \in Seq(Writes)
      OBVIOUS
    <3> QED BY <1>2, <1>3, <1>5, <2>1, <3>1, ConcatAssociative
  <2>3. P \in Seq(Writes) /\ P # <<>> /\ Head(P) = w /\ Tail(P) = r
    BY <2>2, WriteFirst
  <2>4. ASSUME NEW K, Keeps(G, K, {u}) PROVE Planned(P, K)
    <3>1. Saves(P, G, K, u)
      BY <1>1, <1>5, <2>1, <2>3, <2>4 DEF Saves, AtRest
    <3> QED BY <3>1 DEF Planned, Leads
  <2>5. ASSUME NEW K \in Seq(Uuids), Keeps(R, K, {}), Len(K) < MaxEntries PROVE Planned(P, Append(K, u))
    BY <1>5, <2>4, <2>5, OneMoreKept
  <2> QED BY <2>3, <2>4, <2>5, KeepsNone
<1>6. CASE head
  <2>1. rest = LastIfDrifted(u)
    BY <1>6
  <2>2. /\ LastIfDrifted(u) \in Seq(Writes) /\ LastIfDrifted(u) \o op \in Seq(Writes)
        /\ NamesLast(LastIfDrifted(u) \o op, R)
    BY <1>3, <1>4, <1>6, OpensEnd, DriftedEnds
  <2>3. R # <<>> /\ R[1] = u
    <3>1. R # <<>>
      BY <1>6, HistoryAssumption DEF Newest
    <3> QED BY <1>4, <1>6, <3>1, OneWritten DEF Newest
  <2>4. ASSUME NEW j \in 1 .. Len(R) PROVE j \in 1 .. j + 1 /\ j <= Len(R)
    OBVIOUS
  <2>5. WritesIndex(rest \o op, R)
    BY <2>1, <2>2 DEF WritesIndex
  <2> HIDE DEF rest, head
  <2> QED BY <1>4, <1>5, <2>1, <2>2, <2>3, <2>4, <2>5 DEF P
<1>7. CASE ~head
  <2>1. rest = (WriteIndex(F) \o WriteLastUuid(u)) \o Unlink(Evicted(E))
    BY <1>7
  <2>2. /\ E \in Seq(Uuids) /\ IsInjective(E) /\ ToSet(E) \subseteq ToSet(R) \cup {u}
        /\ Len(E) \in 1 .. Len(R) + 1 /\ E[1] = u /\ Newest(E) = u
        /\ \A j \in 1 .. Len(R) : R[j] # u => \E i \in 1 .. j + 1 : i <= Len(E) /\ E[i] = R[j]
    BY <1>4, FrontIs
  <2> HIDE DEF E, rest, head
  <2>3. Len(E) \in Nat /\ Len(E) > 0 /\ Len(E) <= Len(R) + 1
    BY <1>4, <2>2
  <2>4. /\ F \in Seq(Uuids) /\ IsInjective(F) /\ ToSet(F) \subseteq ToSet(E)
        /\ Len(F) <= MaxEntries /\ Len(F) <= Len(E)
        /\ \A i \in 1 .. Len(E) : i <= MaxEntries => i <= Len(F) /\ F[i] = E[i]
        /\ Newest(F) = u
        /\ Evicted(E) \in Seq(Uuids) /\ ToSet(Evicted(E)) \cap ToSet(F) = {}
    BY <2>2, <2>3, KeptIs
  <2> HIDE DEF F
  <2>5. MaxEntries \in Nat \ {0} /\ Len(F) \in Nat /\ size \in Nat /\ Len(R) <= size
    BY <2>4, RestingIndex, HistoryAssumption DEF DiskOK
  <2>6. Fits(F, {u})
    <3>1. Len(F) <= size + 1
      BY <1>4, <2>3, <2>4, <2>5
    <3> QED BY <1>4, <2>2, <2>4, <3>1 DEF Fits
  <2>7. F # <<>> /\ F[1] = u
    <3>1. 1 <= Len(F) /\ F[1] = E[1]
      BY <2>3, <2>4, <2>5
    <3> QED BY <2>2, <3>1, EmptySeq
  <2> DEFINE e == Unlink(Evicted(E))
  <2>8. e \in Seq(Writes) /\ e \o op \in Seq(Writes) /\ Ends(e \o op, F)
    BY <1>3, <2>4, UnlinksEnd, UnlinkWrites
  <2> HIDE DEF e
  <2>9. PICK r \in Seq(Writes) : r = e \o op
    BY <2>8
  <2>10. PICK l \in Seq(Writes) : l = WriteLastUuid(u)
    BY LastWrites
  <2>11. PICK x \in Seq(Writes) : x = WriteIndex(F)
    BY <2>4, IndexWrites
  <2>12. l \o r \in Seq(Writes) /\ NamesLast(l \o r, F)
    BY <2>4, <2>8, <2>9, <2>10, LastThenEnds
  <2>13. x \o (l \o r) \in Seq(Writes) /\ WritesIndex(x \o (l \o r), F)
    BY <2>4, <2>11, <2>12, IndexThenLast
  <2>14. rest \in Seq(Writes) /\ rest \o op = x \o (l \o r)
    <3>1. rest = (x \o l) \o e
      BY <2>1, <2>10, <2>11 DEF e
    <3>2. PICK y \in Seq(Writes) : y = x \o l
      BY ConcatProperties
    <3>3. y \o e \in Seq(Writes) /\ (y \o e) \o op = y \o (e \o op)
      <4>1. y \o e \in Seq(Writes)
        BY <2>8, <3>2, ConcatProperties
      <4>2. (y \o e) \o op = y \o (e \o op)
        BY <1>3, <2>8, <3>2, Regrouped, Zenon
      <4> QED BY <4>1, <4>2
    <3>4. (x \o l) \o r = x \o (l \o r)
      BY <2>9, <2>10, <2>11, Regrouped, Zenon
    <3> QED BY <2>9, <3>1, <3>2, <3>3, <3>4
  <2>15. ASSUME NEW j \in 1 .. Len(R), R[j] # u, j < MaxEntries
         PROVE  \E i \in 1 .. j + 1 : i <= Len(F) /\ F[i] = R[j]
    <3>1. PICK i \in 1 .. j + 1 : i <= Len(E) /\ E[i] = R[j]
      BY <2>2, <2>15
    <3>2. i \in 1 .. Len(E) /\ i <= MaxEntries
      BY <1>4, <2>3, <2>5, <2>15, <3>1
    <3> QED BY <2>4, <3>1, <3>2
  <2> QED BY <1>5, <2>4, <2>6, <2>7, <2>13, <2>14, <2>15 DEF P
<1> QED BY <1>6, <1>7

-----------------------------------------------------------------------------
(* The index through every step of its mutators.                           *)
LEMMA HistoryInitOK == HistoryInit => HistoryOK
<1> SUFFICES ASSUME HistoryInit PROVE HistoryOK
  OBVIOUS
<1>1. (CHOOSE u \in Uuids : TRUE) \in Uuids
  BY HistoryAssumption
<1>2. PICK c \in Uuids : c = (CHOOSE u \in Uuids : TRUE)
  BY <1>1
<1>3. slots \in {<<>>, <<c>>} /\ size = Len(slots) /\ jsons = ToSet(slots) /\ last = Newest(slots)
  <2>1. slots # <<>> => Head(slots) = slots[1]
    BY <1>2 DEF HistoryInit
  <2> QED BY <1>2, <2>1 DEF HistoryInit, Newest
<1>4. slots \in Seq(Uuids) /\ Len(slots) \in 0 .. 1 /\ IsInjective(slots) /\ ToSet(slots) \subseteq Uuids /\ last \in Uuids \cup {None}
  <2>1. CASE slots = <<>>
    BY <1>3, <2>1 DEF IsInjective, ToSet, Newest
  <2>2. CASE slots = <<c>>
    <3>1. slots \in Seq(Uuids) /\ Len(slots) = 1 /\ DOMAIN slots = {1} /\ slots[1] = c /\ slots # <<>> /\ Head(slots) = c
      BY <2>2
    <3> QED BY <1>3, <3>1 DEF IsInjective, ToSet, Newest
  <2> QED BY <1>3, <2>1, <2>2
<1>5. ReadIndex = slots
  <2>1. SubSeq(slots, 1, Min({size, Len(slots)})) = slots
    BY <1>3, <1>4, PartOf
  <2> QED BY <2>1 DEF ReadIndex
<1>6. MaxEntries \in Nat \ {0}
  BY HistoryAssumption
<1>7. size \in 0 .. MaxEntries /\ Len(slots) <= size + 1
  BY <1>3, <1>4, <1>6
<1>8. DiskOK
  <2>1. atQuit = <<>> /\ crashes = 0 /\ vanished = {}
    BY DEF HistoryInit
  <2> QED BY <1>3, <1>4, <1>5, <1>7, <2>1 DEF DiskOK
<1>9. LockOK
  <2>1. recentsLock = None /\ todo = [p \in Instances |-> <<>>] /\ crashes = 0
    BY DEF HistoryInit
  <2>2. None \notin Instances /\ <<>> \in Seq(Writes) /\ Dead # None
    BY HistoryAssumption DEF Dead, None
  <2>3. todo \in [Instances -> Seq(Writes)] /\ \A p \in Instances : todo[p] = <<>>
    BY <2>1, <2>2
  <2> QED BY <1>3, <1>5, <2>1, <2>2, <2>3 DEF LockOK
<1> QED BY <1>8, <1>9 DEF HistoryOK

(* A plan stays right while files come, or go with no one to keep.         *)
LEMMA PlanStays ==
    ASSUME NEW p \in Instances, NEW t, NEW K, Planned(t, K), todo'[p] = t,
           UNCHANGED <<slots, size, last>>, crashes' = 0 => crashes = 0,
           jsons \cup vanished \subseteq jsons' \cup vanished', K = <<>> \/ jsons \subseteq jsons'
    PROVE  Planned(todo[p], K)'
<1>1. PICK F \in Seq(Uuids) : Leads(t, F, K)
  BY DEF Planned
<1>2. ReadIndex' = ReadIndex
  BY DEF ReadIndex
<1>3. Newest(F)' = Newest(F)
  BY DEF Newest
<1>4. ASSUME WritesIndex(t, F) PROVE WritesIndex(todo[p], F)'
  <2>1. CASE ReadIndex = F /\ NamesLast(t, F)
    <3>1. NamesLast(todo[p], F)'
      BY <2>1 DEF NamesLast, Ends, Newest
    <3> QED BY <1>2, <2>1, <3>1 DEF WritesIndex
  <2>2. CASE slots = F /\ NamesSize(t, F)
    <3>1. NamesSize(todo[p], F)'
      BY <2>2 DEF NamesSize, NamesLast, Ends, Newest
    <3> QED BY <2>2, <3>1 DEF WritesIndex
  <2>3. CASE t # <<>> /\ Head(t) = [do |-> "slots", arg |-> F] /\ NamesSize(Tail(t), F)
    <3>1. NamesSize(Tail(todo[p]), F)'
      BY <2>3 DEF NamesSize, NamesLast, Ends, Newest
    <3> QED BY <2>3, <3>1 DEF WritesIndex
  <2> QED BY <1>4, <2>1, <2>2, <2>3 DEF WritesIndex
<1>5. ASSUME WritesIndex(Tail(t), F) PROVE WritesIndex(Tail(todo[p]), F)'
  <2>0. PICK r : r = Tail(t) /\ r = Tail(todo'[p]) /\ WritesIndex(r, F)
    BY <1>5
  <2>1. CASE ReadIndex = F /\ NamesLast(r, F)
    <3>1. NamesLast(Tail(todo[p]), F)'
      BY <2>0, <2>1 DEF NamesLast, Ends, Newest
    <3> QED BY <1>2, <2>1, <3>1 DEF WritesIndex
  <2>2. CASE slots = F /\ NamesSize(r, F)
    <3>1. NamesSize(Tail(todo[p]), F)'
      BY <2>0, <2>2 DEF NamesSize, NamesLast, Ends, Newest
    <3> QED BY <2>2, <3>1 DEF WritesIndex
  <2>3. CASE r # <<>> /\ Head(r) = [do |-> "slots", arg |-> F] /\ NamesSize(Tail(r), F)
    <3>1. NamesSize(Tail(Tail(todo[p])), F)'
      BY <2>0, <2>3 DEF NamesSize, NamesLast, Ends, Newest
    <3> QED BY <2>0, <2>3, <3>1 DEF WritesIndex
  <2> QED BY <2>0, <2>1, <2>2, <2>3 DEF WritesIndex
<1>6. ASSUME NEW saved, Fits(F, saved) PROVE Fits(F, saved)'
  BY <1>6 DEF Fits
<1>7. ASSUME NEW saved, Keeps(F, K, saved) PROVE Keeps(F, K, saved)'
  BY <1>7, KeepsNone DEF Keeps, ToSet
<1>8. Leads(todo[p], F, K)'
  <2>1. CASE Fits(F, {}) /\ Keeps(F, K, {}) /\ WritesIndex(t, F)
    <3>1. Fits(F, {})' /\ Keeps(F, K, {})'
      BY <1>6, <1>7, <2>1
    <3> QED BY <1>4, <2>1, <3>1 DEF Leads
  <2>2. CASE \E u \in Uuids : Saves(t, F, K, u)
    <3>1. PICK u \in Uuids : Saves(t, F, K, u)
      BY <2>2
    <3>2. Fits(F, {u})' /\ Keeps(F, K, {u})' /\ WritesIndex(Tail(todo[p]), F)'
      BY <1>5, <1>6, <1>7, <3>1 DEF Saves
    <3>3. (crashes = 0 => last = Newest(ReadIndex))'
      BY <1>2, <3>1 DEF Saves, Newest
    <3>4. Saves(todo[p], F, K, u)'
      BY <3>1, <3>2, <3>3 DEF Saves
    <3> QED BY <3>4 DEF Leads
  <2> QED BY <1>1, <2>1, <2>2 DEF Leads
<1> QED BY <1>8 DEF Planned

(* A mutator that gets the lock.                                           *)
LEMMA MutatorBegins ==
    ASSUME HistoryOK, LockAvailable
    PROVE  AtRest /\ \A q \in Instances : todo[q] = <<>>
<1>1. recentsLock \notin Instances
  BY HistoryAssumption DEF LockAvailable
<1>2. AtRest
  BY DEF LockAvailable, HistoryOK, LockOK, DiskOK, AtRest
<1> QED BY <1>1, <1>2 DEF HistoryOK, LockOK

LEMMA BeginOK ==
    ASSUME HistoryOK, LockAvailable, NEW p \in Instances, NEW t \in Seq(Writes), Planned(t, <<>>), Begin(p, t)
    PROVE  HistoryOK'
<1>1. AtRest /\ \A q \in Instances : todo[q] = <<>>
  BY MutatorBegins
<1>2. /\ recentsLock' = IF t = <<>> THEN None ELSE p
      /\ todo' = [todo EXCEPT ![p] = t]
      /\ UNCHANGED <<slots, size, last, jsons, atQuit, crashes, vanished>>
  BY DEF Begin
<1>3. DiskOK'
  BY <1>2 DEF HistoryOK, DiskOK, ReadIndex
<1>4. /\ todo' \in [Instances -> Seq(Writes)] /\ todo'[p] = t
      /\ \A q \in Instances : q # p => todo'[q] = <<>>
  BY <1>1, <1>2 DEF HistoryOK, LockOK
<1>5. Planned(todo[p], <<>>)'
  BY <1>2, <1>4, PlanStays
<1>6. ReadIndex' = ReadIndex
  BY <1>2 DEF ReadIndex
<1>7. recentsLock' \in Instances \cup {None, Dead} /\ \A q \in Instances : todo'[q] # <<>> <=> recentsLock' = q
  BY <1>2, <1>4, HistoryAssumption
<1>8. (recentsLock = Dead => crashes > 0)'
  <2>1. recentsLock' # Dead
    BY <1>2, HistoryAssumption DEF None, Dead
  <2> QED BY <2>1
<1>9. (recentsLock = None /\ crashes = 0 => last = Newest(ReadIndex))'
  BY <1>1, <1>2, <1>6 DEF AtRest, Newest
<1>10. ASSUME NEW q \in Instances, todo'[q] # <<>> PROVE Planned(todo[q], <<>>)'
  <2>1. q = p
    BY <1>4, <1>10
  <2> QED BY <1>5, <2>1
<1> QED BY <1>3, <1>4, <1>7, <1>8, <1>9, <1>10 DEF HistoryOK, LockOK

LEMMA WriteOK ==
    ASSUME HistoryOK, NEW p \in Instances, WriteStep(p)
    PROVE  HistoryOK'
<1>1. /\ todo \in [Instances -> Seq(Writes)] /\ todo[p] # <<>> /\ Planned(todo[p], <<>>) /\ DiskOK
      /\ recentsLock = p /\ \A q \in Instances : q # p => todo[q] = <<>>
  BY DEF HistoryOK, LockOK, WriteStep
<1>2. <<>> \in Seq(Uuids)
  OBVIOUS
<1>3. DiskOK' /\ Planned(todo[p], <<>>)'
  BY <1>1, <1>2, WriteGoesOn
<1>4. /\ todo' = [todo EXCEPT ![p] = Tail(@)]
      /\ recentsLock' = (IF Len(todo[p]) = 1 THEN None ELSE recentsLock)
      /\ UNCHANGED crashes
  BY DEF WriteStep
<1>5. /\ Tail(todo[p]) \in Seq(Writes) /\ (Len(todo[p]) = 1 <=> Tail(todo[p]) = <<>>)
  BY <1>1, OneWritten
<1>6. /\ todo' \in [Instances -> Seq(Writes)] /\ todo'[p] = Tail(todo[p])
      /\ \A q \in Instances : q # p => todo'[q] = <<>>
  BY <1>1, <1>4, <1>5
<1>7. recentsLock' = IF todo'[p] = <<>> THEN None ELSE p
  BY <1>1, <1>4, <1>5, <1>6
<1>8. recentsLock' \in Instances \cup {None, Dead} /\ \A q \in Instances : todo'[q] # <<>> <=> recentsLock' = q
  BY <1>6, <1>7, HistoryAssumption
<1>9. (recentsLock = Dead => crashes > 0)'
  <2>1. recentsLock' # Dead
    BY <1>7, HistoryAssumption DEF None, Dead
  <2> QED BY <2>1
<1>10. (recentsLock = None /\ crashes = 0 => last = Newest(ReadIndex))'
  <2> SUFFICES ASSUME recentsLock' = None, crashes' = 0 PROVE last' = Newest(ReadIndex)'
    OBVIOUS
  <2>1. todo'[p] = <<>>
    BY <1>7, HistoryAssumption
  <2>2. PICK F \in Seq(Uuids) : Leads(todo[p], F, <<>>)'
    BY <1>3 DEF Planned
  <2>3. WritesIndex(todo[p], F)'
    BY <2>1, <2>2 DEF Leads, Saves
  <2>4. ReadIndex' = F /\ NamesLast(todo[p], F)'
    BY <2>1, <2>3 DEF WritesIndex, NamesSize
  <2>5. last' = Newest(F)
    BY <2>1, <2>4 DEF NamesLast, Newest
  <2> QED BY <2>4, <2>5 DEF Newest
<1>11. ASSUME NEW q \in Instances, todo'[q] # <<>> PROVE Planned(todo[q], <<>>)'
  <2>1. q = p
    BY <1>6, <1>11
  <2> QED BY <1>3, <2>1
<1> QED BY <1>3, <1>6, <1>8, <1>9, <1>10, <1>11 DEF HistoryOK, LockOK

LEMMA SaveFailsOK ==
    ASSUME HistoryOK, NEW p \in Instances, SaveFails(p)
    PROVE  HistoryOK'
<1>1. /\ todo \in [Instances -> Seq(Writes)] /\ todo[p] # <<>> /\ Planned(todo[p], <<>>) /\ DiskOK
      /\ recentsLock = p /\ (\A q \in Instances : q # p => todo[q] = <<>>) /\ Head(todo[p]).do = "save"
  BY DEF HistoryOK, LockOK, SaveFails
<1>2. /\ todo' = [todo EXCEPT ![p] = <<>>] /\ recentsLock' = None
      /\ UNCHANGED <<slots, size, last, jsons, atQuit, crashes, vanished>>
  BY DEF SaveFails
<1>3. DiskOK'
  BY <1>1, <1>2 DEF DiskOK, ReadIndex
<1>4. todo' \in [Instances -> Seq(Writes)] /\ \A q \in Instances : todo'[q] = <<>>
  <2>1. <<>> \in Seq(Writes)
    OBVIOUS
  <2> QED BY <1>1, <1>2, <2>1
<1>5. crashes = 0 => last = Newest(ReadIndex)
  <2>1. PICK F \in Seq(Uuids) : Leads(todo[p], F, <<>>)
    BY <1>1 DEF Planned
  <2>2. CASE WritesIndex(todo[p], F)
    <3>1. CASE NamesLast(todo[p], F)
      <4>1. CASE Ends(todo[p], F)
        BY <1>1, <4>1, EndsGoOn
      <4>2. CASE Head(todo[p]) = [do |-> "last", arg |-> Newest(F)]
        BY <1>1, <4>2
      <4> QED BY <3>1, <4>1, <4>2 DEF NamesLast
    <3>2. CASE Head(todo[p]) = [do |-> "size", arg |-> Len(F)] \/ Head(todo[p]) = [do |-> "slots", arg |-> F]
      BY <1>1, <3>2
    <3> QED BY <2>2, <3>1, <3>2 DEF WritesIndex, NamesSize
  <2> QED BY <2>1, <2>2 DEF Leads, Saves
<1>6. ReadIndex' = ReadIndex
  BY <1>2 DEF ReadIndex
<1>7. (recentsLock = None /\ crashes = 0 => last = Newest(ReadIndex))'
  BY <1>2, <1>5, <1>6 DEF Newest
<1>8. recentsLock' \notin Instances /\ recentsLock' # Dead
  BY <1>2, HistoryAssumption DEF None, Dead
<1> QED BY <1>2, <1>3, <1>4, <1>7, <1>8 DEF HistoryOK, LockOK

LEMMA CrashOK ==
    ASSUME HistoryOK, NEW p \in Instances, CrashHistory(p)
    PROVE  HistoryOK'
<1>1. /\ todo \in [Instances -> Seq(Writes)] /\ DiskOK /\ crashes \in Nat
      /\ \A q \in Instances : todo[q] # <<>> => recentsLock = q /\ Planned(todo[q], <<>>)
  BY DEF HistoryOK, LockOK, DiskOK
<1>2. /\ crashes' = crashes + 1 /\ todo' = [todo EXCEPT ![p] = <<>>]
      /\ recentsLock' = (IF recentsLock = p THEN Dead ELSE recentsLock)
      /\ UNCHANGED <<slots, size, last, jsons, atQuit, vanished>>
  BY DEF CrashHistory
<1>3. crashes' \in Nat /\ crashes' > 0
  BY <1>1, <1>2
<1>4. DiskOK'
  BY <1>1, <1>2, <1>3 DEF DiskOK, ReadIndex
<1>5. /\ todo' \in [Instances -> Seq(Writes)] /\ todo'[p] = <<>>
      /\ \A q \in Instances : q # p => todo'[q] = todo[q]
  <2>1. <<>> \in Seq(Writes)
    OBVIOUS
  <2> QED BY <1>1, <1>2, <2>1
<1>6. recentsLock' \in Instances \cup {None, Dead} /\ \A q \in Instances : todo'[q] # <<>> <=> recentsLock' = q
  BY <1>2, <1>5, HistoryAssumption DEF HistoryOK, LockOK
<1>7. ASSUME NEW q \in Instances, todo'[q] # <<>> PROVE Planned(todo[q], <<>>)'
  <2>1. PICK t : t = todo[q] /\ todo'[q] = t /\ Planned(t, <<>>)
    BY <1>1, <1>5, <1>7
  <2> QED BY <1>2, <1>3, <2>1, PlanStays
<1> QED BY <1>3, <1>4, <1>5, <1>6, <1>7 DEF HistoryOK, LockOK

LEMMA VanishOK ==
    ASSUME HistoryOK, NEW u \in Uuids, JsonVanishes(u)
    PROVE  HistoryOK'
<1>1. /\ jsons' = jsons \ {u} /\ vanished' = vanished \cup {u}
      /\ UNCHANGED <<slots, size, last, atQuit, recentsLock, todo, crashes>>
  BY DEF JsonVanishes
<1>2. ReadIndex' = ReadIndex /\ jsons \cup vanished \subseteq jsons' \cup vanished'
  BY <1>1 DEF ReadIndex
<1>3. DiskOK'
  BY <1>1, <1>2 DEF HistoryOK, DiskOK
<1>4. ASSUME NEW q \in Instances, todo'[q] # <<>> PROVE Planned(todo[q], <<>>)'
  <2>1. PICK t : t = todo[q] /\ todo'[q] = t /\ Planned(t, <<>>)
    BY <1>1, <1>4 DEF HistoryOK, LockOK
  <2> QED BY <1>1, <1>2, <2>1, PlanStays
<1>5. (recentsLock = None /\ crashes = 0 => last = Newest(ReadIndex))'
  BY <1>1, <1>2 DEF HistoryOK, LockOK, Newest
<1> QED BY <1>1, <1>3, <1>4, <1>5 DEF HistoryOK, LockOK

LEMMA HistoryStays ==
    ASSUME HistoryOK, UNCHANGED historyVars
    PROVE  HistoryOK'
<1>1. UNCHANGED <<slots, size, last, jsons, atQuit, recentsLock, todo, crashes, vanished>>
  BY DEF historyVars
<1>2. DiskOK'
  BY <1>1 DEF HistoryOK, DiskOK, ReadIndex
<1>3. ASSUME NEW q \in Instances, todo'[q] # <<>> PROVE Planned(todo[q], <<>>)'
  <2>1. PICK t : t = todo[q] /\ todo'[q] = t /\ Planned(t, <<>>)
    BY <1>1, <1>3 DEF HistoryOK, LockOK
  <2> QED BY <1>1, <2>1, PlanStays
<1>4. (recentsLock = None /\ crashes = 0 => last = Newest(ReadIndex))'
  BY <1>1 DEF HistoryOK, LockOK, Newest, ReadIndex
<1> QED BY <1>1, <1>2, <1>3, <1>4 DEF HistoryOK, LockOK

LEMMA MutateOK ==
    ASSUME HistoryOK, NEW p \in Instances, NEW t \in Seq(Writes), LockAvailable => Planned(t, <<>>), Mutate(p, t)
    PROVE  HistoryOK'
<1>1. CASE LockAvailable
  <2>1. Begin(p, t)
    BY <1>1 DEF Mutate, LockFree
  <2> QED BY <1>1, <2>1, BeginOK
<1>2. CASE ~LockAvailable
  <2>1. UNCHANGED historyVars
    BY <1>2 DEF Mutate, LockFree
  <2> QED BY <2>1, HistoryStays
<1> QED BY <1>1, <1>2

-----------------------------------------------------------------------------
(* The processes: the sessions they host, defer and have still to handle.  *)
Windowed == Uuids \cup {None}

SessionsOK ==
    /\ DOMAIN app = Instances /\ DOMAIN draft = Instances
    /\ hosted \in [Instances -> Seq(Uuids)] /\ pending \in [Instances -> Seq(Uuids)]
    /\ deferred \in [Instances -> Seq(Windowed)] /\ undisturbed \in [Instances -> BOOLEAN]
    /\ doc.windows \in Seq(Windowed) /\ \A p \in Instances : draft[p].windows \in Seq(Windowed)

LEMMA TailOf ==
    ASSUME NEW A, NEW s \in Seq(A), s # <<>>
    PROVE  Tail(s) \in Seq(A) /\ Head(s) \in A
  BY HeadTailProperties

(* The first windows of the workspace and the others.                      *)
LEMMA RestoreSplits ==
    ASSUME SessionsOK, DiskOK
    PROVE  /\ ToRestore \in Seq(Windowed) /\ ToDefer \in Seq(Windowed) /\ ToSet(ToDefer) \subseteq ToSet(doc.windows)
           /\ \A S : MembersIn(Windows(ToRestore), S) \in Seq(Uuids)
<1> DEFINE s == doc.windows
           d == SubSeq(s, RestoreCap + 1, Len(s))
<1>1. s \in Seq(Windowed) /\ Len(s) \in Nat /\ RestoreCap \in Nat \ {0}
  BY WorkspaceAssumption DEF SessionsOK
<1>2. ToRestore \in Seq(Windowed)
  BY <1>1, FirstOf DEF ToRestore
<1>3. /\ d \in Seq(Windowed) /\ Len(d) = (IF RestoreCap + 1 <= Len(s) THEN Len(s) - (RestoreCap + 1) + 1 ELSE 0)
      /\ \A i \in 1 .. Len(s) - (RestoreCap + 1) + 1 : d[i] = s[RestoreCap + 1 + i - 1]
  <2>1. RestoreCap + 1 \in Int /\ Len(s) \in Int /\ \A i \in RestoreCap + 1 .. Len(s) : s[i] \in Windowed
    BY <1>1
  <2> HIDE DEF s
  <2> QED BY <1>1, <2>1, SubSeqProperties
<1>4. ToSet(d) \subseteq ToSet(s)
  <2> HIDE DEF d, s
  <2>1. ASSUME NEW i \in 1 .. Len(d) PROVE d[i] \in ToSet(s)
    <3>1. PICK n \in Nat, m \in Nat : n = Len(s) /\ m = RestoreCap
      BY <1>1
    <3>2. Len(d) = IF m + 1 <= n THEN n - (m + 1) + 1 ELSE 0
      BY <1>3, <3>1
    <3>3. i \in 1 .. n - (m + 1) + 1 /\ m + 1 + i - 1 \in 1 .. n
      BY <3>1, <3>2
    <3> QED BY <1>1, <1>3, <3>1, <3>3, MembersOfSeq
  <2> QED BY <1>3, <2>1, MembersOfSeq
<1>5. Windows(ToRestore) \in Seq(Windowed) /\ None \notin ToSet(Windows(ToRestore))
  BY <1>2, MembersInIs DEF Windows
<1>6. ASSUME NEW S PROVE MembersIn(Windows(ToRestore), S) \in Seq(Uuids)
  <2>1. PICK w \in Seq(Windowed) : w = Windows(ToRestore) /\ None \notin ToSet(w)
    BY <1>5
  <2>2. \A i \in 1 .. Len(w) : w[i] \in Uuids
    BY <2>1, MembersOfSeq DEF Windowed
  <2>3. w \in Seq(Uuids)
    <3>1. w \in [1 .. Len(w) -> Uuids] /\ Len(w) \in Nat
      BY <2>1, <2>2
    <3> QED BY <3>1
  <2> QED BY <2>1, <2>3, MembersInIs
<1> QED BY <1>2, <1>3, <1>4, <1>6 DEF ToDefer

(* The recent sessions to reopen when there is no workspace.               *)
LEMMA HistoryRestores ==
    ASSUME DiskOK, NEW wanted,
           \/ \E n \in Nat : wanted = SubSeq(atQuit, 1, Min({n, Len(atQuit)}))
           \/ wanted = <<>> \/ (last \in jsons /\ wanted = <<last>>)
    PROVE  wanted \in Seq(Uuids) /\ MembersIn(wanted, jsons) \in Seq(Uuids)
<1>1. wanted \in Seq(Uuids)
  <2>1. atQuit \in Seq(Uuids) /\ jsons \subseteq Uuids
    BY DEF DiskOK
  <2>2. CASE \E n \in Nat : wanted = SubSeq(atQuit, 1, Min({n, Len(atQuit)}))
    BY <2>1, <2>2, FirstOf
  <2>3. CASE last \in jsons /\ wanted = <<last>>
    BY <2>1, <2>3
  <2>4. <<>> \in Seq(Uuids)
    OBVIOUS
  <2> QED BY <2>2, <2>3, <2>4
<1> QED BY <1>1, MembersInIs

(* What a step leaves of the processes' types.                             *)
LEMMA SessionsStay ==
    ASSUME SessionsOK, NEW p \in Instances, NEW h \in Seq(Uuids), NEW n \in Seq(Uuids), NEW d \in Seq(Windowed),
           hosted' = hosted \/ hosted' = [hosted EXCEPT ![p] = h],
           pending' = pending \/ pending' = [pending EXCEPT ![p] = n],
           deferred' = deferred \/ deferred' = [deferred EXCEPT ![p] = d],
           app' = app \/ \E w : app' = [app EXCEPT ![p] = w],
           undisturbed' \in [Instances -> BOOLEAN],
           DOMAIN draft' = Instances, doc'.windows \in Seq(Windowed), \A q \in Instances : draft'[q].windows \in Seq(Windowed)
    PROVE  SessionsOK'
<1>1. hosted' \in [Instances -> Seq(Uuids)] /\ pending' \in [Instances -> Seq(Uuids)] /\ deferred' \in [Instances -> Seq(Windowed)]
  <2>1. \A A : \A f \in [Instances -> A], x \in A : [f EXCEPT ![p] = x] \in [Instances -> A]
    OBVIOUS
  <2>2. hosted' \in [Instances -> Seq(Uuids)]
    BY <2>1 DEF SessionsOK
  <2>3. pending' \in [Instances -> Seq(Uuids)]
    BY <2>1 DEF SessionsOK
  <2>4. deferred' \in [Instances -> Seq(Windowed)]
    BY <2>1 DEF SessionsOK
  <2> QED BY <2>2, <2>3, <2>4
<1>2. DOMAIN app' = Instances
  BY DEF SessionsOK
<1> QED BY <1>1, <1>2 DEF SessionsOK

(* Every mutation a process asks for is planned.                           *)
LEMMA HistoryStep ==
    ASSUME SessionsOK, HistoryOK, [WorkspaceNext]_workspaceVars
    PROVE  HistoryOK'
<1>0. DiskOK /\ (LockAvailable => AtRest)
  BY MutatorBegins DEF HistoryOK
<1>n. Opens(<<>>) /\ <<>> \in Seq(Writes) /\ (AtRest => Planned(<<>>, <<>>))
  <2>1. Opens(<<>>)
    BY DEF Opens
  <2> QED BY <1>0, <2>1, OpensEnd, PlanAtRest
<1>w. ASSUME NEW us \in Seq(Uuids) PROVE Opens(WriteOpen(us)) /\ WriteOpen(us) \in Seq(Writes) /\ (AtRest => Planned(WriteOpen(us), <<>>))
  <2>1. Opens(WriteOpen(us))
    BY DEF Opens
  <2> QED BY <1>0, <2>1, OpensEnd, PlanAtRest
<1>a. ASSUME NEW us \in Seq(Uuids) PROVE Opens(AddOpen(us)) /\ AddOpen(us) \in Seq(Writes) /\ (AtRest => Planned(AddOpen(us), <<>>))
  <2>1. Opens(AddOpen(us))
    BY <1>0, AddOpens
  <2> QED BY <1>0, <2>1, OpensEnd, PlanAtRest
<1>one. ASSUME NEW u \in Uuids PROVE <<u>> \in Seq(Uuids)
  OBVIOUS
<1>1. CASE UNCHANGED workspaceVars
  <2>1. UNCHANGED historyVars
    BY <1>1 DEF workspaceVars
  <2> QED BY <2>1, HistoryStays
<1>2. ASSUME NEW p \in Instances, CleanupOrphanFiles(p) PROVE HistoryOK'
  <2>1. Mutate(p, CleanupPlan)
    BY <1>2 DEF CleanupOrphanFiles
  <2>2. PICK t : t = CleanupPlan
    OBVIOUS
  <2>3. CASE LockAvailable
    <3>1. t \in Seq(Writes) /\ Planned(t, <<>>)
      BY <1>0, <2>2, <2>3, CleanupPlanned
    <3>2. Mutate(p, t)
      BY <2>1, <2>2 DEF Mutate, Begin
    <3> QED BY <3>1, <3>2, MutateOK
  <2>4. CASE ~LockAvailable
    BY <2>1, <2>4, HistoryStays DEF Mutate, LockFree
  <2> QED BY <2>3, <2>4
<1>3. ASSUME NEW p \in Instances, RestoreFromHistory(p) PROVE HistoryOK'
  <2>1. Mutate(p, WriteOpen(<<>>)) /\ <<>> \in Seq(Uuids)
    BY <1>3 DEF RestoreFromHistory
  <2>2. PICK t : t = WriteOpen(<<>>)
    OBVIOUS
  <2>3. t \in Seq(Writes) /\ (LockAvailable => Planned(t, <<>>))
    BY <1>0, <1>w, <2>1, <2>2
  <2>4. Mutate(p, t)
    BY <2>1, <2>2 DEF Mutate, Begin
  <2> QED BY <2>3, <2>4, MutateOK
<1>4. ASSUME NEW p \in Instances, TouchRestored(p) PROVE HistoryOK'
  <2> DEFINE u == Head(pending[p])
             plan == IF u \notin ToSet(hosted[p]) THEN RemovePlan(u)
                     ELSE IF u \in ToSet(ReadIndex) THEN TouchPlan(u) \o AddOpen(<<u>>) ELSE <<>>
  <2>1. u \in Uuids /\ Mutate(p, plan)
    BY <1>4, TailOf DEF TouchRestored, SessionsOK
  <2> HIDE DEF u
  <2>2. PICK t : t = plan
    OBVIOUS
  <2>3. CASE LockAvailable
    <3>1. RemovePlan(u) \in Seq(Writes) /\ Planned(RemovePlan(u), <<>>)
      BY <1>0, <2>1, <2>3, RemovePlanned
    <3>2. TouchPlan(u) \o AddOpen(<<u>>) \in Seq(Writes) /\ Planned(TouchPlan(u) \o AddOpen(<<u>>), <<>>)
      <4>1. Opens(AddOpen(<<u>>))
        BY <1>a, <1>one, <2>1
      <4> QED BY <1>0, <2>1, <2>3, <4>1, TouchPlanned
    <3>3. t \in Seq(Writes) /\ Planned(t, <<>>)
      BY <1>0, <1>n, <2>2, <2>3, <3>1, <3>2
    <3>4. Mutate(p, t)
      BY <2>1, <2>2 DEF Mutate, Begin
    <3> QED BY <3>3, <3>4, MutateOK
  <2>4. CASE ~LockAvailable
    BY <2>1, <2>4, HistoryStays DEF Mutate, LockFree
  <2> QED BY <2>3, <2>4
<1>5. ASSUME NEW p \in Instances, NEW u \in Uuids, OpenRecentSession(p, u) PROVE HistoryOK'
  <2> DEFINE op == IF p \in Publishers THEN AddOpen(<<u>>) ELSE <<>>
  <2>1. Mutate(p, TouchPlan(u) \o op) \/ Mutate(p, RemovePlan(u))
    BY <1>5 DEF OpenRecentSession
  <2>2. Opens(op)
    BY <1>a, <1>n, <1>one
  <2> HIDE DEF op
  <2>3. CASE LockAvailable
    <3>1. RemovePlan(u) \in Seq(Writes) /\ Planned(RemovePlan(u), <<>>)
      BY <1>0, <2>3, RemovePlanned
    <3>2. TouchPlan(u) \o op \in Seq(Writes) /\ Planned(TouchPlan(u) \o op, <<>>)
      BY <1>0, <2>2, <2>3, TouchPlanned
    <3>3. PICK t \in Seq(Writes) : Planned(t, <<>>) /\ (t = TouchPlan(u) \o op \/ t = RemovePlan(u)) /\ Mutate(p, t)
      BY <2>1, <3>1, <3>2 DEF Mutate, Begin
    <3> QED BY <3>3, MutateOK
  <2>4. CASE ~LockAvailable
    BY <2>1, <2>4, HistoryStays DEF Mutate, LockFree
  <2> QED BY <2>3, <2>4
<1>6. ASSUME NEW p \in Instances, NEW u \in Uuids, CloseTab(p, u) PROVE HistoryOK'
  <2> DEFINE plan == IF p \in Publishers /\ u \in ToSet(atQuit) THEN WriteOpen(Without(atQuit, u)) ELSE <<>>
  <2>1. Mutate(p, plan)
    BY <1>6 DEF CloseTab
  <2>2. Without(atQuit, u) \in Seq(Uuids)
    BY <1>0, WithoutIs DEF DiskOK
  <2>3. PICK t : t = plan
    OBVIOUS
  <2>4. t \in Seq(Writes) /\ (LockAvailable => Planned(t, <<>>))
    BY <1>0, <1>n, <1>w, <2>2, <2>3
  <2>5. Mutate(p, t)
    BY <2>1, <2>3 DEF Mutate, Begin
  <2> QED BY <2>4, <2>5, MutateOK
<1>7. ASSUME NEW p \in Instances, NEW u \in Uuids, NEW same \in BOOLEAN, AutoSave(p, u, same) PROVE HistoryOK'
  <2>1. LockAvailable /\ Begin(p, SnapshotPlan(u, same, p \in Publishers))
    BY <1>7 DEF AutoSave, LockFree
  <2>2. PICK t : t = SnapshotPlan(u, same, p \in Publishers)
    OBVIOUS
  <2>3. (p \in Publishers) \in BOOLEAN
    OBVIOUS
  <2>4. t \in Seq(Writes) /\ Planned(t, <<>>)
    BY <1>0, <2>1, <2>2, <2>3, SnapshotPlanned
  <2>5. Begin(p, t)
    BY <2>1, <2>2 DEF Begin
  <2> QED BY <2>1, <2>4, <2>5, BeginOK
<1>8. ASSUME NEW p \in Instances, ClearRecents(p) PROVE HistoryOK'
  <2> DEFINE active == IF hosted[p] = <<>> THEN None ELSE Last(hosted[p])
             op == IF p \in Publishers /\ active \in ToSet(atQuit) THEN WriteOpen(Without(atQuit, active)) ELSE <<>>
  <2>1. Mutate(p, ClearPlan \o op)
    BY <1>8 DEF ClearRecents
  <2>2. Without(atQuit, active) \in Seq(Uuids)
    <3> HIDE DEF active
    <3> QED BY <1>0, WithoutIs DEF DiskOK
  <2>3. Opens(op)
    BY <1>n, <1>w, <2>2
  <2> HIDE DEF op
  <2>4. PICK t : t = ClearPlan \o op
    OBVIOUS
  <2>5. t \in Seq(Writes) /\ Planned(t, <<>>)
    BY <1>0, <2>3, <2>4, ClearPlanned
  <2>6. Mutate(p, t)
    BY <2>1, <2>4 DEF Mutate, Begin
  <2> QED BY <2>5, <2>6, MutateOK
<1>9. ASSUME NEW p \in Instances, SaveHosted(p) PROVE HistoryOK'
  <2>1. PICK same \in BOOLEAN : Mutate(p, SnapshotPlan(Head(pending[p]), same, FALSE))
    BY <1>9 DEF SaveHosted
  <2>2. PICK u \in Uuids : u = Head(pending[p])
    BY <1>9, TailOf DEF SaveHosted, SessionsOK
  <2>3. PICK t : t = SnapshotPlan(u, same, FALSE)
    OBVIOUS
  <2>4. CASE LockAvailable
    <3>1. t \in Seq(Writes) /\ Planned(t, <<>>)
      BY <1>0, <2>3, <2>4, SnapshotPlanned
    <3>2. Mutate(p, t)
      BY <2>1, <2>2, <2>3 DEF Mutate, Begin
    <3> QED BY <3>1, <3>2, MutateOK
  <2>5. CASE ~LockAvailable
    BY <2>1, <2>5, HistoryStays DEF Mutate, LockFree
  <2> QED BY <2>4, <2>5
<1>10. ASSUME NEW p \in Instances, PublishOpenWindows(p) PROVE HistoryOK'
  <2> DEFINE plan == IF hosted[p] = <<>> THEN <<>> ELSE AddOpen(hosted[p])
  <2>1. Mutate(p, plan) \/ UNCHANGED historyVars
    BY <1>10 DEF PublishOpenWindows
  <2>2. hosted[p] \in Seq(Uuids)
    BY DEF SessionsOK
  <2>3. PICK t : t = plan
    OBVIOUS
  <2>4. t \in Seq(Writes) /\ (LockAvailable => Planned(t, <<>>))
    BY <1>0, <1>n, <1>a, <2>2, <2>3
  <2>5. Mutate(p, t) \/ UNCHANGED historyVars
    BY <2>1, <2>3 DEF Mutate, Begin
  <2> QED BY <2>4, <2>5, MutateOK, HistoryStays
<1>11. ASSUME NEW p \in Instances,
              \/ Start(p) \/ RestoreWorkspace(p) \/ Restored(p) \/ BeginQuit(p)
              \/ WriteGenerationSnapshots(p) \/ WriteManifest(p) \/ CollectSupersededGenerations(p) \/ Exit(p)
       PROVE  HistoryOK'
  <2>1. UNCHANGED historyVars
    BY <1>11 DEF Start, RestoreWorkspace, Restored, BeginQuit, WriteGenerationSnapshots, WriteManifest,
                 CollectSupersededGenerations, Exit
  <2> QED BY <2>1, HistoryStays
<1>12. ASSUME NEW p \in Instances, Crash(p) \/ Write(p) \/ \E u \in Uuids : Vanish(u) PROVE HistoryOK'
  BY <1>12, CrashOK, WriteOK, SaveFailsOK, VanishOK DEF Crash, Write, Vanish
<1> QED BY <1>1, <1>2, <1>3, <1>4, <1>5, <1>6, <1>7, <1>8, <1>9, <1>10, <1>11, <1>12 DEF WorkspaceNext

LEMMA SessionsStep ==
    ASSUME SessionsOK, HistoryOK, [WorkspaceNext]_workspaceVars
    PROVE  SessionsOK'
<1> DEFINE Aside == UNCHANGED <<doc, draft>>
<1>0. DiskOK /\ <<>> \in Seq(Uuids) /\ <<>> \in Seq(Windowed)
  BY DEF HistoryOK
<1>a. Aside => DOMAIN draft' = Instances /\ doc'.windows \in Seq(Windowed) /\ \A q \in Instances : draft'[q].windows \in Seq(Windowed)
  BY DEF SessionsOK
<1>t. ASSUME NEW p \in Instances
      PROVE  /\ hosted[p] \in Seq(Uuids) /\ pending[p] \in Seq(Uuids) /\ (pending[p] # <<>> => Tail(pending[p]) \in Seq(Uuids))
             /\ \A u : Without(hosted[p], u) \in Seq(Uuids)
             /\ \A u \in Uuids : Append(hosted[p], u) \in Seq(Uuids)
  <2>1. hosted[p] \in Seq(Uuids) /\ pending[p] \in Seq(Uuids)
    BY DEF SessionsOK
  <2> QED BY <2>1, TailOf, WithoutIs, AppendProperties
<1>1. CASE UNCHANGED workspaceVars
  BY <1>1 DEF workspaceVars, SessionsOK
<1>2. ASSUME NEW p \in Instances, Start(p) PROVE SessionsOK'
  BY <1>2, <1>0, <1>a, SessionsStay DEF Start, GoTo
<1>3. ASSUME NEW p \in Instances, CleanupOrphanFiles(p) \/ Restored(p) \/ PublishOpenWindows(p) PROVE SessionsOK'
  <2>1. UNCHANGED <<doc, draft, hosted, deferred, pending, undisturbed>> /\ \E w : app' = [app EXCEPT ![p] = w]
    BY <1>3 DEF CleanupOrphanFiles, Restored, PublishOpenWindows, GoTo, workspaceOnly
  <2> QED BY <2>1, <1>0, <1>a, SessionsStay DEF SessionsOK
<1>4. ASSUME NEW p \in Instances, RestoreWorkspace(p) PROVE SessionsOK'
  <2>1. PICK f \in Seq(Uuids) : hosted' = [hosted EXCEPT ![p] = f] /\ pending' = [pending EXCEPT ![p] = f]
    BY <1>4, <1>0, RestoreSplits DEF RestoreWorkspace
  <2>2. /\ UNCHANGED <<doc, draft, undisturbed>> /\ app' = [app EXCEPT ![p] = "touch"]
        /\ deferred' = [deferred EXCEPT ![p] = ToDefer]
    BY <1>4 DEF RestoreWorkspace, GoTo, workspaceOnly
  <2>3. ToDefer \in Seq(Windowed)
    BY <1>0, RestoreSplits
  <2> QED BY <1>a, <2>1, <2>2, <2>3, SessionsStay DEF SessionsOK
<1>5. ASSUME NEW p \in Instances, RestoreFromHistory(p) PROVE SessionsOK'
  <2> DEFINE list == IF LockFree THEN SubSeq(atQuit, 1, Min({RestoreCap, Len(atQuit)})) ELSE <<>>
             wanted == IF list = <<>> /\ last \in jsons THEN <<last>> ELSE list
  <2>1. hosted' = [hosted EXCEPT ![p] = MembersIn(wanted, jsons)] /\ pending' = [pending EXCEPT ![p] = wanted]
    BY <1>5 DEF RestoreFromHistory
  <2>2. wanted \in Seq(Uuids) /\ MembersIn(wanted, jsons) \in Seq(Uuids)
    <3>1. \/ \E n \in Nat : wanted = SubSeq(atQuit, 1, Min({n, Len(atQuit)}))
          \/ wanted = <<>> \/ (last \in jsons /\ wanted = <<last>>)
      BY WorkspaceAssumption
    <3> HIDE DEF wanted
    <3> QED BY <1>0, <3>1, HistoryRestores
  <2> HIDE DEF wanted
  <2>3. UNCHANGED <<doc, draft, undisturbed, deferred>> /\ app' = [app EXCEPT ![p] = "touch"]
    BY <1>5 DEF RestoreFromHistory, GoTo, workspaceOnly
  <2> QED BY <1>0, <1>a, <2>1, <2>2, <2>3, SessionsStay DEF SessionsOK
<1>6. ASSUME NEW p \in Instances, TouchRestored(p) PROVE SessionsOK'
  <2>1. pending[p] # <<>> /\ pending' = [pending EXCEPT ![p] = Tail(pending[p])] /\ UNCHANGED <<doc, draft, undisturbed, deferred, hosted, app>>
    BY <1>6 DEF TouchRestored, workspaceOnly
  <2> QED BY <1>0, <1>a, <1>t, <2>1, SessionsStay DEF SessionsOK
<1>7. ASSUME NEW p \in Instances,
             \/ \E u \in Uuids : OpenRecentSession(p, u) \/ CloseTab(p, u) \/ \E same \in BOOLEAN : AutoSave(p, u, same)
             \/ ClearRecents(p)
      PROVE  SessionsOK'
  <2>1. /\ UNCHANGED <<doc, draft, undisturbed, deferred, pending, app>>
        /\ \/ hosted' = hosted
           \/ \E u : hosted' = [hosted EXCEPT ![p] = Without(hosted[p], u)]
           \/ \E u \in Uuids : hosted' = [hosted EXCEPT ![p] = Append(hosted[p], u)] \/ hosted' = [hosted EXCEPT ![p] = hosted[p]]
    BY <1>7 DEF OpenRecentSession, CloseTab, AutoSave, ClearRecents
  <2>2. \E h \in Seq(Uuids) : hosted' = hosted \/ hosted' = [hosted EXCEPT ![p] = h]
    BY <1>0, <1>t, <2>1
  <2> QED BY <1>0, <1>a, <2>1, <2>2, SessionsStay DEF SessionsOK
<1>8. ASSUME NEW p \in Instances, BeginQuit(p) \/ SaveHosted(p) PROVE SessionsOK'
  <2>1. /\ UNCHANGED <<doc, draft, deferred, hosted>> /\ (app' = app \/ \E w : app' = [app EXCEPT ![p] = w])
        /\ \/ pending' = [pending EXCEPT ![p] = hosted[p]]
           \/ pending[p] # <<>> /\ pending' = [pending EXCEPT ![p] = Tail(pending[p])]
    BY <1>8 DEF BeginQuit, SaveHosted, workspaceOnly, GoTo
  <2>2. \E b \in BOOLEAN : undisturbed' = [undisturbed EXCEPT ![p] = b]
    <3>1. undisturbed[p] \in BOOLEAN
      BY DEF SessionsOK
    <3>2. undisturbed' = [undisturbed EXCEPT ![p] = (Running = {p})] \/ undisturbed' = [undisturbed EXCEPT ![p] = undisturbed[p] /\ LockFree]
      BY <1>8 DEF BeginQuit, SaveHosted
    <3> QED BY <3>1, <3>2
  <2>3. undisturbed' \in [Instances -> BOOLEAN]
    BY <2>2 DEF SessionsOK
  <2> QED BY <1>0, <1>a, <1>t, <2>1, <2>3, SessionsStay
<1>9. ASSUME NEW p \in Instances, WriteGenerationSnapshots(p) PROVE SessionsOK'
  <2> DEFINE all == Merged(hosted[p], deferred[p])
             ws == [i \in 1..Len(all) |-> IF Copyable(all[i]) THEN all[i] ELSE None]
  <2>1. ws \in Seq(Windowed)
    <3>1. hosted[p] \in Seq(Windowed) /\ deferred[p] \in Seq(Windowed)
      BY DEF SessionsOK, Windowed
    <3>2. MembersIn(deferred[p], (ToSet(deferred[p]) \ ToSet(hosted[p])) \union {None}) \in Seq(Windowed)
      BY <3>1, MembersInIs
    <3>3. all \in Seq(Windowed)
      BY <3>1, <3>2, ConcatProperties DEF Merged
    <3> HIDE DEF all
    <3>4. Len(all) \in Nat /\ \A i \in 1 .. Len(all) : all[i] \in Windowed
      BY <3>3
    <3>5. ws \in [1 .. Len(all) -> Windowed]
      BY <3>4 DEF Windowed
    <3> HIDE DEF ws
    <3> QED BY <3>4, <3>5
  <2>2. draft' = [draft EXCEPT ![p] = [generation |-> doc.generation + 1, windows |-> ws]]
    BY <1>9 DEF WriteGenerationSnapshots
  <2> HIDE DEF ws
  <2>3. DOMAIN draft' = Instances /\ \A q \in Instances : draft'[q].windows \in Seq(Windowed)
    BY <2>1, <2>2 DEF SessionsOK
  <2>4. UNCHANGED <<doc, hosted, deferred, pending, undisturbed>> /\ app' = [app EXCEPT ![p] = "write"]
    BY <1>9 DEF WriteGenerationSnapshots, GoTo
  <2> QED BY <1>0, <2>3, <2>4, SessionsStay DEF SessionsOK
<1>10. ASSUME NEW p \in Instances, WriteManifest(p) \/ CollectSupersededGenerations(p) PROVE SessionsOK'
  <2>1. /\ UNCHANGED <<draft, hosted, deferred, pending, undisturbed>> /\ (doc' = doc \/ doc' = draft[p])
        /\ \E w : app' = [app EXCEPT ![p] = w]
    BY <1>10 DEF WriteManifest, CollectSupersededGenerations, GoTo
  <2> QED BY <1>0, <2>1, SessionsStay DEF SessionsOK
<1>11. ASSUME NEW p \in Instances, Exit(p) \/ Crash(p) PROVE SessionsOK'
  <2>1. /\ UNCHANGED <<doc, draft, undisturbed>> /\ app' = [app EXCEPT ![p] = "off"]
        /\ hosted' = [hosted EXCEPT ![p] = <<>>] /\ deferred' = [deferred EXCEPT ![p] = <<>>] /\ pending' = [pending EXCEPT ![p] = <<>>]
    BY <1>11 DEF Exit, Crash, Gone, GoTo, workspaceOnly
  <2> QED BY <1>0, <1>a, <2>1, SessionsStay DEF SessionsOK
<1>12. ASSUME NEW p \in Instances, NEW u \in Uuids, Vanish(u) PROVE SessionsOK'
  BY <1>12, <1>0, <1>a, SessionsStay DEF Vanish, workspaceOnly
<1>13. ASSUME NEW p \in Instances, Write(p) PROVE SessionsOK'
  <2>1. /\ UNCHANGED <<doc, draft, deferred, pending, app>>
        /\ undisturbed' = undisturbed \/ undisturbed' = [undisturbed EXCEPT ![p] = FALSE]
        /\ \/ hosted' = hosted \/ \E u : hosted' = [hosted EXCEPT ![p] = Without(hosted[p], u)]
           \/ hosted' = [hosted EXCEPT ![p] = hosted[p]]
    BY <1>13 DEF Write, workspaceOnly
  <2>2. undisturbed' \in [Instances -> BOOLEAN]
    BY <2>1 DEF SessionsOK
  <2>3. \E h \in Seq(Uuids) : hosted' = hosted \/ hosted' = [hosted EXCEPT ![p] = h]
    BY <1>0, <1>t, <2>1
  <2> QED BY <1>0, <1>a, <2>1, <2>2, <2>3, SessionsStay
<1> QED BY <1>1, <1>2, <1>3, <1>4, <1>5, <1>6, <1>7, <1>8, <1>9, <1>10, <1>11, <1>12, <1>13 DEF WorkspaceNext

LEMMA WorkspaceTypes == WorkspaceInit => SessionsOK
<1> SUFFICES ASSUME WorkspaceInit PROVE SessionsOK
  OBVIOUS
<1>1. <<>> \in Seq(Uuids) /\ <<>> \in Seq(Windowed) /\ doc.windows = <<>>
  BY DEF WorkspaceInit
<1>2. hosted \in [Instances -> Seq(Uuids)] /\ pending \in [Instances -> Seq(Uuids)]
  BY <1>1 DEF WorkspaceInit
<1>3. deferred \in [Instances -> Seq(Windowed)] /\ undisturbed \in [Instances -> BOOLEAN]
  BY <1>1 DEF WorkspaceInit
<1> QED BY <1>1, <1>2, <1>3 DEF SessionsOK, WorkspaceInit

(* Two processes that save, touch, remove, clear and sweep recent sessions *)
(* and that die between any two writes leave an index whose entries open,  *)
(* which lost one entry at most and whose head is the last session.        *)
THEOREM RecentsStayWhole == WorkspaceSpec => []RecentsListWhole
<1>1. WorkspaceInit => SessionsOK /\ HistoryOK
  BY WorkspaceTypes, HistoryInitOK DEF WorkspaceInit
<1>2. SessionsOK /\ HistoryOK /\ [WorkspaceNext]_workspaceVars => SessionsOK' /\ HistoryOK'
  BY HistoryStep, SessionsStep
<1>3. HistoryOK => RecentsListWhole
  <2> SUFFICES ASSUME HistoryOK PROVE RecentsListWhole
    OBVIOUS
  <2>1. slots \in Seq(Uuids) /\ atQuit \in Seq(Uuids)
    BY DEF HistoryOK, DiskOK
  <2>2. ToSet(slots) \subseteq Uuids /\ ToSet(atQuit) \subseteq Uuids
    BY <2>1, MembersOfSeq
  <2> QED BY <2>2 DEF HistoryOK, DiskOK, LockOK, RecentsListWhole, HistoryTypeOK, ListedSessionsHaveFiles,
                      CrashCostsOneEntry, LastIsNewest
<1> QED BY <1>1, <1>2, <1>3, PTL DEF WorkspaceSpec

-----------------------------------------------------------------------------
(* 7. The windows of the last quit.  What no other process can disturb:    *)
(* while a process saves its sessions, the ones saved so far are kept.     *)
SavedSoFar(p) ==
    \E K \in Seq(Uuids) :
        /\ Len(K) + Len(pending[p]) = Len(hosted[p]) /\ hosted[p] = K \o pending[p]
        /\ Planned(todo[p], K)

QuitOK ==
    /\ \A p \in Instances : app[p] = "off" => todo[p] = <<>>
    /\ \A p, q \in Instances : undisturbed[p] /\ app[q] # "off" => q = p
    /\ \A p \in Instances : undisturbed[p] /\ Len(hosted[p]) <= MaxEntries =>
          /\ app[p] \in {"save", "copy"} => SavedSoFar(p) /\ (app[p] = "copy" => pending[p] = <<>>)
          /\ app[p] = "write" => ToSet(hosted[p]) \subseteq ToSet(draft[p].windows)
          /\ app[p] = "collect" => ToSet(hosted[p]) \subseteq ToSet(doc.windows)

(* The deferred windows have their copies in the published generation.     *)
Copied(ws) == \A u \in ToSet(ws) \ {None} : doc.generation \in DOMAIN generations /\ u \in generations[doc.generation]

DeferOK ==
    \A p \in Publishers :
        /\ app[p] \in {"off", "sweep", "load"} => deferred[p] = <<>>
        /\ app[p] \in {"touch", "run", "save", "copy"} => Copied(deferred[p])
        /\ app[p] = "write" => ToSet(deferred[p]) \ {None} \subseteq ToSet(draft[p].windows)
        /\ app[p] = "collect" => ToSet(deferred[p]) \ {None} \subseteq ToSet(doc.windows)

LEMMA JoinedMembers ==
    ASSUME NEW A, NEW s \in Seq(A), NEW t \in Seq(A)
    PROVE  s \o t \in Seq(A) /\ ToSet(s) \subseteq ToSet(s \o t) /\ ToSet(t) \subseteq ToSet(s \o t)
<1> DEFINE c == s \o t
<1>1. /\ c \in Seq(A) /\ Len(c) = Len(s) + Len(t) /\ Len(s) \in Nat /\ Len(t) \in Nat
      /\ \A i \in 1 .. Len(s) + Len(t) : c[i] = IF i <= Len(s) THEN s[i] ELSE t[i - Len(s)]
  BY ConcatProperties
<1> HIDE DEF c
<1>2. ASSUME NEW i \in 1 .. Len(s) PROVE s[i] \in ToSet(c)
  <2>1. i \in 1 .. Len(c) /\ c[i] = s[i]
    BY <1>1
  <2> QED BY <1>1, <2>1, MembersOfSeq
<1>3. ASSUME NEW i \in 1 .. Len(t) PROVE t[i] \in ToSet(c)
  <2>1. Len(s) + i \in 1 .. Len(c) /\ ~(Len(s) + i <= Len(s)) /\ (Len(s) + i) - Len(s) = i
    BY <1>1
  <2>2. c[Len(s) + i] = t[i]
    BY <1>1, <2>1
  <2> QED BY <1>1, <2>1, <2>2, MembersOfSeq
<1>4. ToSet(s) \subseteq ToSet(c) /\ ToSet(t) \subseteq ToSet(c)
  BY <1>2, <1>3, MembersOfSeq
<1> QED BY <1>1, <1>4 DEF c

(* The windows of the next generation: those with a copy to take.          *)
LEMMA NextWindows ==
    ASSUME SessionsOK, NEW p \in Instances, WriteGenerationSnapshots(p)
    PROVE  \A u \in (ToSet(hosted[p]) \cup ToSet(deferred[p])) \ {None} :
              Restorable(u) => u \in ToSet(draft'[p].windows)
<1> DEFINE all == Merged(hosted[p], deferred[p])
           ws == [i \in 1..Len(all) |-> IF Copyable(all[i]) THEN all[i] ELSE None]
           kept == MembersIn(deferred[p], (ToSet(deferred[p]) \ ToSet(hosted[p])) \union {None})
<1>1. hosted[p] \in Seq(Windowed) /\ deferred[p] \in Seq(Windowed)
  BY DEF SessionsOK, Windowed
<1>2. kept \in Seq(Windowed) /\ ToSet(kept) = ToSet(deferred[p]) \cap ((ToSet(deferred[p]) \ ToSet(hosted[p])) \union {None})
  BY <1>1, MembersInIs
<1>3. all = hosted[p] \o kept
  BY DEF Merged
<1> HIDE DEF kept
<1>4. all \in Seq(Windowed) /\ ToSet(hosted[p]) \subseteq ToSet(all) /\ ToSet(kept) \subseteq ToSet(all)
  BY <1>1, <1>2, <1>3, JoinedMembers
<1>5. draft'[p].windows = ws
  <2>1. draft' = [draft EXCEPT ![p] = [generation |-> doc.generation + 1, windows |-> ws]]
    BY DEF WriteGenerationSnapshots
  <2> HIDE DEF ws
  <2> QED BY <2>1 DEF SessionsOK
<1> SUFFICES ASSUME NEW u \in (ToSet(hosted[p]) \cup ToSet(deferred[p])) \ {None}, Restorable(u)
             PROVE  u \in ToSet(ws)
  BY <1>5
<1>6. u \in ToSet(all)
  BY <1>2, <1>4
<1> HIDE DEF all
<1>7. PICK i \in 1 .. Len(all) : u = all[i]
  BY <1>4, <1>6, MembersOfSeq
<1>8. ws[i] = u /\ i \in DOMAIN ws
  BY <1>7 DEF Copyable
<1> QED BY <1>8 DEF ToSet

LEMMA DeferStep ==
    ASSUME \A p, q \in Publishers : p = q, SessionsOK, HistoryOK, PublishInv, DeferOK, [WorkspaceNext]_workspaceVars
    PROVE  DeferOK'
<1> DEFINE Goal(q) == /\ app'[q] \in {"off", "sweep", "load"} => deferred'[q] = <<>>
                      /\ app'[q] \in {"touch", "run", "save", "copy"} => Copied(deferred[q])'
                      /\ app'[q] = "write" => ToSet(deferred'[q]) \ {None} \subseteq ToSet(draft'[q].windows)
                      /\ app'[q] = "collect" => ToSet(deferred'[q]) \ {None} \subseteq ToSet(doc'.windows)
<1> SUFFICES ASSUME NEW q \in Publishers
             PROVE  Goal(q)
  BY DEF DeferOK
<1>0. q \in Instances
  BY HistoryAssumption
<1>1. /\ app[q] \in {"off", "sweep", "load"} => deferred[q] = <<>>
      /\ app[q] \in {"touch", "run", "save", "copy"} => Copied(deferred[q])
      /\ app[q] = "write" => ToSet(deferred[q]) \ {None} \subseteq ToSet(draft[q].windows)
      /\ app[q] = "collect" => ToSet(deferred[q]) \ {None} \subseteq ToSet(doc.windows)
  BY DEF DeferOK
<1>2. Copied(<<>>)'
  BY DEF Copied, ToSet
<1>3. ASSUME UNCHANGED <<doc, generations>>, deferred'[q] = deferred[q], Copied(deferred[q]) PROVE Copied(deferred[q])'
  BY <1>3 DEF Copied
<1>4. ASSUME UNCHANGED <<doc, generations>>, deferred'[q] = deferred[q], draft'[q] = draft[q],
             \/ app'[q] = app[q] \/ (app[q] \in {"off", "sweep"} /\ app'[q] \in {"sweep", "load"})
             \/ (app[q] \in {"touch", "run", "save"} /\ app'[q] \in {"touch", "run", "save", "copy"})
             \/ app'[q] = "exit"
      PROVE  Goal(q)
  BY <1>1, <1>3, <1>4
<1>5. CASE UNCHANGED workspaceVars
  BY <1>4, <1>5 DEF workspaceVars
<1>6. ASSUME NEW p \in Instances,
             \/ Start(p) \/ CleanupOrphanFiles(p) \/ TouchRestored(p) \/ Restored(p)
             \/ \E u \in Uuids : OpenRecentSession(p, u) \/ CloseTab(p, u) \/ \E same \in BOOLEAN : AutoSave(p, u, same)
             \/ ClearRecents(p) \/ BeginQuit(p) \/ SaveHosted(p) \/ PublishOpenWindows(p)
             \/ Write(p) \/ \E u \in Uuids : Vanish(u)
      PROVE  Goal(q)
  <2>1. UNCHANGED <<doc, generations, draft, deferred>>
    BY <1>6 DEF Start, CleanupOrphanFiles, TouchRestored, Restored, OpenRecentSession, CloseTab, AutoSave, ClearRecents,
                BeginQuit, SaveHosted, PublishOpenWindows, Write, Vanish, workspaceOnly
  <2>2. \/ app' = app
        \/ app[p] = "off" /\ app' = [app EXCEPT ![p] = "sweep"]
        \/ app[p] = "sweep" /\ app' = [app EXCEPT ![p] = IF p \in Publishers THEN "load" ELSE "run"]
        \/ app[p] = "touch" /\ app' = [app EXCEPT ![p] = "run"]
        \/ app[p] = "run" /\ app' = [app EXCEPT ![p] = "save"]
        \/ app[p] = "save" /\ (app' = [app EXCEPT ![p] = "copy"] \/ app' = [app EXCEPT ![p] = "exit"])
    BY <1>6 DEF Start, CleanupOrphanFiles, TouchRestored, Restored, OpenRecentSession, CloseTab, AutoSave, ClearRecents,
                BeginQuit, SaveHosted, PublishOpenWindows, Write, Vanish, workspaceOnly, GoTo, Idle
  <2>3. \/ app'[q] = app[q] \/ (app[q] \in {"off", "sweep"} /\ app'[q] \in {"sweep", "load"})
        \/ (app[q] \in {"touch", "run", "save"} /\ app'[q] \in {"touch", "run", "save", "copy"})
        \/ app'[q] = "exit"
    BY <1>0, <2>2 DEF SessionsOK
  <2> QED BY <1>4, <2>1, <2>3
<1>7. ASSUME NEW p \in Instances, RestoreWorkspace(p) \/ RestoreFromHistory(p)
      PROVE  Goal(q)
  <2>1. /\ app[p] = "load" /\ app' = [app EXCEPT ![p] = "touch"] /\ UNCHANGED <<doc, generations, draft>>
        /\ deferred' = deferred \/ deferred' = [deferred EXCEPT ![p] = ToDefer]
    BY <1>7 DEF RestoreWorkspace, RestoreFromHistory, Idle, GoTo, workspaceOnly
  <2>2. CASE q # p
    <3>1. app'[q] = app[q] /\ deferred'[q] = deferred[q] /\ draft'[q] = draft[q]
      BY <1>0, <2>1, <2>2 DEF SessionsOK
    <3> QED BY <1>4, <2>1, <3>1
  <2>3. CASE q = p
    <3>1. app'[q] = "touch" /\ (deferred'[q] = <<>> \/ deferred'[q] = ToDefer)
      BY <1>0, <1>1, <2>1, <2>3 DEF SessionsOK
    <3>2. ToSet(ToDefer) \subseteq ToSet(doc.windows)
      BY RestoreSplits DEF HistoryOK
    <3>3. Copied(ToDefer)
      BY <3>2 DEF Copied, PublishInv, HasItsSnapshots
    <3>4. Copied(deferred[q])'
      BY <1>2, <2>1, <3>1, <3>3 DEF Copied
    <3> QED BY <3>1, <3>4
  <2> QED BY <2>2, <2>3
<1>8. ASSUME NEW p \in Instances, WriteGenerationSnapshots(p)
      PROVE  Goal(q)
  <2>1. app[p] = "copy" /\ app' = [app EXCEPT ![p] = "write"] /\ deferred' = deferred
    BY <1>8 DEF WriteGenerationSnapshots, Idle, GoTo
  <2>2. q = p
    BY <2>1 DEF PublishInv, Publishing
  <2>3. app'[q] = "write" /\ Copied(deferred[q])
    BY <1>0, <1>1, <2>1, <2>2 DEF SessionsOK
  <2>4. \A u \in ToSet(deferred[q]) \ {None} : Restorable(u)
    BY <2>3 DEF Copied, Restorable
  <2>5. ToSet(deferred[q]) \ {None} \subseteq ToSet(draft'[q].windows)
    BY <1>8, <2>2, <2>4, NextWindows
  <2> QED BY <2>1, <2>3, <2>5
<1>9. ASSUME NEW p \in Instances, WriteManifest(p) \/ CollectSupersededGenerations(p)
      PROVE  Goal(q)
  <2>1. /\ app[p] \in {"write", "collect"} /\ deferred' = deferred
        /\ \/ app[p] = "write" /\ doc' = draft[p] /\ app' = [app EXCEPT ![p] = "collect"]
           \/ app' = [app EXCEPT ![p] = "exit"]
    BY <1>9 DEF WriteManifest, CollectSupersededGenerations, Idle, GoTo
  <2>2. q = p
    BY <2>1 DEF PublishInv, Publishing
  <2> QED BY <1>0, <1>1, <2>1, <2>2 DEF SessionsOK
<1>10. ASSUME NEW p \in Instances, Exit(p) \/ Crash(p)
       PROVE  Goal(q)
  <2>1. UNCHANGED <<doc, generations, draft>> /\ app' = [app EXCEPT ![p] = "off"] /\ deferred' = [deferred EXCEPT ![p] = <<>>]
    BY <1>10 DEF Exit, Crash, Gone, GoTo, workspaceOnly
  <2>2. CASE q # p
    <3>1. app'[q] = app[q] /\ deferred'[q] = deferred[q]
      BY <1>0, <2>1, <2>2 DEF SessionsOK
    <3> QED BY <1>4, <2>1, <3>1
  <2>3. CASE q = p
    <3>1. app'[q] = "off" /\ deferred'[q] = <<>>
      BY <1>0, <2>1, <2>3 DEF SessionsOK
    <3> QED BY <3>1
  <2> QED BY <2>2, <2>3
<1> QED BY <1>5, <1>6, <1>7, <1>8, <1>9, <1>10 DEF WorkspaceNext

(* A process that only another's step could disturb takes the step itself. *)
LEMMA OnlyItself ==
    ASSUME SessionsOK, QuitOK, WorkspaceNext, NEW q \in Instances, undisturbed'[q]
    PROVE  \/ \E p \in Instances : BeginQuit(p) /\ q = p /\ Running = {p}
           \/ undisturbed[q] /\ ~ BeginQuit(q)
              /\ \/ CleanupOrphanFiles(q) \/ RestoreWorkspace(q) \/ RestoreFromHistory(q)
                 \/ TouchRestored(q) \/ Restored(q)
                 \/ \E u \in Uuids : OpenRecentSession(q, u) \/ CloseTab(q, u) \/ \E same \in BOOLEAN : AutoSave(q, u, same)
                 \/ ClearRecents(q)
                 \/ (SaveHosted(q) /\ LockFree) \/ PublishOpenWindows(q)
                 \/ WriteGenerationSnapshots(q) \/ WriteManifest(q) \/ CollectSupersededGenerations(q)
                 \/ Exit(q) \/ Crash(q) \/ (Write(q) /\ WriteStep(q))
<1>1. ASSUME NEW p \in Instances, Start(p) \/ \E u \in Uuids : Vanish(u) PROVE FALSE
  BY <1>1 DEF Start, Vanish
<1>2. ASSUME NEW p \in Instances, BeginQuit(p), q # p PROVE undisturbed[q] /\ app[p] # "off"
  BY <1>2 DEF BeginQuit, Idle, SessionsOK
<1>3. ASSUME NEW p \in Instances, BeginQuit(p), q = p PROVE Running = {p}
  BY <1>3 DEF BeginQuit, SessionsOK
<1>4. ASSUME NEW p \in Instances,
             \/ CleanupOrphanFiles(p) \/ RestoreWorkspace(p) \/ RestoreFromHistory(p)
             \/ TouchRestored(p) \/ Restored(p)
             \/ \E u \in Uuids : OpenRecentSession(p, u) \/ CloseTab(p, u) \/ \E same \in BOOLEAN : AutoSave(p, u, same)
             \/ ClearRecents(p) \/ PublishOpenWindows(p)
             \/ WriteGenerationSnapshots(p) \/ WriteManifest(p) \/ CollectSupersededGenerations(p)
             \/ Exit(p) \/ Crash(p)
      PROVE  undisturbed[q] /\ app[p] # "off"
  BY <1>4 DEF CleanupOrphanFiles, RestoreWorkspace, RestoreFromHistory, TouchRestored, Restored, OpenRecentSession, CloseTab,
              AutoSave, ClearRecents, PublishOpenWindows, WriteGenerationSnapshots, WriteManifest,
              CollectSupersededGenerations, Exit, Crash, Edit, Idle
<1>5. ASSUME NEW p \in Instances, SaveHosted(p) PROVE undisturbed[q] /\ app[p] # "off" /\ (q = p => LockFree)
  BY <1>5 DEF SaveHosted, Idle, SessionsOK
<1>6. ASSUME NEW p \in Instances, Write(p) PROVE undisturbed[q] /\ app[p] # "off" /\ (q = p => WriteStep(p))
  <2>1. todo[p] # <<>>
    BY <1>6 DEF Write, WriteStep, SaveFails
  <2>2. app[p] # "off"
    BY <2>1 DEF QuitOK
  <2> QED BY <1>6, <2>2 DEF Write, SessionsOK
<1>7. ASSUME NEW p \in Instances, undisturbed[q], app[p] # "off" PROVE p = q
  BY <1>7 DEF QuitOK
<1>8. PICK p \in Instances :
        \/ Start(p) \/ CleanupOrphanFiles(p) \/ RestoreWorkspace(p) \/ RestoreFromHistory(p)
        \/ TouchRestored(p) \/ Restored(p)
        \/ \E u \in Uuids : OpenRecentSession(p, u) \/ CloseTab(p, u) \/ \E same \in BOOLEAN : AutoSave(p, u, same)
        \/ ClearRecents(p)
        \/ BeginQuit(p) \/ SaveHosted(p) \/ PublishOpenWindows(p)
        \/ WriteGenerationSnapshots(p) \/ WriteManifest(p) \/ CollectSupersededGenerations(p)
        \/ Exit(p) \/ Crash(p) \/ Write(p)
        \/ \E u \in Uuids : Vanish(u)
  BY Zenon DEF WorkspaceNext
<1>9. CASE BeginQuit(p)
  BY <1>2, <1>3, <1>7, <1>9
<1>10. CASE ~BeginQuit(p)
  <2>1. undisturbed[q] /\ app[p] # "off"
    BY <1>1, <1>4, <1>5, <1>6, <1>8, <1>10
  <2>2. p = q
    BY <1>7, <2>1
  <2> QED BY <1>1, <1>5, <1>6, <1>8, <1>10, <2>1, <2>2
<1> QED BY <1>9, <1>10

LEMMA Alone ==
    ASSUME SessionsOK, HistoryOK, QuitOK, [WorkspaceNext]_workspaceVars
    PROVE  /\ \A p \in Instances : app'[p] = "off" => todo'[p] = <<>>
           /\ \A p, q \in Instances : undisturbed'[p] /\ app'[q] # "off" => q = p
<1>0. /\ \A p \in Instances : app[p] = "off" => todo[p] = <<>>
      /\ \A p, q \in Instances : undisturbed[p] /\ app[q] # "off" => q = p
      /\ DOMAIN app = Instances /\ todo \in [Instances -> Seq(Writes)]
  BY DEF QuitOK, SessionsOK, HistoryOK, LockOK
<1>1. CASE UNCHANGED workspaceVars
  BY <1>0, <1>1 DEF workspaceVars, historyVars
<1>2. CASE WorkspaceNext
  <2>1. ASSUME NEW p \in Instances, app'[p] = "off" PROVE todo'[p] = <<>>
    <3>1. PICK r \in Instances :
            \/ Start(r) \/ CleanupOrphanFiles(r) \/ RestoreWorkspace(r) \/ RestoreFromHistory(r)
            \/ TouchRestored(r) \/ Restored(r)
            \/ \E u \in Uuids : OpenRecentSession(r, u) \/ CloseTab(r, u) \/ \E same \in BOOLEAN : AutoSave(r, u, same)
            \/ ClearRecents(r)
            \/ BeginQuit(r) \/ SaveHosted(r) \/ PublishOpenWindows(r)
            \/ WriteGenerationSnapshots(r) \/ WriteManifest(r) \/ CollectSupersededGenerations(r)
            \/ Exit(r) \/ Crash(r) \/ Write(r)
            \/ \E u \in Uuids : Vanish(u)
      BY <1>2, Zenon DEF WorkspaceNext
    <3>2. CASE Exit(r) \/ Crash(r)
      BY <1>0, <2>1, <3>2 DEF Exit, Crash, CrashHistory, Gone, GoTo, Idle, historyVars
    <3>3. CASE Write(r)
      <4>1. app' = app /\ todo[r] # <<>> /\ \E t : todo' = [todo EXCEPT ![r] = t]
        BY <3>3 DEF Write, WriteStep, SaveFails
      <4> QED BY <1>0, <2>1, <4>1
    <3>4. CASE \E u \in Uuids : Vanish(u)
      BY <1>0, <2>1, <3>4 DEF Vanish, JsonVanishes
    <3>5. CASE \/ Start(r) \/ RestoreWorkspace(r) \/ Restored(r) \/ BeginQuit(r)
               \/ WriteGenerationSnapshots(r) \/ WriteManifest(r) \/ CollectSupersededGenerations(r)
      <4>1. todo' = todo /\ \E w : w # "off" /\ app' = [app EXCEPT ![r] = w]
        BY <3>5 DEF Start, RestoreWorkspace, Restored, BeginQuit, WriteGenerationSnapshots, WriteManifest,
                    CollectSupersededGenerations, GoTo, historyVars
      <4> QED BY <1>0, <2>1, <4>1
    <3>6. CASE \/ CleanupOrphanFiles(r) \/ RestoreFromHistory(r) \/ TouchRestored(r)
               \/ \E u \in Uuids : OpenRecentSession(r, u) \/ CloseTab(r, u) \/ \E same \in BOOLEAN : AutoSave(r, u, same)
               \/ ClearRecents(r) \/ SaveHosted(r) \/ PublishOpenWindows(r)
      <4>1. app[r] # "off"
        BY <3>6 DEF CleanupOrphanFiles, RestoreFromHistory, TouchRestored, OpenRecentSession, CloseTab, AutoSave, ClearRecents,
                    SaveHosted, PublishOpenWindows, Edit, Idle
      <4>2. app' = app \/ \E w : w # "off" /\ app' = [app EXCEPT ![r] = w]
        BY <3>6 DEF CleanupOrphanFiles, RestoreFromHistory, TouchRestored, OpenRecentSession, CloseTab, AutoSave, ClearRecents,
                    SaveHosted, PublishOpenWindows, GoTo, workspaceOnly
      <4>3. todo' = todo \/ \E t : todo' = [todo EXCEPT ![r] = t]
        BY <3>6 DEF CleanupOrphanFiles, RestoreFromHistory, TouchRestored, OpenRecentSession, CloseTab, AutoSave, ClearRecents,
                    SaveHosted, PublishOpenWindows, Mutate, Begin, historyVars
      <4> QED BY <1>0, <2>1, <4>1, <4>2, <4>3
    <3> QED BY <3>1, <3>2, <3>3, <3>4, <3>5, <3>6
  <2>2. ASSUME NEW p \in Instances, NEW q \in Instances, undisturbed'[p], app'[q] # "off" PROVE q = p
    <3>1. app[q] # "off" \/ \E r \in Instances : Start(r)
      <4>1. PICK r \in Instances :
            \/ Start(r) \/ CleanupOrphanFiles(r) \/ RestoreWorkspace(r) \/ RestoreFromHistory(r)
            \/ TouchRestored(r) \/ Restored(r)
            \/ \E u \in Uuids : OpenRecentSession(r, u) \/ CloseTab(r, u) \/ \E same \in BOOLEAN : AutoSave(r, u, same)
            \/ ClearRecents(r)
            \/ BeginQuit(r) \/ SaveHosted(r) \/ PublishOpenWindows(r)
            \/ WriteGenerationSnapshots(r) \/ WriteManifest(r) \/ CollectSupersededGenerations(r)
            \/ Exit(r) \/ Crash(r) \/ Write(r)
            \/ \E u \in Uuids : Vanish(u)
        BY <1>2, Zenon DEF WorkspaceNext
      <4>2. \/ Start(r) \/ app' = app \/ (app[r] # "off" /\ \E w : app' = [app EXCEPT ![r] = w])
        BY <4>1 DEF CleanupOrphanFiles, RestoreWorkspace, RestoreFromHistory, TouchRestored, Restored, OpenRecentSession,
                    CloseTab, AutoSave, ClearRecents, BeginQuit, SaveHosted, PublishOpenWindows, WriteGenerationSnapshots,
                    WriteManifest, CollectSupersededGenerations, Exit, Crash, Write, Vanish, Gone, GoTo, Idle, Edit, workspaceOnly
      <4> QED BY <1>0, <2>2, <4>2
    <3>2. CASE \E r \in Instances : Start(r)
      BY <2>2, <3>2 DEF Start
    <3>3. CASE undisturbed[p] /\ app[q] # "off"
      BY <1>0, <3>3
    <3>4. CASE Running = {p} /\ app[q] # "off"
      BY <3>4 DEF Running
    <3> QED BY <1>2, <2>2, <3>1, <3>2, <3>3, <3>4, OnlyItself
  <2> QED BY <2>1, <2>2
<1> QED BY <1>1, <1>2

LEMMA PlanDone ==
    ASSUME NEW K, Planned(<<>>, K)
    PROVE  Keeps(ReadIndex, K, {})
<1>1. PICK F \in Seq(Uuids) : Leads(<<>>, F, K)
  BY DEF Planned
<1> QED BY <1>1 DEF Leads, Saves, WritesIndex, NamesSize

(* The next session moves from those still to save to those saved.         *)
LEMMA NextSaved ==
    ASSUME NEW A, NEW K \in Seq(A), NEW s \in Seq(A), s # <<>>
    PROVE  /\ Append(K, Head(s)) \in Seq(A) /\ Append(K, Head(s)) \o Tail(s) = K \o s
           /\ Len(Append(K, Head(s))) + Len(Tail(s)) = Len(K) + Len(s) /\ Len(K) + 1 <= Len(K) + Len(s)
<1> DEFINE u == Head(s)
           r == Tail(s)
           L == Append(K, u)
<1>1. /\ r \in Seq(A) /\ Len(s) \in Nat \ {0} /\ Len(r) = Len(s) - 1 /\ u = s[1]
      /\ \A i \in 1 .. Len(s) - 1 : i + 1 \in 1 .. Len(s) /\ r[i] = s[i + 1]
  BY OneWritten
<1>2. u \in A /\ Len(K) \in Nat
  BY HeadTailProperties
<1> HIDE DEF u, r
<1>3. /\ L \in Seq(A) /\ Len(L) = Len(K) + 1
      /\ \A i \in 1 .. Len(K) : L[i] = K[i]
      /\ L[Len(K) + 1] = u
  BY <1>2, AppendProperties
<1> HIDE DEF L
<1>4. /\ K \o s \in Seq(A) /\ Len(K \o s) = Len(K) + Len(s)
      /\ \A i \in 1 .. Len(K) + Len(s) : (K \o s)[i] = IF i <= Len(K) THEN K[i] ELSE s[i - Len(K)]
  BY ConcatProperties
<1>5. /\ L \o r \in Seq(A) /\ Len(L \o r) = Len(L) + Len(r)
      /\ \A i \in 1 .. Len(L) + Len(r) : (L \o r)[i] = IF i <= Len(L) THEN L[i] ELSE r[i - Len(L)]
  BY <1>1, <1>3, ConcatProperties
<1>6. PICK k \in Nat, n \in Nat : k = Len(K) /\ n = Len(r) /\ Len(s) = n + 1 /\ Len(L) = k + 1
  BY <1>1, <1>2, <1>3
<1>7. ASSUME NEW i \in 1 .. k + n + 1 PROVE (L \o r)[i] = (K \o s)[i]
  <2>1. /\ (L \o r)[i] = IF i <= k + 1 THEN L[i] ELSE r[i - (k + 1)]
        /\ (K \o s)[i] = IF i <= k THEN K[i] ELSE s[i - k]
    BY <1>4, <1>5, <1>6
  <2>2. CASE i <= k
    BY <1>3, <1>6, <2>1, <2>2
  <2>3. CASE i = k + 1
    <3>1. i - k = 1 /\ ~(i <= k)
      BY <2>3
    <3> QED BY <1>1, <1>3, <1>6, <2>1, <2>3, <3>1
  <2>4. CASE i > k + 1
    <3>1. i - (k + 1) \in 1 .. Len(s) - 1 /\ (i - (k + 1)) + 1 = i - k /\ ~(i <= k + 1) /\ ~(i <= k)
      BY <1>6, <2>4
    <3> QED BY <1>1, <2>1, <3>1
  <2>5. i <= k \/ i = k + 1 \/ i > k + 1
    BY <1>6
  <2> QED BY <2>2, <2>3, <2>4, <2>5
<1>8. L \o r = K \o s
  <2>1. Len(L \o r) = k + n + 1 /\ Len(K \o s) = k + n + 1
    BY <1>4, <1>5, <1>6
  <2> QED BY <1>4, <1>5, <1>7, <2>1, SeqEqual
<1>9. Len(L) + Len(r) = Len(K) + Len(s) /\ Len(K) + 1 <= Len(K) + Len(s)
  BY <1>6
<1> QED BY <1>3, <1>8, <1>9 DEF L, u, r

LEMMA QuitStep ==
    ASSUME SessionsOK, HistoryOK, QuitOK, [WorkspaceNext]_workspaceVars
    PROVE  QuitOK'
<1> DEFINE Goal(q) == /\ app'[q] \in {"save", "copy"} => SavedSoFar(q)' /\ (app'[q] = "copy" => pending'[q] = <<>>)
                      /\ app'[q] = "write" => ToSet(hosted'[q]) \subseteq ToSet(draft'[q].windows)
                      /\ app'[q] = "collect" => ToSet(hosted'[q]) \subseteq ToSet(doc'.windows)
<1>1. SUFFICES ASSUME NEW q \in Instances, undisturbed'[q], Len(hosted'[q]) <= MaxEntries
               PROVE  Goal(q)
  BY Alone DEF QuitOK
<1>2. /\ DiskOK /\ DOMAIN app = Instances /\ todo \in [Instances -> Seq(Writes)]
      /\ hosted \in [Instances -> Seq(Uuids)] /\ pending \in [Instances -> Seq(Uuids)]
  BY DEF SessionsOK, HistoryOK, LockOK
<1>3. ASSUME undisturbed[q], Len(hosted[q]) <= MaxEntries
      PROVE  /\ app[q] \in {"save", "copy"} => SavedSoFar(q) /\ (app[q] = "copy" => pending[q] = <<>>)
             /\ app[q] = "write" => ToSet(hosted[q]) \subseteq ToSet(draft[q].windows)
             /\ app[q] = "collect" => ToSet(hosted[q]) \subseteq ToSet(doc.windows)
  BY <1>3 DEF QuitOK
<1>4. ASSUME UNCHANGED <<slots, size, last, jsons, crashes, vanished>>, SavedSoFar(q), todo'[q] = todo[q],
             hosted'[q] = hosted[q], pending'[q] = pending[q]
      PROVE  SavedSoFar(q)'
  <2>1. PICK K \in Seq(Uuids) : Len(K) + Len(pending[q]) = Len(hosted[q]) /\ hosted[q] = K \o pending[q] /\ Planned(todo[q], K)
    BY <1>4 DEF SavedSoFar
  <2>2. PICK t : t = todo[q] /\ Planned(t, K) /\ todo'[q] = t
    BY <1>4, <2>1
  <2>3. Planned(todo[q], K)'
    BY <1>4, <2>2, PlanStays
  <2> QED BY <1>4, <2>1, <2>3 DEF SavedSoFar
<1>5. CASE UNCHANGED workspaceVars
  <2>1. UNCHANGED <<doc, app, draft, hosted, pending, undisturbed, todo, slots, size, last, jsons, crashes, vanished>>
    BY <1>5 DEF workspaceVars, historyVars
  <2> QED BY <1>1, <1>3, <1>4, <2>1
<1>6. ASSUME BeginQuit(q), Running = {q} PROVE Goal(q)
  <2>1. /\ app' = [app EXCEPT ![q] = "save"] /\ pending' = [pending EXCEPT ![q] = hosted[q]] /\ hosted' = hosted
        /\ todo[q] = <<>> /\ UNCHANGED historyVars
    BY <1>6 DEF BeginQuit, GoTo, Idle
  <2>2. AtRest
    <3>1. \A p \in Instances : todo[p] = <<>>
      <4>1. ASSUME NEW p \in Instances PROVE todo[p] = <<>>
        BY <1>6, <2>1 DEF Running, QuitOK
      <4> QED BY <4>1
    <3> QED BY <1>2, <3>1 DEF HistoryOK, LockOK, DiskOK, AtRest
  <2>3. Planned(<<>>, <<>>)
    <3>1. <<>> \in Seq(Writes) /\ Ends(<<>>, ReadIndex)
      BY DEF Ends
    <3> QED BY <1>2, <2>2, <3>1, PlanAtRest
  <2>4. Planned(todo[q], <<>>)'
    BY <2>1, <2>3, PlanStays DEF historyVars
  <2>5. SavedSoFar(q)'
    <3>1. hosted'[q] = hosted[q] /\ pending'[q] = hosted[q] /\ hosted[q] \in Seq(Uuids)
      BY <1>2, <2>1
    <3>2. <<>> \in Seq(Uuids) /\ Len(<<>>) = 0 /\ <<>> \o hosted[q] = hosted[q] /\ Len(hosted[q]) \in Nat
      BY <3>1, ConcatEmptySeq
    <3>3. Len(<<>>) + Len(hosted[q]) = Len(hosted[q])
      BY <3>2
    <3>4. \E K \in Seq(Uuids) :
             /\ Len(K) + Len(hosted[q]) = Len(hosted[q]) /\ hosted[q] = K \o hosted[q]
             /\ Planned(todo[q], K)'
      BY <2>4, <3>2, <3>3, Zenon
    <3> QED BY <3>1, <3>4 DEF SavedSoFar
  <2> QED BY <1>2, <2>1, <2>5
<1>7. ASSUME undisturbed[q], SaveHosted(q), LockFree PROVE Goal(q)
  <2>1. /\ app[q] = "save" /\ app' = app /\ todo[q] = <<>> /\ pending[q] # <<>> /\ hosted' = hosted
        /\ pending' = [pending EXCEPT ![q] = Tail(pending[q])]
        /\ \E same \in BOOLEAN : Begin(q, SnapshotPlan(Head(pending[q]), same, FALSE))
    BY <1>7 DEF SaveHosted, Idle, Mutate, workspaceOnly
  <2>2. hosted[q] \in Seq(Uuids) /\ pending[q] \in Seq(Uuids)
    BY <1>2
  <2>3. PICK K \in Seq(Uuids) : Len(K) + Len(pending[q]) = Len(hosted[q]) /\ hosted[q] = K \o pending[q] /\ Planned(<<>>, K)
    BY <1>1, <1>3, <1>7, <2>1 DEF SavedSoFar
  <2>4. PICK u \in Uuids : u = Head(pending[q])
    BY <2>1, <2>2, TailOf
  <2>5. /\ Append(K, u) \in Seq(Uuids) /\ Append(K, u) \o Tail(pending[q]) = K \o pending[q]
        /\ Len(Append(K, u)) + Len(Tail(pending[q])) = Len(K) + Len(pending[q])
        /\ Len(K) + 1 <= Len(K) + Len(pending[q])
    BY <2>1, <2>2, <2>4, NextSaved
  <2>6. Len(K) < MaxEntries
    <3>1. Len(K) \in Nat /\ Len(hosted[q]) \in Nat /\ MaxEntries \in Nat /\ Len(hosted[q]) <= MaxEntries
      BY <1>1, <2>1, <2>2, HistoryAssumption
    <3> QED BY <2>3, <2>5, <3>1
  <2>7. PICK same \in BOOLEAN : Begin(q, SnapshotPlan(Head(pending[q]), same, FALSE))
    BY <2>1
  <2>8. PICK t : t = SnapshotPlan(u, same, FALSE)
    OBVIOUS
  <2>9. t \in Seq(Writes) /\ Planned(t, Append(K, u))
    <3>1. AtRest
      BY <1>7, MutatorBegins DEF LockFree
    <3>2. Keeps(ReadIndex, K, {})
      BY <2>3, PlanDone
    <3> QED BY <1>2, <2>6, <2>8, <3>1, <3>2, SnapshotPlanned
  <2>10. todo' = [todo EXCEPT ![q] = t] /\ UNCHANGED <<slots, size, last, jsons, atQuit, crashes, vanished>>
    BY <2>4, <2>7, <2>8 DEF Begin
  <2>11. Planned(todo[q], Append(K, u))'
    <3>1. todo'[q] = t
      BY <1>2, <2>10
    <3> QED BY <2>9, <2>10, <3>1, PlanStays
  <2>12. hosted'[q] = hosted[q] /\ pending'[q] = Tail(pending[q])
    BY <1>2, <2>1
  <2>13. SavedSoFar(q)'
    BY <2>3, <2>5, <2>11, <2>12 DEF SavedSoFar
  <2> QED BY <2>1, <2>13
<1>8. ASSUME undisturbed[q], PublishOpenWindows(q) PROVE Goal(q)
  <2> DEFINE plan == IF hosted[q] = <<>> THEN <<>> ELSE AddOpen(hosted[q])
  <2>1. /\ app[q] = "save" /\ todo[q] = <<>> /\ pending[q] = <<>> /\ hosted' = hosted /\ pending' = pending
        /\ \/ Mutate(q, plan) /\ app' = [app EXCEPT ![q] = "copy"]
           \/ app' = [app EXCEPT ![q] = "exit"]
    BY <1>8 DEF PublishOpenWindows, Idle, GoTo, workspaceOnly
  <2>2. PICK K \in Seq(Uuids) : Len(K) + Len(pending[q]) = Len(hosted[q]) /\ hosted[q] = K \o pending[q] /\ Planned(<<>>, K)
    BY <1>1, <1>3, <1>8, <2>1 DEF SavedSoFar
  <2>3. CASE Mutate(q, plan) /\ app' = [app EXCEPT ![q] = "copy"]
    <3>1. CASE LockFree
      <4>1. PICK t : t = plan
        OBVIOUS
      <4>2. Opens(t)
        BY <1>2, <4>1, AddOpens DEF Opens
      <4>3. Planned(t, K)
        <5>1. AtRest
          BY <3>1, MutatorBegins DEF LockFree
        <5>2. Keeps(ReadIndex, K, {})
          BY <2>2, PlanDone
        <5> QED BY <1>2, <4>2, <5>1, <5>2, OpensEnd, PlanAtRest
      <4>4. todo' = [todo EXCEPT ![q] = t] /\ UNCHANGED <<slots, size, last, jsons, atQuit, crashes, vanished>>
        BY <2>3, <3>1, <4>1 DEF Mutate, Begin
      <4>5. Planned(todo[q], K)'
        <5>1. todo'[q] = t
          BY <1>2, <4>4
        <5> QED BY <4>3, <4>4, <5>1, PlanStays
      <4>6. SavedSoFar(q)'
        BY <2>1, <2>2, <4>5 DEF SavedSoFar
      <4> QED BY <1>2, <2>1, <2>3, <4>6
    <3>2. CASE ~LockFree
      <4>1. UNCHANGED historyVars
        BY <2>3, <3>2 DEF Mutate
      <4>2. SavedSoFar(q)'
        BY <1>1, <1>3, <1>4, <1>8, <2>1, <4>1 DEF historyVars
      <4> QED BY <1>2, <2>1, <2>3, <4>2
    <3> QED BY <3>1, <3>2
  <2>4. CASE app' = [app EXCEPT ![q] = "exit"]
    BY <1>2, <2>4
  <2> QED BY <2>1, <2>3, <2>4
<1>9. ASSUME undisturbed[q], WriteGenerationSnapshots(q) PROVE Goal(q)
  <2>1. app[q] = "copy" /\ todo[q] = <<>> /\ app' = [app EXCEPT ![q] = "write"] /\ hosted' = hosted
    BY <1>9 DEF WriteGenerationSnapshots, Idle, GoTo
  <2>2. PICK K \in Seq(Uuids) : hosted[q] = K \o <<>> /\ Planned(<<>>, K)
    BY <1>1, <1>3, <1>9, <2>1 DEF SavedSoFar
  <2>3. hosted[q] = K /\ Keeps(ReadIndex, K, {}) /\ ToSet(K) \subseteq Uuids
    BY <2>2, PlanDone, ConcatEmptySeq, MembersOfSeq
  <2>4. \A u \in ToSet(hosted[q]) : u # None /\ Restorable(u)
    BY <2>3, HistoryAssumption DEF Keeps, Restorable
  <2>5. ToSet(hosted[q]) \subseteq ToSet(draft'[q].windows)
    BY <1>9, <2>4, NextWindows
  <2> QED BY <1>2, <2>1, <2>5
<1>10. ASSUME undisturbed[q], WriteManifest(q) PROVE Goal(q)
  <2>1. /\ app[q] = "write" /\ hosted' = hosted
        /\ \/ doc' = draft[q] /\ app' = [app EXCEPT ![q] = "collect"]
           \/ app' = [app EXCEPT ![q] = "exit"]
    BY <1>10 DEF WriteManifest, Idle, GoTo
  <2> QED BY <1>1, <1>2, <1>3, <1>10, <2>1
<1>11. ASSUME undisturbed[q], WriteStep(q), Write(q) PROVE Goal(q)
  <2>1. UNCHANGED <<doc, draft, app, hosted, pending>>
    <3>1. Write(q) => UNCHANGED <<doc, draft, app, pending>>
      BY DEF Write, workspaceOnly
    <3>2. hosted' = hosted
      BY <1>1, <1>11 DEF Write, SessionsOK
    <3> QED BY <1>11, <3>1, <3>2
  <2>2. ASSUME app[q] \in {"save", "copy"} PROVE SavedSoFar(q)'
    <3>1. PICK K \in Seq(Uuids) : Len(K) + Len(pending[q]) = Len(hosted[q]) /\ hosted[q] = K \o pending[q] /\ Planned(todo[q], K)
      BY <1>1, <1>3, <1>11, <2>1, <2>2 DEF SavedSoFar
    <3>2. Planned(todo[q], K)'
      BY <1>2, <1>11, <3>1, WriteGoesOn
    <3> QED BY <2>1, <3>1, <3>2 DEF SavedSoFar
  <2> QED BY <1>1, <1>3, <1>11, <2>1, <2>2
<1>12. ASSUME \/ CleanupOrphanFiles(q) \/ RestoreWorkspace(q) \/ RestoreFromHistory(q)
              \/ TouchRestored(q) \/ Restored(q)
              \/ \E u \in Uuids : OpenRecentSession(q, u) \/ CloseTab(q, u) \/ \E same \in BOOLEAN : AutoSave(q, u, same)
              \/ ClearRecents(q) \/ CollectSupersededGenerations(q) \/ Exit(q) \/ Crash(q)
       PROVE  Goal(q)
  <2>1. \/ app' = app /\ app[q] \in {"touch", "run"}
        \/ \E w \in {"load", "run", "touch", "exit", "off"} : app' = [app EXCEPT ![q] = w]
    BY <1>12 DEF CleanupOrphanFiles, RestoreWorkspace, RestoreFromHistory, TouchRestored, Restored, OpenRecentSession, CloseTab,
                 AutoSave, ClearRecents, CollectSupersededGenerations, Exit, Crash, Gone, GoTo, Idle, Edit, workspaceOnly
  <2>2. app'[q] \notin {"save", "copy", "write", "collect"}
    BY <1>2, <2>1
  <2> QED BY <2>2
<1>13. CASE WorkspaceNext
  BY <1>1, <1>6, <1>7, <1>8, <1>9, <1>10, <1>11, <1>12, <1>13, OnlyItself
<1> QED BY <1>5, <1>13

(* What the user had open is there at the next launch: the manifest names  *)
(* sessions with copies, the windows beyond the restore cap are published  *)
(* again, and a quit nothing disturbs keeps every session it had, for any  *)
(* number of windows and recent sessions and any crash.                    *)
THEOREM WorkspaceStaysKept ==
    ASSUME \A p, q \in Publishers : p = q
    PROVE  WorkspaceSpec => []WorkspaceKept
<1> DEFINE Inv == SessionsOK /\ HistoryOK /\ PublishInv /\ DeferOK /\ QuitOK
<1>1. WorkspaceInit => Inv
  <2> SUFFICES ASSUME WorkspaceInit PROVE Inv
    OBVIOUS
  <2>1. SessionsOK /\ HistoryOK
    BY WorkspaceTypes, HistoryInitOK DEF WorkspaceInit
  <2>2. PublishInv
    BY DEF WorkspaceInit, PublishInv, HasItsSnapshots, Publishing, ToSet
  <2>3. DeferOK
    BY HistoryAssumption DEF WorkspaceInit, DeferOK
  <2>4. QuitOK
    BY DEF WorkspaceInit, HistoryInit, QuitOK
  <2> QED BY <2>1, <2>2, <2>3, <2>4
<1>2. Inv /\ [WorkspaceNext]_workspaceVars => Inv'
  BY HistoryStep, SessionsStep, PublishStep, DeferStep, QuitStep
<1>3. Inv => WorkspaceKept
  <2> SUFFICES ASSUME Inv PROVE WorkspaceKept
    OBVIOUS
  <2>1. ManifestHasItsSnapshots
    BY DEF PublishInv, HasItsSnapshots, ManifestHasItsSnapshots
  <2>2. DeferredWindowsSurvive
    <3> SUFFICES ASSUME NEW p \in Publishers, app[p] = "collect"
                 PROVE  ToSet(Windows(deferred[p])) \subseteq ToSet(doc.windows)
      BY DEF DeferredWindowsSurvive
    <3>1. deferred[p] \in Seq(Windowed)
      BY HistoryAssumption DEF SessionsOK
    <3>2. ToSet(Windows(deferred[p])) = ToSet(deferred[p]) \cap (ToSet(deferred[p]) \ {None})
      BY <3>1, MembersInIs DEF Windows
    <3> QED BY <3>2 DEF DeferOK
  <2>3. QuitKeepsSessions
    BY HistoryAssumption DEF QuitOK, QuitKeepsSessions
  <2> QED BY <2>1, <2>2, <2>3 DEF WorkspaceKept
<1> HIDE DEF Inv
<1> QED BY <1>1, <1>2, <1>3, PTL DEF WorkspaceSpec
=============================================================================
