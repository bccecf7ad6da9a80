------------------------------ MODULE Workspace ------------------------------
(***************************************************************************)
(* WorkspacePersistence and the life of a process around it: main sweeps   *)
(* orphans, restores the windows of the last quit and, when the user       *)
(* quits, saves every session and publishes a new generation of the        *)
(* workspace.  A window stands for its one session; a window whose         *)
(* snapshot could not be copied keeps None.                                *)
(***************************************************************************)
EXTENDS SessionHistory

CONSTANTS
    RestoreCap,  \* MAX_RESTORE_PEERS
    MaxLaunches, \* bound: launches
    MaxEdits     \* bound: sessions opened, saved, closed or removed by the user

ASSUME WorkspaceAssumption ==
    RestoreCap \in Nat \ {0} /\ MaxLaunches \in Nat /\ MaxEdits \in Nat

VARIABLES
    doc,         \* workspace.json: its generation and its windows
    generations, \* generations/<id>/: the sessions it has a copy of
    app,         \* where a process is
    hosted,      \* sessions open in a process
    deferred,    \* DeferredWindowsSlot
    pending,     \* sessions a loop has still to handle
    draft,       \* the workspace Publish is writing
    launches, edits,
    undisturbed  \* history: no other process ran and no save failed since Quit

workspaceVars == <<doc, generations, app, hosted, deferred, pending, draft,
                   launches, edits, undisturbed, historyVars>>

Running == {p \in Instances : app[p] # "off"}
Windows(ws) == MembersIn(ws, ToSet(ws) \ {None})

WorkspaceInit ==
    /\ HistoryInit
    /\ doc = [generation |-> 0, windows |-> <<>>]
    /\ generations = [g \in {} |-> {}]
    /\ app = [p \in Instances |-> "off"]
    /\ hosted = [p \in Instances |-> <<>>] /\ deferred = [p \in Instances |-> <<>>]
    /\ pending = [p \in Instances |-> <<>>]
    /\ draft = [p \in Instances |-> doc]
    /\ launches = 0 /\ edits = 0
    /\ undisturbed = [p \in Instances |-> FALSE]

Idle(p, where) == app[p] = where /\ todo[p] = <<>>
GoTo(p, where) == app' = [app EXCEPT ![p] = where]
LockFree == LockAvailable
workspaceOnly == <<doc, generations, draft, launches, edits>>

(* A mutator under the lock, or nothing when the lock is not to be had.    *)
Mutate(p, plan) ==
    IF LockFree THEN Begin(p, plan) ELSE UNCHANGED historyVars

-----------------------------------------------------------------------------
Start(p) ==
    /\ app[p] = "off" /\ launches < MaxLaunches
    /\ launches' = launches + 1
    /\ GoTo(p, "sweep")
    /\ undisturbed' = [q \in Instances |-> FALSE]
    /\ UNCHANGED <<doc, generations, hosted, deferred, pending, draft, edits, historyVars>>

CleanupOrphanFiles(p) ==
    /\ Idle(p, "sweep")
    /\ Mutate(p, CleanupPlan)
    /\ GoTo(p, IF p \in Publishers THEN "load" ELSE "run")
    /\ UNCHANGED <<workspaceOnly, hosted, deferred, pending, undisturbed>>

(* PlanRestore: the first windows are restored, the others deferred until  *)
(* a later launch.  A session comes from its generation, else from recents. *)
ToRestore == SubSeq(doc.windows, 1, Min({RestoreCap, Len(doc.windows)}))
ToDefer == SubSeq(doc.windows, RestoreCap + 1, Len(doc.windows))
Restorable(u) ==
    \/ doc.generation \in DOMAIN generations /\ u \in generations[doc.generation]
    \/ u \in jsons

RestoreWorkspace(p) ==
    /\ Idle(p, "load") /\ doc.windows # <<>>
    /\ deferred' = [deferred EXCEPT ![p] = ToDefer]
    /\ LET found == MembersIn(Windows(ToRestore), {u \in Uuids : Restorable(u)})
       IN  /\ hosted' = [hosted EXCEPT ![p] = found]
           /\ pending' = [pending EXCEPT ![p] = found]
    /\ GoTo(p, "touch")
    /\ UNCHANGED <<workspaceOnly, undisturbed, historyVars>>

(* Without a workspace: the windows of the compatibility list, which is    *)
(* read and wiped in one go, else the last session.                        *)
RestoreFromHistory(p) ==
    /\ Idle(p, "load") /\ doc.windows = <<>>
    /\ LET list == IF LockFree THEN SubSeq(atQuit, 1, Min({RestoreCap, Len(atQuit)})) ELSE <<>>
           wanted == IF list = <<>> /\ last \in jsons THEN <<last>> ELSE list
       IN  /\ hosted' = [hosted EXCEPT ![p] = MembersIn(wanted, jsons)]
           /\ pending' = [pending EXCEPT ![p] = wanted]
    /\ Mutate(p, WriteOpen(<<>>))
    /\ GoTo(p, "touch")
    /\ UNCHANGED <<workspaceOnly, deferred, undisturbed>>

(* A restored session is touched and, when the touch found its entry, put  *)
(* on the open-windows list; one whose file is gone leaves the index.      *)
TouchRestored(p) ==
    /\ Idle(p, "touch") /\ pending[p] # <<>>
    /\ LET u == Head(pending[p])
       IN  Mutate(p, IF u \notin ToSet(hosted[p]) THEN RemovePlan(u)
                     ELSE IF u \in ToSet(ReadIndex) THEN TouchPlan(u) \o AddOpen(<<u>>) ELSE <<>>)
    /\ pending' = [pending EXCEPT ![p] = Tail(@)]
    /\ UNCHANGED <<workspaceOnly, app, hosted, deferred, undisturbed>>

Restored(p) ==
    /\ Idle(p, "touch") /\ pending[p] = <<>>
    /\ GoTo(p, "run")
    /\ UNCHANGED <<workspaceOnly, hosted, deferred, pending, undisturbed, historyVars>>

-----------------------------------------------------------------------------
(* What the user does meanwhile.                                           *)
Edit(p) == Idle(p, "run") /\ edits < MaxEdits /\ edits' = edits + 1
AllHosted == UNION {ToSet(hosted[q]) : q \in Instances}

(* A uuid nothing knows of yet; which one makes no difference.             *)
CreateUuid ==
    LET unused == Uuids \ (AllHosted \union jsons \union ToSet(slots) \union ToSet(atQuit) \union ToSet(doc.windows))
    IN  IF unused = {} THEN None ELSE CHOOSE u \in unused : TRUE

(* AutoSaveSessionSnapshot of a session whose file has been parsed, which  *)
(* pins a fresh uuid, or rewrites a pinned one.                            *)
AutoSave(p, u, same) ==
    /\ Edit(p) /\ LockFree
    /\ u \in ToSet(hosted[p]) \/ (~same /\ u = CreateUuid)
    /\ Begin(p, SnapshotPlan(u, same, p \in Publishers))
    /\ hosted' = [hosted EXCEPT ![p] = IF u \in ToSet(@) THEN @ ELSE Append(@, u)]
    /\ UNCHANGED <<doc, generations, draft, launches, app, deferred, pending, undisturbed>>

OpenRecentSession(p, u) ==
    /\ Edit(p) /\ u \in ToSet(ReadIndex) \ ToSet(hosted[p])
    /\ IF u \in jsons
         THEN /\ hosted' = [hosted EXCEPT ![p] = Append(@, u)]
              /\ Mutate(p, TouchPlan(u) \o (IF p \in Publishers THEN AddOpen(<<u>>) ELSE <<>>))
         ELSE Mutate(p, RemovePlan(u)) /\ UNCHANGED hosted
    /\ UNCHANGED <<doc, generations, draft, launches, app, deferred, pending, undisturbed>>

(* Closing a tab detaches its uuid from the open-windows list.             *)
CloseTab(p, u) ==
    /\ Edit(p) /\ u \in ToSet(hosted[p])
    /\ hosted' = [hosted EXCEPT ![p] = Without(@, u)]
    /\ Mutate(p, IF p \in Publishers /\ u \in ToSet(atQuit)
                   THEN WriteOpen(Without(atQuit, u)) ELSE <<>>)
    /\ UNCHANGED <<doc, generations, draft, launches, app, deferred, pending, undisturbed>>

(* Clearing the list also detaches the session of the active tab.          *)
ClearRecents(p) ==
    /\ Edit(p)
    /\ LET active == IF hosted[p] = <<>> THEN None ELSE Last(hosted[p])
       IN  /\ hosted' = [hosted EXCEPT ![p] = Without(@, active)]
           /\ Mutate(p, ClearPlan \o (IF p \in Publishers /\ active \in ToSet(atQuit)
                                        THEN WriteOpen(Without(atQuit, active)) ELSE <<>>))
    /\ UNCHANGED <<doc, generations, draft, launches, app, deferred, pending, undisturbed>>

-----------------------------------------------------------------------------
(* aboutToQuit: save every session, publish the open windows, then the     *)
(* workspace.                                                              *)
BeginQuit(p) ==
    /\ Idle(p, "run")
    /\ GoTo(p, "save")
    /\ pending' = [pending EXCEPT ![p] = hosted[p]]
    /\ undisturbed' = [undisturbed EXCEPT ![p] = (Running = {p})]
    /\ UNCHANGED <<workspaceOnly, hosted, deferred, historyVars>>

SaveHosted(p) ==
    /\ Idle(p, "save") /\ pending[p] # <<>>
    /\ \E same \in BOOLEAN : Mutate(p, SnapshotPlan(Head(pending[p]), same, FALSE))
    /\ pending' = [pending EXCEPT ![p] = Tail(@)]
    /\ undisturbed' = [undisturbed EXCEPT ![p] = @ /\ LockFree]
    /\ UNCHANGED <<workspaceOnly, app, hosted, deferred>>

PublishOpenWindows(p) ==
    /\ Idle(p, "save") /\ pending[p] = <<>>
    /\ IF p \in Publishers
         THEN Mutate(p, IF hosted[p] = <<>> THEN <<>> ELSE AddOpen(hosted[p])) /\ GoTo(p, "copy")
         ELSE UNCHANGED historyVars /\ GoTo(p, "exit")
    /\ UNCHANGED <<workspaceOnly, hosted, deferred, pending, undisturbed>>

(* MergeCapturedWithDeferred: the captured windows, then the deferred ones *)
(* that were not captured.                                                 *)
\* mutant: the deferred windows are not merged
MergedCapturedOnly(captured, kept) == captured
Merged(captured, kept) == captured \o MembersIn(kept, (ToSet(kept) \ ToSet(captured)) \union {None})
(* WriteGenerationSnapshots copies from recents, else from the published   *)
(* generation; a session with neither loses its place in the workspace.    *)
Copyable(u) == Restorable(u)
WriteGenerationSnapshots(p) ==
    /\ Idle(p, "copy")
    /\ LET all == Merged(hosted[p], deferred[p])
           next == [generation |-> doc.generation + 1,
                    windows |-> [i \in 1..Len(all) |-> IF Copyable(all[i]) THEN all[i] ELSE None]]
           copied == ToSet(next.windows) \ {None}
       IN  /\ draft' = [draft EXCEPT ![p] = next]
           /\ generations' = [g \in DOMAIN generations \union {next.generation} |->
                                IF g # next.generation THEN generations[g]
                                ELSE copied \union (IF g \in DOMAIN generations THEN generations[g] ELSE {})]
    /\ GoTo(p, "write")
    /\ UNCHANGED <<doc, launches, edits, hosted, deferred, pending, undisturbed, historyVars>>

(* The manifest is committed atomically, or not at all.                    *)
WriteManifest(p) ==
    /\ Idle(p, "write")
    /\ \/ doc' = draft[p] /\ GoTo(p, "collect")
       \/ UNCHANGED doc /\ GoTo(p, "exit")
    /\ UNCHANGED <<generations, draft, launches, edits, hosted, deferred, pending, undisturbed, historyVars>>

\* mutant: collects before the manifest names the new generation
KeptGenerationOld(p) == draft[p].generation - 1
KeptGeneration(p) == draft[p].generation
CollectSupersededGenerations(p) ==
    /\ Idle(p, "collect")
    /\ generations' = [g \in DOMAIN generations \intersect {KeptGeneration(p)} |-> generations[g]]
    /\ GoTo(p, "exit")
    /\ UNCHANGED <<doc, draft, launches, edits, hosted, deferred, pending, undisturbed, historyVars>>

Gone(p) ==
    /\ GoTo(p, "off")
    /\ hosted' = [hosted EXCEPT ![p] = <<>>] /\ deferred' = [deferred EXCEPT ![p] = <<>>]
    /\ pending' = [pending EXCEPT ![p] = <<>>]
Exit(p) ==
    /\ Idle(p, "exit") /\ Gone(p)
    /\ UNCHANGED <<workspaceOnly, undisturbed, historyVars>>

Crash(p) ==
    /\ app[p] # "off" /\ CrashHistory(p) /\ Gone(p)
    /\ UNCHANGED <<workspaceOnly, undisturbed>>

Vanish(u) ==
    /\ JsonVanishes(u)
    /\ undisturbed' = [p \in Instances |-> FALSE]
    /\ UNCHANGED <<workspaceOnly, app, hosted, deferred, pending>>

(* The writes of a mutator in progress.                                    *)
Write(p) ==
    \/ WriteStep(p) /\ UNCHANGED <<workspaceOnly, app, hosted, deferred, pending, undisturbed>>
    \/ /\ SaveFails(p)
       /\ undisturbed' = [undisturbed EXCEPT ![p] = FALSE]
       /\ hosted' = [hosted EXCEPT ![p] =
                       IF app[p] = "run" /\ Head(todo[p]).arg \notin jsons
                         THEN Without(@, Head(todo[p]).arg) ELSE @]
       /\ UNCHANGED <<workspaceOnly, app, deferred, pending>>

WorkspaceNext ==
    \E p \in Instances :
        \/ Start(p) \/ CleanupOrphanFiles(p) \/ RestoreWorkspace(p) \/ RestoreFromHistory(p)
        \/ TouchRestored(p) \/ Restored(p)
        \/ \E u \in Uuids : OpenRecentSession(p, u) \/ CloseTab(p, u) \/ \E same \in BOOLEAN : AutoSave(p, u, same)
        \/ ClearRecents(p)
        \/ BeginQuit(p) \/ SaveHosted(p) \/ PublishOpenWindows(p)
        \/ WriteGenerationSnapshots(p) \/ WriteManifest(p) \/ CollectSupersededGenerations(p)
        \/ Exit(p) \/ Crash(p) \/ Write(p)
        \/ \E u \in Uuids : Vanish(u)

WorkspaceSpec == WorkspaceInit /\ [][WorkspaceNext]_workspaceVars

-----------------------------------------------------------------------------
(* A crash anywhere in Publish leaves a workspace that can be restored:    *)
(* every session the manifest names has its copy in the generation the     *)
(* manifest names.                                                         *)
ManifestHasItsSnapshots ==
    \A u \in ToSet(doc.windows) \ {None} :
        doc.generation \in DOMAIN generations /\ u \in generations[doc.generation]

(* Windows beyond the restore cap survive a quit with their sessions,      *)
(* although no process has them open and recents may have dropped them.    *)
DeferredWindowsSurvive ==
    \A p \in Publishers : app[p] = "collect" =>
        ToSet(Windows(deferred[p])) \subseteq ToSet(doc.windows)

(* A quit that nothing disturbs keeps every open session in the workspace  *)
(* as long as there are no more of them than recent sessions are kept.     *)
QuitKeepsSessions ==
    \A p \in Publishers : app[p] = "collect" /\ undisturbed[p] /\ Len(hosted[p]) <= MaxEntries =>
        ToSet(hosted[p]) \subseteq ToSet(doc.windows)

(* The windows to restore survive the quits, crashes and cleanups of the   *)
(* processes that publish them, with the snapshots they name.              *)
WorkspaceKept == ManifestHasItsSnapshots /\ DeferredWindowsSurvive /\ QuitKeepsSessions

(* doc/README.md on tabs: "A dirty restorable file-backed tab autosaves    *)
(* silently. The snapshot is used for Recent Sessions and the next launch." *)
QuitKeepsEverySession ==
    \A p \in Publishers : app[p] = "collect" /\ undisturbed[p] =>
        ToSet(hosted[p]) \subseteq ToSet(doc.windows)
=============================================================================
