--------------------------- MODULE SessionHistory ---------------------------
(***************************************************************************)
(* SessionHistoryManager: the recent-sessions index, one JSON file per     *)
(* session and the list of windows to reopen, shared by every process of   *)
(* the user.  A mutator takes the cross-process lock, reads, and performs  *)
(* its writes one at a time; a crash may fall between any two of them.     *)
(***************************************************************************)
EXTENDS Integers, Sequences, FiniteSets, FiniteSetsExt, SequencesExt

CONSTANTS
    Instances,   \* processes
    Publishers,  \* those not launched with --new-instance: publishing is enabled
    Uuids,       \* sessions
    MaxEntries,  \* the cap of the recents index
    CleanupCap,  \* CLEANUP_DELETIONS_PER_LAUNCH
    MaxFaults    \* bound: crashes and files deleted behind the program's back

None == "none"
Dead == "dead"      \* the lock file of a process that died

ASSUME HistoryAssumption ==
    /\ IsFiniteSet(Instances) /\ Publishers \subseteq Instances
    /\ IsFiniteSet(Uuids) /\ Uuids # {}
    /\ None \notin Instances \cup Uuids /\ Dead \notin Instances
    /\ MaxEntries \in Nat \ {0} /\ CleanupCap \in Nat \ {0} /\ MaxFaults \in Nat

VARIABLES
    \* on disk
    slots, size, \* recentSessions/entries and recentSessions/size
    last,        \* lastSessionUuid
    jsons,       \* sessions with a file
    atQuit,      \* openWindowsAtQuit
    recentsLock, \* holder of recents.lock
    \* in a process
    todo,        \* the writes its mutator has still to do
    crashes,
    vanished     \* history: sessions whose file something else deleted

historyVars == <<slots, size, last, jsons, atQuit, recentsLock, todo, crashes, vanished>>

(* Nothing yet, or one session that earlier launches left in the recents.  *)
HistoryInit ==
    /\ slots \in {<<>>, <<CHOOSE u \in Uuids : TRUE>>}
    /\ size = Len(slots) /\ jsons = ToSet(slots) /\ atQuit = <<>>
    /\ last = IF slots = <<>> THEN None ELSE slots[1]
    /\ recentsLock = None
    /\ todo = [p \in Instances |-> <<>>]
    /\ crashes = 0 /\ vanished = {}

(* The members of a sequence that are in a set, in their order.            *)
MembersIn(s, S) ==
    LET kept[i \in 0 .. Len(s)] ==
            IF i = 0 THEN <<>> ELSE IF s[i] \in S THEN Append(kept[i - 1], s[i]) ELSE kept[i - 1]
    IN  kept[Len(s)]

-----------------------------------------------------------------------------
(* QSettingsRecentsIndexStorage.  Write stores the slots, then the size.   *)
ReadIndex == SubSeq(slots, 1, Min({size, Len(slots)}))
\* mutant: the size goes first
WriteIndexSizeFirst(entries) ==
    <<[do |-> "size", arg |-> Len(entries)], [do |-> "slots", arg |-> entries]>>
WriteIndex(entries) ==
    <<[do |-> "slots", arg |-> entries], [do |-> "size", arg |-> Len(entries)]>>
WriteLastUuid(u) == <<[do |-> "last", arg |-> u]>>
LastIfDrifted(u) == IF last = u THEN <<>> ELSE WriteLastUuid(u)
Unlink(us) == [i \in 1..Len(us) |-> [do |-> "unlink", arg |-> us[i]]]
WriteOpen(us) == <<[do |-> "open", arg |-> us]>>
AddOpen(us) == WriteOpen(atQuit \o MembersIn(us, ToSet(us) \ ToSet(atQuit)))

Without(entries, u) == RemoveFirst(entries, u)
ToFront(entries, u) == <<u>> \o Without(entries, u)
Newest(entries) == IF entries = <<>> THEN None ELSE Head(entries)

(* The writes of each mutator, in the order the code does them.  A snapshot *)
(* whose entry is at the head with the same metadata leaves the index.     *)
\* mutant: nothing is evicted
KeptAll(entries) == entries
Kept(entries) == SubSeq(entries, 1, Min({Len(entries), MaxEntries}))
\* mutant: off by one
EvictedOneMore(entries) == SubSeq(entries, MaxEntries, Len(entries))
Evicted(entries) == SubSeq(entries, MaxEntries + 1, Len(entries))

\* mutant: the files of evicted entries go before the index that drops them
SnapshotPlanUnlinkFirst(u, sameMetadata, publish) ==
    LET entries == ToFront(ReadIndex, u)
    IN  <<[do |-> "save", arg |-> u]>> \o Unlink(Evicted(entries))
        \o WriteIndex(Kept(entries)) \o WriteLastUuid(u)
        \o (IF publish THEN AddOpen(<<u>>) ELSE <<>>)
SnapshotPlan(u, sameMetadata, publish) ==
    LET entries == ToFront(ReadIndex, u)
    IN  <<[do |-> "save", arg |-> u]>>
        \o (IF Newest(ReadIndex) = u /\ sameMetadata
              THEN LastIfDrifted(u)
              ELSE WriteIndex(Kept(entries)) \o WriteLastUuid(u) \o Unlink(Evicted(entries)))
        \o (IF publish THEN AddOpen(<<u>>) ELSE <<>>)
TouchPlan(u) ==
    IF u \in ToSet(ReadIndex) THEN WriteIndex(ToFront(ReadIndex, u)) \o LastIfDrifted(u) ELSE <<>>

\* mutant: the last session is cleared, not replaced by the newest survivor
RemovePlanForgets(u) ==
    IF u \notin ToSet(ReadIndex) THEN <<>>
    ELSE WriteIndex(Without(ReadIndex, u))
         \o (IF last = u THEN WriteLastUuid(None) ELSE <<>>)
         \o Unlink(<<u>>)
RemovePlan(u) ==
    IF u \notin ToSet(ReadIndex) THEN <<>>
    ELSE WriteIndex(Without(ReadIndex, u))
         \o (IF last = u THEN WriteLastUuid(Newest(Without(ReadIndex, u))) ELSE <<>>)
         \o Unlink(<<u>>)

ClearPlan == WriteIndex(<<>>) \o WriteLastUuid(None) \o Unlink(ReadIndex)

(* Files no entry names, up to the cap of one launch.                      *)
CleanupPlan ==
    LET orphans == jsons \ ToSet(ReadIndex)
    IN  Unlink(SubSeq(SetToSeq(orphans), 1, Min({Cardinality(orphans), CleanupCap})))

-----------------------------------------------------------------------------
(* AcquireRecentsLock: a holder that died is recovered; a mutator that     *)
(* finds the lock held gives up without a write.                           *)
LockAvailable == recentsLock \in {None, Dead}

Begin(p, plan) ==
    /\ recentsLock' = IF plan = <<>> THEN None ELSE p
    /\ todo' = [todo EXCEPT ![p] = plan]
    /\ UNCHANGED <<slots, size, last, jsons, atQuit, crashes, vanished>>

(* One write; the lock goes with the last one.                             *)
WriteStep(p) ==
    /\ todo[p] # <<>>
    /\ LET w == Head(todo[p])
       IN  /\ slots' = IF w.do = "slots" THEN w.arg ELSE slots
           /\ size' = IF w.do = "size" THEN w.arg ELSE size
           /\ last' = IF w.do = "last" THEN w.arg ELSE last
           /\ jsons' = CASE w.do = "save" -> jsons \union {w.arg}
                         [] w.do = "unlink" -> jsons \ {w.arg}
                         [] OTHER -> jsons
           /\ atQuit' = IF w.do = "open" THEN w.arg ELSE atQuit
    /\ todo' = [todo EXCEPT ![p] = Tail(@)]
    /\ recentsLock' = IF Len(todo[p]) = 1 THEN None ELSE recentsLock
    /\ UNCHANGED <<crashes, vanished>>

(* Saving the JSON throws: the mutator returns with nothing else written.  *)
SaveFails(p) ==
    /\ todo[p] # <<>> /\ Head(todo[p]).do = "save"
    /\ todo' = [todo EXCEPT ![p] = <<>>]
    /\ recentsLock' = None
    /\ UNCHANGED <<slots, size, last, jsons, atQuit, crashes, vanished>>

(* The process dies with its mutator half done; the lock file stays.       *)
CrashHistory(p) ==
    /\ crashes + Cardinality(vanished) < MaxFaults
    /\ crashes' = crashes + 1
    /\ todo' = [todo EXCEPT ![p] = <<>>]
    /\ recentsLock' = IF recentsLock = p THEN Dead ELSE recentsLock
    /\ UNCHANGED <<slots, size, last, jsons, atQuit, vanished>>

(* Something outside the program deletes the file of a session.            *)
JsonVanishes(u) ==
    /\ u \in jsons /\ crashes + Cardinality(vanished) < MaxFaults
    /\ jsons' = jsons \ {u} /\ vanished' = vanished \union {u}
    /\ UNCHANGED <<slots, size, last, atQuit, recentsLock, todo, crashes>>

-----------------------------------------------------------------------------
HistoryTypeOK ==
    /\ ToSet(slots) \subseteq Uuids /\ IsInjective(slots)
    /\ size \in 0..MaxEntries /\ last \in Uuids \union {None}
    /\ jsons \subseteq Uuids /\ ToSet(atQuit) \subseteq Uuids
    /\ recentsLock \in Instances \union {None, Dead}

(* Every entry of the Recent Sessions menu opens: whatever two processes   *)
(* save, remove, clear and sweep, and wherever one of them crashes, an     *)
(* entry that is listed has its file unless something else deleted it.     *)
ListedSessionsHaveFiles == ToSet(ReadIndex) \subseteq jsons \union vanished

(* A crash between the slots and the size of the index costs at most the   *)
(* oldest entry: the stale size never hides more than one slot.            *)
CrashCostsOneEntry == Len(slots) <= size + 1

(* When no mutator is at work and none crashed, "restore the last session" *)
(* and the head of the Recent Sessions list are the same session.          *)
LastIsNewest == recentsLock = None /\ crashes = 0 => last = Newest(ReadIndex)

(* The recents index stays usable through races and crashes of the         *)
(* processes that share it: entries open, a torn write costs one entry at  *)
(* most, and the last session is its newest.                               *)
RecentsListWhole ==
    HistoryTypeOK /\ ListedSessionsHaveFiles /\ CrashCostsOneEntry /\ LastIsNewest
=============================================================================
