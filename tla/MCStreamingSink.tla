-------------------------- MODULE MCStreamingSink --------------------------
(***************************************************************************)
(* StreamingSink for TLC.  A behaviour opens files, with nothing to pause, *)
(* or one live session after another, or mixes the two.                    *)
(***************************************************************************)
EXTENDS StreamingSink

CONSTANTS
    Scenarios,
    MaxLiveSessions,  \* bound: live sessions of one behaviour
    MaxMixedTeardowns \* bound: commands of a mixed behaviour start before them
VARIABLE scenario

MCInit == scenario \in Scenarios /\ Init

(* Files opened, appended and replaced.                                    *)
FilesCommand ==
    /\ scenario \in {"files", "mixed"}
    /\ scenario = "mixed" => generation < MaxMixedTeardowns
    /\ ReplaceSession("new") \/ ReplaceSession("openStatic") \/ QueueFile \/ AppendFile

(* Live sources opened, paused, resumed and stopped, and the preferences   *)
(* dialog that changes the retention cap.                                  *)
LiveCommand ==
    /\ scenario \in {"live", "mixed"}
    /\ scenario = "mixed" => generation < MaxMixedTeardowns
    /\ \/ ReplaceSession("openLive") /\ generation <= MaxLiveSessions
       \/ StopStream \/ Pause \/ Resume \/ \E c \in Caps : SetRetentionCap(c)

MCNext ==
    /\ Worker \/ Dispatch \/ DrainGeneration \/ Teardown \/ FilesCommand \/ LiveCommand
    /\ scenario' = scenario

MCSpec == MCInit /\ [][MCNext]_<<scenario, vars>>

(* Where nothing can be paused, the table shows the rows in the order of   *)
(* the files and, in each, in the order they were parsed.                  *)
FilesInOrder == scenario = "files" => InOrder

(* Every row the current parse produced is accounted for: shown, on its    *)
(* way, or given up where the code says so and counted where it counts;    *)
(* Arm's clear discards none, and files are shown in their order.          *)
RowsAccounted == [](NoSilentLoss /\ PausedDropsExact /\ FilesInOrder) /\ ArmFindsQueueEmpty

(* DrainGeneration, on a generation mismatch: "the batches we just drained *)
(* belong to a stale generation".  So no row of the current session is     *)
(* discarded there.                                                        *)
StaleDrainDiscardsStaleRows == lost["stale"] = {}

-----------------------------------------------------------------------------
(* What comments and documentation say and the code does not keep; each is *)
(* refuted when it is named as an invariant of this run.                   *)

(* QtStreamingLogSink::Resume: the synchronous append precedes what the    *)
(* worker posts later, "preserving FIFO order".                            *)
ResumePreservesOrder == InOrder

(* The documentation: "EOF ends stdin the same way", leaving the rows "as  *)
(* a static snapshot".  So no row is left in the paused buffer, where no   *)
(* command can reach it, once the session has ended.                       *)
EndedSessionShowsItsRows ==
    guiPc = "idle" /\ ~streamingActive => pausedRows = <<>>

(* The counter is reset "so each session reports its own losses cleanly":  *)
(* no session reports more lost batches than it lost.                      *)
ReportedLossIsReal == reportedLoss <= shutdownDrops
====
