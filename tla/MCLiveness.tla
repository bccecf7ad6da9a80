----------------------------- MODULE MCLiveness -----------------------------
(***************************************************************************)
(* What the threads of a live session must reach when each of them keeps   *)
(* running: the worker and the event loop around the batch queue, and the  *)
(* producer, the parse loop and the teardown around the byte queue.  A     *)
(* behaviour chooses its scenario at the start; the other part stays in    *)
(* its initial state.                                                      *)
(***************************************************************************)
EXTENDS StreamingSink, LineProducers

CONSTANT Scenarios
VARIABLE scenario

liveVars == <<scenario, vars, linesVars>>

StopPauseCommands == {"openLive", "stop", "pause"}

OfSink(A) == scenario = "sink" /\ A /\ UNCHANGED <<scenario, linesVars>>
OfLines(A) == scenario = "lines" /\ A /\ UNCHANGED <<scenario, vars>>

LiveInit ==
    /\ scenario \in Scenarios
    /\ Init
    /\ LinesInit /\ (scenario # "lines" => kind = "stdin")

LiveNext == OfSink(Next) \/ OfLines(LinesNext)

(* The fairness of the two parts, Fairness and LinesFairness, each where   *)
(* its part runs.                                                          *)
LiveFairness ==
    /\ WF_liveVars(OfSink(OnBatch \/ BufferWhilePaused \/ WaitEnqueue \/ ScheduleDrain
                          \/ PostDrain \/ OnFinished \/ WorkerExit))
    /\ WF_liveVars(OfSink(stopToken /\ \E k \in BatchSizes \union {0} : ParseFinish(k)))
    /\ WF_liveVars(OfSink(Dispatch))
    /\ WF_liveVars(OfSink(DrainGeneration))
    /\ WF_liveVars(OfSink(Teardown))
    /\ WF_liveVars(OfLines(ProducerWorker))
    /\ WF_liveVars(OfLines(StopReturns \/ RequestLoopStop))
    /\ WF_liveVars(OfLines(Loop))

LiveSpec == LiveInit /\ [][LiveNext]_liveVars /\ LiveFairness
=============================================================================
