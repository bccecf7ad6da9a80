---------------------------- MODULE MCOpenQueue ----------------------------
(* Two tabs and one file of every kind; head has rotated companions, the   *)
(* last of which is damaged.                                               *)
EXTENDS OpenQueue
CONSTANTS plain, head, gone, packed, broken, bundle

MCSiblings == [f \in Files |-> IF f = head THEN <<packed, broken>> ELSE <<>>]
MCBatches == {<<plain>>, <<head>>, <<gone, bundle>>}

FairQueueSpec == QueueSpec /\ QueueFairness
=============================================================================
