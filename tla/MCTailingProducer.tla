------------------------- MODULE MCTailingProducer -------------------------
(***************************************************************************)
(* TailingProducer for TLC, and what its documentation says that the code  *)
(* does not keep.                                                          *)
(***************************************************************************)
EXTENDS TailingProducer

(* SourceStatus::Waiting: "The producer keeps retrying and re-emits        *)
(* Running when bytes flow again."                                         *)
KeepsRetrying == <>[](stop \/ path = 0 \/ CaughtUp)
====
