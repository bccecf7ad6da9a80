-------------------------- MODULE MCLineProducers --------------------------
(***************************************************************************)
(* LineProducers for TLC, and what the interface says of the producers     *)
(* that one of them does not keep.                                         *)
(***************************************************************************)
EXTENDS LineProducers

JustStdin == {"stdin"}

(* BytesProducer::IsClosed answers whether the producer "reached terminal  *)
(* EOF (natural exhaustion or Stop() observed)": a parse that ends because *)
(* of it, with the input at its end and nobody stopping it, has read all.  *)
ClosedMeansExhausted ==
    loop = "end" /\ ~stopRequested /\ 1 \in hungUp /\ wire[1] = <<>> => queue = <<>>
====
