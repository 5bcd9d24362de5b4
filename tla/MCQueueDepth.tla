---------------------------- MODULE MCQueueDepth ----------------------------
(* An emitter, a feeder and a retry, two types and a queue of two for TLC. *)
EXTENDS QueueDepth

MCBatch == [p \in Producer |-> CASE p = "emitter" -> <<"a", "b">>
                                 [] p = "feeder"  -> <<"a", "a">>
                                 [] p = "retry"   -> <<"b">>]
=============================================================================
