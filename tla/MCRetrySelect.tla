--------------------------- MODULE MCRetrySelect ---------------------------
(* A small instance of RetrySelect for TLC: three instances, two of them   *)
(* with the same attribute, and an attribute that none has.                *)
EXTENDS RetrySelect

MCKey == {"gpu", "region"}
Gpu(g) == [k \in MCKey |-> IF k = "gpu" THEN g ELSE None]
MCSpecs == <<[attrs |-> Gpu("a"), concurrency |-> 1, retry |-> None],
             [attrs |-> Gpu("a"), concurrency |-> None, retry |-> [max |-> 3, on |-> <<"SameAttr", "gpu">>]],
             [attrs |-> Gpu(None), concurrency |-> 0, retry |-> [max |-> 4, on |-> <<"Any", None>>]]>>
MCDefault == [max |-> 4, on |-> <<"AvoidTried", None>>]
=============================================================================
