-------------------------- MODULE MCDatasetPipeline --------------------------
(* Small instances of DatasetPipeline for TLC.                             *)
EXTENDS DatasetPipeline, TLC

CONSTANTS r1, r2, r3

MCRow == {r1, r2, r3}
MCKey == {1, 2} \X ((SUBSET MCRow) \ {{}})

(* Editing a full batch changes it; a batch of one row stays what it is    *)
(* and shares its shard with the edited one.                               *)
MCHashOf == [k \in MCKey |-> IF Cardinality(k[2]) > 1 THEN k ELSE <<0, k[2]>>]

OneGroup  == [r \in MCRow |-> 1]
TwoGroups == [r \in MCRow |-> IF r = r1 THEN 1 ELSE 2]

Symmetry == Permutations(MCRow)
=============================================================================
