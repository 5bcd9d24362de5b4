----------------------------- MODULE MCRecords -----------------------------
(* Files of up to five rows in batches that are empty, smaller and larger  *)
(* than a chunk, for TLC.                                                  *)
EXTENDS Records

MCLayouts == {<<>>, <<0, 1, 4>>, <<1, 1, 2, 4>>, <<3>>, <<5>>, <<3, 4, 5>>}
=============================================================================
