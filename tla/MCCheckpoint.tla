---------------------------- MODULE MCCheckpoint ----------------------------
(* Small instances of Checkpoint for TLC.                                  *)
EXTENDS Checkpoint, TLC

CONSTANTS k, l

MCRow == 1..3

(* Two rows of the source with one key, and a plain seed with another.     *)
RaceSourced == {"s1", "s2"}
RacePlain   == {"p"}
RaceKeys    == ("s1" :> k) @@ ("s2" :> k) @@ ("p" :> l)
RaceRows    == ("s1" :> {1}) @@ ("s2" :> {2}) @@ ("p" :> {3})

(* One source row and two plain seeds that cover rows of their own.        *)
ResumeSourced == {"s1"}
ResumePlain   == {"p"}
ResumeKeys    == ("s1" :> k) @@ ("p" :> l)
ResumeRows    == ("s1" :> {1, 2}) @@ ("p" :> {3})

(* The plain seed's position is also the ordinal of a source row.          *)
SharedRows == ("s1" :> {1, 2}) @@ ("p" :> {1})

NothingBefore == [x \in Key |-> {}]
StoredBefore  == [x \in Key |-> IF x = k THEN {1} ELSE {}]
=============================================================================
