------------------------------- MODULE Router -------------------------------
(***************************************************************************)
(* A registered router: inputs fold into one of several shards, each with  *)
(* its lock, its user state and the coverage folded since its last emit.   *)
(* The user's operator collects inputs by group into batches and may drop  *)
(* an input; the framework stamps coverage and flushes the shards.         *)
(***************************************************************************)
EXTENDS Naturals, FiniteSets, Sequences

CONSTANTS
  Group,       \* the group of each input, a source row: its batch or its type
  BatchSize,
  Filtered,    \* inputs that are dropped
  RouterShard  \* the shards; a worker folds into that of the slot it runs in

ASSUME RouterAssumption ==
  /\ BatchSize \in Nat \ {0}
  /\ Filtered \subseteq DOMAIN Group /\ RouterShard # {}

VARIABLES
  held,     \* user state of each shard: inputs not yet emitted
  pending   \* coverage folded into each shard since it last emitted

router == <<held, pending>>

Input == DOMAIN Group
Groups == {Group[r] : r \in Input}
Batch(s, g) == {r \in held[s] : Group[r] = g}

RouterInit == held = [s \in RouterShard |-> {}] /\ pending = [s \in RouterShard |-> {}]

(* What the user's operator makes of an input: its group's batch is        *)
(* emitted when it is full.                                                *)
Grown(s, r) == IF r \in Filtered THEN held[s] ELSE held[s] \cup {r}
Full(s, r) == LET b == {x \in Grown(s, r) : Group[x] = Group[r]}
              IN IF Cardinality(b) >= BatchSize THEN {b} ELSE {}

(* Fault: the pending coverage is copied and not taken.                    *)
StampCopies(s, batches, folded) == pending' = [pending EXCEPT ![s] = folded]

(* stamp: every batch the shard emitted carries the whole pending coverage *)
(* and nothing is pending any more; what was folded waits if none was.     *)
Stamp(s, batches, folded) ==
  pending' = [pending EXCEPT ![s] = IF batches = {} THEN folded ELSE {}]

(* Holder::route under the lock of one shard: the input's coverage is      *)
(* folded first.                                                           *)
Routed(s, r) == {[content |-> b, cov |-> pending[s] \cup {r}] : b \in Full(s, r)}

Route(s, r) ==
  /\ held' = [held EXCEPT ![s] = Grown(s, r) \ UNION Full(s, r)]
  /\ Stamp(s, Full(s, r), pending[s] \cup {r})

(* flush_all: every shard emits what it holds, group by group.             *)
FlushOf(s) == {Batch(s, g) : g \in Groups} \ {{}}
Flushed == UNION {{[content |-> b, cov |-> pending[s]] : b \in FlushOf(s)} : s \in RouterShard}

FlushAll ==
  /\ held' = [s \in RouterShard |-> {}]
  /\ pending' = [s \in RouterShard |-> IF FlushOf(s) = {} THEN pending[s] ELSE {}]

RouterTypeOK ==
  /\ held \in [RouterShard -> SUBSET Input]
  /\ pending \in [RouterShard -> SUBSET Input]
=============================================================================
