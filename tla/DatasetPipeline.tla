--------------------------- MODULE DatasetPipeline ---------------------------
(***************************************************************************)
(* A pipeline that saves, edits and saves again, over several runs: the    *)
(* rows of a source are folded into a router; its batches are checkpoints  *)
(* of type 1 whose worker emits the edited batch, a checkpoint of type 2   *)
(* without a worker.  Both are materialized in one FileDataset, which is   *)
(* also the store of the run.                                              *)
(*                                                                         *)
(* Reservation, claims and the index are those of Checkpoint, reduced to   *)
(* what a dataset depends on: a key's row is committed by one arrival.     *)
(***************************************************************************)
EXTENDS FileDataset, Router

CONSTANTS
  Permits,    \* the engine's concurrency
  MaxFaults   \* crashes and failed puts

ASSUME PipelineAssumption ==
  /\ DOMAIN Group = Row /\ MaxFaults \in Nat /\ Permits \in Nat \ {0}
  /\ Key = {1, 2} \X ((SUBSET Row) \ {{}})

VARIABLES
  phase,      \* "up" during a run, "over" after it, "down" after a crash
  unread,     \* rows the source has still to emit
  tasks,      \* envelopes and the tasks they have become
  claims,     \* Durability::running
  failed,     \* did a task of this run fail?
  extent,     \* is the source's extent recorded?
  faults

run  == <<phase, unread, failed, extent, faults>>
vars == <<dataset, router, run, tasks, claims>>

Type(k) == k[1]
Content(k) == k[2]

(* An envelope of key k with its coverage; at is "queued", "put" (its row  *)
(* is committed), "putting" (it holds the lock), "work" or "consume".      *)
Envelope(k, c, s) == [key |-> k, cov |-> c, at |-> s]
Arrive(batches) == {Envelope(<<1, b.content>>, b.cov, "queued") : b \in batches}
MoveTo(e, s) == tasks' = (tasks \ {e}) \cup {[e EXCEPT !.at = s]}
Fault == faults < MaxFaults /\ faults' = faults + 1

Init ==
  /\ DatasetInit /\ RouterInit
  /\ phase = "over" /\ unread = {} /\ tasks = {} /\ claims = {}
  /\ failed = FALSE /\ extent = FALSE /\ faults = 0

(* A run reads the source unless its extent is covered, and replays items  *)
(* of type 1 that have a live shard and no result.                         *)
StartRun ==
  /\ phase # "up"
  /\ Readable(StoredItems)
  /\ phase' = "up" /\ failed' = FALSE /\ claims' = {}
  /\ unread' = IF extent /\ Row \subseteq Covered THEN {} ELSE Row
  /\ tasks' = {Envelope(k, cov[k], "queued") : k \in {x \in StoredItems : Type(x) = 1}}
  /\ held' = [s \in RouterShard |-> {}] /\ pending' = [s \in RouterShard |-> {}]
  /\ UNCHANGED <<dataset, extent, faults>>

(* A task of the source's row folds it into the router.                    *)
Fold(r, s) ==
  /\ phase = "up" /\ r \in unread
  /\ unread' = unread \ {r}
  /\ Route(s, r) /\ tasks' = tasks \cup Arrive(Routed(s, r))
  /\ UNCHANGED <<dataset, claims, phase, failed, extent, faults>>

(* Durability::admit of a dispatched arrival, with a permit: the first one of a key commits its row *)
(* and puts its shard, a later one works on it or is skipped.              *)
Admit(e) ==
  /\ e.at = "queued" /\ Cardinality({x \in tasks : x.at # "queued"}) < Permits
  /\ IF stat[e.key] = "none"
     THEN CommitRow(e.key, e.cov) /\ MoveTo(e, "put") /\ UNCHANGED claims
     ELSE /\ IF stat[e.key] = "stored" /\ Type(e.key) = 1 /\ e.key \notin claims
             THEN claims' = claims \cup {e.key} /\ MoveTo(e, "work")
             ELSE tasks' = tasks \ {e} /\ UNCHANGED claims
          /\ UNCHANGED dataset
  /\ UNCHANGED <<router, run>>

StartPut(e) ==
  /\ e.at = "put"
  /\ BeginPut(e.key, e.cov) /\ MoveTo(e, "putting")
  /\ UNCHANGED <<router, run, claims>>

Putting == PutStep /\ UNCHANGED <<router, run, tasks, claims>>

FinishPut(e) ==
  /\ e.at = "putting" /\ EndPut
  /\ IF Type(e.key) = 1
     THEN claims' = claims \cup {e.key} /\ MoveTo(e, "work")
     ELSE tasks' = tasks \ {e} /\ UNCHANGED claims
  /\ UNCHANGED <<router, run>>

(* An error of put fails its task.                                         *)
FailPut(e) ==
  /\ e.at = "putting" /\ AbortPut /\ Fault
  /\ tasks' = tasks \ {e} /\ failed' = TRUE
  /\ UNCHANGED <<router, phase, unread, extent, claims>>

(* The worker emits the edited batch, which inherits the coverage; then    *)
(* its item is consumed.                                                   *)
Edit(e) ==
  /\ e.at = "work"
  /\ tasks' = (tasks \ {e}) \cup {[e EXCEPT !.at = "consume"],
                                  Envelope(<<2, Content(e.key)>>, e.cov, "queued")}
  /\ UNCHANGED <<dataset, router, run, claims>>

Consume(e) ==
  /\ e.at = "consume" /\ ConsumeRow(e.key)
  /\ tasks' = tasks \ {e} /\ claims' = claims \ {e.key}
  /\ UNCHANGED <<router, run>>

(* Nothing is in flight: the routers are flushed, and when that emits      *)
(* nothing the pass is over and records the extent unless a task failed.   *)
Quiet == phase = "up" /\ unread = {} /\ tasks = {}

Flush ==
  /\ Quiet /\ Flushed # {}
  /\ FlushAll /\ tasks' = Arrive(Flushed)
  /\ UNCHANGED <<dataset, claims, run>>

EndRun ==
  /\ Quiet /\ Flushed = {}
  /\ phase' = "over" /\ extent' = (extent \/ ~failed)
  /\ UNCHANGED <<dataset, router, tasks, claims, unread, failed, faults>>

(* The process dies.                                                       *)
Crash ==
  /\ phase = "up" /\ Fault
  /\ AbortPut
  /\ phase' = "down" /\ unread' = {} /\ tasks' = {} /\ claims' = {}
  /\ held' = [s \in RouterShard |-> {}] /\ pending' = [s \in RouterShard |-> {}]
  /\ UNCHANGED <<failed, extent>>

Next ==
  \/ StartRun \/ Flush \/ EndRun \/ Crash \/ Putting
  \/ \E r \in Row, s \in RouterShard : Fold(r, s)
  \/ \E e \in tasks : Admit(e) \/ StartPut(e) \/ FinishPut(e) \/ FailPut(e) \/ Edit(e) \/ Consume(e)

Spec == Init /\ [][Next]_vars

-----------------------------------------------------------------------------
TypeOK ==
  /\ DatasetTypeOK /\ RouterTypeOK
  /\ phase \in {"up", "over", "down"} /\ unread \subseteq Row
  /\ tasks \subseteq [key : Key, cov : SUBSET Row,
                      at : {"queued", "put", "putting", "work", "consume"}]
  /\ claims \subseteq Key /\ {failed, extent} \subseteq BOOLEAN /\ faults \in 0..MaxFaults

(* A batch whose row was committed but never got a shard.                  *)
Torn(r) == \E k \in Key \ Shards : stat[k] # "none" /\ r \in Content(k)

(* A pass that ends cleanly, after whatever happened to the runs before    *)
(* it, leaves each row in a live shard: superseding never drops a batch    *)
(* whose rows are nowhere else (FileDataset::supersede, router stamp).     *)
RowsKept ==
  phase = "over" /\ extent /\ ~failed =>
    \A r \in Row \ Filtered : Torn(r) \/ \E k \in live : r \in Content(k)

(* Without faults a save, edit, save pipeline leaves the final shards only *)
(* on disk (doc of bask-io/src/dataset.rs): one per edited batch, and no   *)
(* file of a batch it replaced.                                            *)
FinalOnly ==
  phase = "over" /\ faults = 0 =>
    /\ \A k \in live : Type(k) = 2
    /\ \A j, k \in live : j # k => Content(j) \cap Content(k) = {}
    /\ {h \in Hash : file[h] # "absent"} = {shard[k] : k \in live}
=============================================================================
