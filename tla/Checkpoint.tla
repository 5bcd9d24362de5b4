----------------------------- MODULE Checkpoint -----------------------------
(***************************************************************************)
(* Durable checkpoints of one type over several runs: Durability's index   *)
(* and claims in front of a Store (and, with a dataset, of its shards),    *)
(* the admission of every arriving item, the worker that may run for it,   *)
(* and prepare_seeds, which prunes and reseeds the next run.               *)
(*                                                                         *)
(* An arrival is an envelope of the checkpoint type: emitted while the     *)
(* source is read, or a plain seed, or the replay of a stored item (which  *)
(* is named by its key).  Each lock section of the code is one step, and   *)
(* a crash may come between any two of them.                               *)
(***************************************************************************)
EXTENDS Naturals, FiniteSets

CONSTANTS
  Key,          \* checkpoint keys; also names the replay of the key's item
  Row,          \* source ordinals
  Sourced,      \* items the source emits each time it is read
  Plain,        \* plain seeds of the checkpoint type
  KeyFor,       \* the key of each of these items
  RowsOf,       \* the ordinals each covers
  CovBefore,    \* rows of the items an earlier run without a worker stored
  KeyOnly,      \* the checkpoint stores no payload
  Targeted,     \* a retry may demand an instance that does not exist
  HasDataset,   \* payloads go to a dataset instead of the store
  MaxFaults     \* crashes, panics, shutdowns, errors, runs without the worker

Item == Sourced \cup Plain
Env  == Item \cup Key

ASSUME CheckpointAssumption ==
  /\ Item \cap Key = {} /\ Sourced \cap Plain = {}
  /\ KeyFor \in [Item -> Key]
  /\ RowsOf \in [Item -> SUBSET Row]
  /\ \A a \in Item : RowsOf[a] # {}
  /\ CovBefore \in [Key -> SUBSET Row]
  /\ {KeyOnly, Targeted, HasDataset} \subseteq BOOLEAN
  /\ MaxFaults \in Nat

VARIABLES
  row,       \* Store: status of each key's row
  cov,       \* Store: coverage of each row
  shard,     \* Dataset: keys with a live shard
  extent,    \* Store: is the source's extent recorded?
  index,     \* Durability::index
  running,   \* Durability::running, the claims
  pc,        \* where each envelope of the run is
  target,    \* envelopes whose retry demands an instance that does not exist
  phase,     \* "up" during a run, "over" after it, "down" after a crash
  worker,    \* a worker is registered and the checkpoint is not terminal
  stopping,  \* a shutdown was requested
  faults,    \* faults so far (bounds the model)
  done,      \* history: keys a worker succeeded for
  raced      \* history: keys of this run that a ClaimNew found claimed

durable == <<row, cov, shard, extent>>
run     == <<phase, worker, stopping>>
vars    == <<durable, index, running, pc, target, run, faults, done, raced>>

(* Stages of an envelope.                                                  *)
(*   absent    not part of this run                                        *)
(*   queued    before its admission                                        *)
(*   commit, put   reserved the key, materializes it                       *)
(*   claimNew  materialized the key, claims it                             *)
(*   claim     found the key stored, tries to claim it                     *)
(*   work      its worker runs                                             *)
(*   consume, publish, unclaim   the three steps of Durability::consume    *)
(*   panicked, unwound   its task panicked with, or without, a claim; the  *)
(*             envelope is never settled, so the run does not end          *)
Settled == {"absent", "processed", "skipped", "failed", "unfinished"}
Stage   == Settled \cup {"queued", "commit", "put", "claimNew", "claim", "work",
                         "consume", "publish", "unclaim", "panicked", "unwound"}

K(e) == IF e \in Key THEN e ELSE KeyFor[e]
In(S) == {e \in Env : pc[e] \in S}

Covered == UNION {cov[k] : k \in {x \in Key : row[x] # "none"}}
SourceRows == UNION {RowsOf[a] : a \in Sourced}

Goto(e, s) == pc' = [pc EXCEPT ![e] = s]
Fault == faults < MaxFaults /\ faults' = faults + 1

-----------------------------------------------------------------------------
(* A run starts: the index is loaded, seeds are pruned, items reseeded.    *)

Init ==
  /\ row = [k \in Key |-> IF CovBefore[k] = {} THEN "none" ELSE "stored"]
  /\ cov = CovBefore
  /\ shard = {k \in Key : CovBefore[k] # {} /\ HasDataset /\ ~KeyOnly}
  /\ extent = FALSE
  /\ index = [k \in Key |-> "none"]
  /\ running = {}
  /\ pc = [e \in Env |-> "absent"] /\ target = {}
  /\ phase = "over" /\ worker = FALSE /\ stopping = FALSE
  /\ faults = 0 /\ done = {} /\ raced = {}

(* Fault: stored items are not reseeded.                                   *)
ReplayableNone(k) == FALSE

(* Durability::stored_items: what can be decoded again.                    *)
Replayable(k) ==
  /\ row[k] = "stored" /\ ~KeyOnly
  /\ HasDataset => k \in shard

(* prepare_seeds: a source is skipped whole, a plain seed by its own rows. *)
SourceDone == extent /\ SourceRows # {} /\ SourceRows \subseteq Covered

Kept(w) ==
  {a \in Sourced : ~SourceDone}
    \cup {a \in Plain : ~(RowsOf[a] \subseteq Covered)}
    \cup {k \in Key : w /\ Replayable(k)}

StartRun(w) ==
  /\ phase # "up"
  /\ IF w THEN UNCHANGED faults ELSE Fault
  /\ phase' = "up" /\ worker' = w /\ stopping' = FALSE
  /\ index' = row
  /\ running' = {} /\ target' = {} /\ raced' = {}
  /\ pc' = [e \in Env |-> IF e \in Kept(w) THEN "queued" ELSE "absent"]
  /\ UNCHANGED <<durable, done>>

-----------------------------------------------------------------------------
(* Durability::admit.                                                      *)

(* Fault: the key is looked up but not reserved.                           *)
ReserveNothing(e) ==
  /\ pc[e] = "queued"
  /\ Goto(e, IF index[K(e)] = "none" THEN "commit"
             ELSE IF index[K(e)] = "stored" /\ worker THEN "claim" ELSE "skipped")
  /\ UNCHANGED <<index, durable, running, target, run, faults, done, raced>>

(* The section under the index lock.                                       *)
Reserve(e) ==
  /\ pc[e] = "queued"
  /\ index' = [index EXCEPT ![K(e)] = IF @ = "none" THEN "stored" ELSE @]
  /\ Goto(e, IF index[K(e)] = "none" THEN "commit"
             ELSE IF index[K(e)] = "stored" /\ worker THEN "claim" ELSE "skipped")
  /\ UNCHANGED <<durable, running, target, run, faults, done, raced>>

(* Fault: the item is claimed although no worker will run for it.          *)
AfterStoreClaims == "claimNew"

(* What follows the materialization.                                       *)
AfterStore == IF worker THEN "claimNew" ELSE "processed"

(* Store::commit writes the row with its coverage, and the payload unless  *)
(* a dataset takes it.  Committing replaces the row.                       *)
Commit(e) ==
  /\ pc[e] = "commit"
  /\ row' = [row EXCEPT ![K(e)] = "stored"]
  /\ cov' = [cov EXCEPT ![K(e)] = IF e \in Item THEN RowsOf[e] ELSE @]
  /\ shard' = shard \ {K(e)}
  /\ Goto(e, IF HasDataset /\ ~KeyOnly THEN "put" ELSE AfterStore)
  /\ UNCHANGED <<extent, index, running, target, run, faults, done, raced>>

Put(e) ==
  /\ pc[e] = "put"
  /\ shard' = shard \cup {K(e)}
  /\ Goto(e, AfterStore)
  /\ UNCHANGED <<row, cov, extent, index, running, target, run, faults, done, raced>>

(* key, encode, commit or put returns an error: dispatch fails the task.   *)
StoreError(e) ==
  /\ pc[e] \in {"queued", "commit", "put"}
  /\ Fault
  /\ Goto(e, "failed")
  /\ UNCHANGED <<durable, index, running, target, run, done, raced>>

(* The claim after a materialization: its outcome is ignored.              *)
ClaimNew(e) ==
  /\ pc[e] = "claimNew"
  /\ running' = running \cup {K(e)}
  /\ raced' = raced \cup ({K(e)} \cap running)
  /\ Goto(e, "work")
  /\ UNCHANGED <<durable, index, target, run, faults, done>>

(* Faults: the outcome of this claim is ignored, too; the item counts as   *)
(* consumed as soon as its worker starts.                                  *)
ClaimIgnored(e) ==
  /\ pc[e] = "claim"
  /\ running' = running \cup {K(e)}
  /\ Goto(e, "work")
  /\ UNCHANGED <<durable, index, target, run, faults, done, raced>>
ClaimConsumes(e) ==
  /\ pc[e] = "claim"
  /\ running' = running \cup {K(e)}
  /\ row' = [row EXCEPT ![K(e)] = "consumed"]
  /\ Goto(e, "work")
  /\ UNCHANGED <<cov, shard, extent, index, target, run, faults, done, raced>>

(* The claim of an item found stored: only its winner goes on to the       *)
(* selection of an instance, which may fail the task, and to the worker.   *)
Claim(e) ==
  /\ pc[e] = "claim"
  /\ running' = running \cup {K(e)}
  /\ Goto(e, IF K(e) \in running THEN "skipped"
             ELSE IF e \in target THEN "failed" ELSE "work")
  /\ UNCHANGED <<durable, index, target, run, faults, done, raced>>

-----------------------------------------------------------------------------
(* The worker and what dispatch does with its result.                      *)

Succeed(e) ==
  /\ pc[e] = "work"
  /\ done' = done \cup {K(e)}
  /\ Goto(e, "consume")
  /\ UNCHANGED <<durable, index, running, target, run, faults, raced>>

(* Durability::consume, step by step: the store, the index, the claim.     *)
(* The store changes a row only if there is one.                           *)
Consume(e) ==
  /\ pc[e] = "consume"
  /\ row' = [row EXCEPT ![K(e)] = IF @ = "none" THEN @ ELSE "consumed"]
  /\ Goto(e, "publish")
  /\ UNCHANGED <<cov, shard, extent, index, running, target, run, faults, done, raced>>

(* A store error in consume is dropped by dispatch; the claim stays.       *)
ConsumeError(e) ==
  /\ pc[e] = "consume"
  /\ Fault
  /\ Goto(e, "processed")
  /\ UNCHANGED <<durable, index, running, target, run, done, raced>>

Publish(e) ==
  /\ pc[e] = "publish"
  /\ index' = [index EXCEPT ![K(e)] = "consumed"]
  /\ Goto(e, "unclaim")
  /\ UNCHANGED <<durable, running, target, run, faults, done, raced>>

Unclaim(e) ==
  /\ pc[e] = "unclaim"
  /\ running' = running \ {K(e)}
  /\ Goto(e, "processed")
  /\ UNCHANGED <<durable, index, target, run, faults, done, raced>>

(* The policy's decision: fail for good, or retry, where the error may     *)
(* hint at an instance to use.                                             *)
Decide(e) ==
  \/ Goto(e, "failed") /\ UNCHANGED target
  \/ /\ Goto(e, "queued")
     /\ \/ target' = target
        \/ Targeted /\ target' = target \cup {e}

(* Fault: a failed attempt keeps its claim.                                *)
WorkerErrorKeepsClaim(e) ==
  /\ pc[e] = "work"
  /\ Fault /\ Decide(e)
  /\ UNCHANGED <<durable, index, running, run, done, raced>>

(* The attempt failed and its claim is released.                           *)
WorkerError(e) ==
  /\ pc[e] = "work"
  /\ Fault /\ Decide(e)
  /\ running' = running \ {K(e)}
  /\ UNCHANGED <<durable, index, run, done, raced>>

(* User code panics: key or encode on admission, or process.  The task     *)
(* unwinds past every release and past the end of its envelope.            *)
Panic(e) ==
  /\ pc[e] \in {"queued", "commit", "work"}
  /\ Fault
  /\ Goto(e, IF pc[e] = "work" THEN "panicked" ELSE "unwound")
  /\ UNCHANGED <<durable, index, running, target, run, done, raced>>

(* A shutdown abandons what is queued and cancels what runs.               *)
Shutdown ==
  /\ phase = "up" /\ ~stopping
  /\ Fault
  /\ stopping' = TRUE
  /\ UNCHANGED <<durable, index, running, pc, target, phase, worker, done, raced>>

Abandon(e) ==
  /\ stopping /\ pc[e] \in {"queued", "work"}
  /\ running' = IF pc[e] = "work" THEN running \ {K(e)} ELSE running
  /\ Goto(e, "unfinished")
  /\ UNCHANGED <<durable, index, target, run, faults, done, raced>>

-----------------------------------------------------------------------------
(* The end of a run.                                                       *)

(* Did every envelope of the run end without a failure or a shutdown?      *)
Clean == ~stopping /\ In({"failed"}) = {}

(* Fault: the extents are not recorded.                                    *)
EndRunNoExtent ==
  /\ phase = "up" /\ \A e \in Env : pc[e] \in Settled
  /\ phase' = "over"
  /\ UNCHANGED <<durable, index, running, pc, target, worker, stopping, faults, done, raced>>

(* record_extents after a clean pass, for a source that was read.          *)
EndRun ==
  /\ phase = "up" /\ \A e \in Env : pc[e] \in Settled
  /\ extent' = (extent \/ (Clean /\ \E a \in Sourced : pc[a] # "absent"))
  /\ phase' = "over"
  /\ UNCHANGED <<row, cov, shard, index, running, pc, target, worker, stopping, faults, done, raced>>

(* A panic leaves the run waiting for an envelope that nobody settles.     *)
Hung == In({"panicked", "unwound"}) # {}

(* The process dies: only the store and the dataset survive.  A run that   *)
(* hangs may be killed at any time, which is not counted as a fault.       *)
Crash ==
  /\ phase = "up"
  /\ IF Hung THEN UNCHANGED faults ELSE Fault
  /\ phase' = "down"
  /\ pc' = [e \in Env |-> "absent"]
  /\ running' = {} /\ target' = {}
  /\ index' = [k \in Key |-> "none"]
  /\ UNCHANGED <<durable, worker, stopping, done, raced>>

Step(e) ==
  \/ Reserve(e) \/ Commit(e) \/ Put(e) \/ ClaimNew(e) \/ Claim(e)
  \/ Succeed(e) \/ Consume(e) \/ Publish(e) \/ Unclaim(e) \/ Abandon(e)

Next ==
  \/ \E w \in BOOLEAN : StartRun(w)
  \/ \E e \in Env : Step(e) \/ StoreError(e) \/ ConsumeError(e) \/ WorkerError(e) \/ Panic(e)
  \/ Shutdown \/ EndRun \/ Crash

Spec == Init /\ [][Next]_vars

(* Runs keep being started, and their tasks keep being polled.             *)
FairSpec ==
  /\ Spec
  /\ WF_vars(StartRun(TRUE)) /\ WF_vars(EndRun)
  /\ \A e \in Env : WF_vars(Step(e))

-----------------------------------------------------------------------------
(* Types of the durable and volatile state of the checkpoint; a shard has  *)
(* a row, and no item gets as far as a claim when there is no worker.      *)
TypeOK ==
  /\ row \in [Key -> {"none", "stored", "consumed"}]
  /\ index \in [Key -> {"none", "stored", "consumed"}]
  /\ cov \in [Key -> SUBSET Row]
  /\ shard \subseteq Key /\ running \subseteq Key /\ done \subseteq Key
  /\ raced \subseteq Key
  /\ target \subseteq Env
  /\ pc \in [Env -> Stage]
  /\ phase \in {"up", "over", "down"}
  /\ {extent, worker, stopping} \subseteq BOOLEAN
  /\ faults \in 0..MaxFaults
  /\ \A k \in shard : row[k] # "none"
  /\ worker \/ In({"claimNew", "claim", "work", "consume", "publish", "unclaim",
                "panicked"}) = {}

(* A key is materialized once however many arrivals race for it: a row     *)
(* that a worker consumed is never written over.                           *)
RowKept == \A k \in Key : /\ row[k] # "none" => row'[k] # "none"
                         /\ row[k] = "consumed" => row'[k] = "consumed"

StoreMonotone == [][RowKept]_vars

(* Whose claim is it?  That of an envelope at work, or of one of the two   *)
(* kinds that never give it back: its process panicked, or its task failed *)
(* because no instance satisfied the retry.                                *)
Refused(e) == e \in target /\ pc[e] = "failed"
Claims(e)  == pc[e] \in {"work", "panicked"} \/ Refused(e)

(* Every claim is accounted for: unless its item is done, some envelope of *)
(* the key is at work or lost the claim in one of those two ways.  After   *)
(* errors, retries, cancellation and crashes nothing else locks a retry or *)
(* a re-emission of the key out of work that nobody does.                  *)
ClaimsAccounted == \A k \in running \ done : \E e \in Env : K(e) = k /\ Claims(e)

(* Two arrivals of a key work at the same time only if a first arrival     *)
(* found the key claimed by another when it had materialized it, and went  *)
(* on regardless: claims, retries and releases alone never allow it.       *)
TwoWorkRaced ==
  \A e, f \in Env :
    e # f /\ K(e) = K(f) /\ pc[e] = "work" /\ pc[f] = "work" => K(e) \in raced

(* The same without the refused retry, and without the race.               *)
NoOrphanClaim ==
  \A k \in running \ done : \E e \in Env : K(e) = k /\ pc[e] \in {"work", "panicked"}
MutualRun ==
  \A e, f \in Env : e # f /\ pc[e] = "work" /\ pc[f] = "work" => K(e) # K(f)

(* A consumed item never runs again (Durability::consume).                 *)
NeverRunsAgain ==
  [][\A e \in Env : pc[e] # "work" /\ pc'[e] = "work" => index[K(e)] # "consumed"]_vars

(* When the store a run left behind, by ending or by crashing, covers the  *)
(* rows of a plain seed, so that the next run prunes the seed, its item is *)
(* done or can be replayed.                                                *)
CoveredIsRecoverable ==
  phase # "up" => \A a \in Plain :
                    RowsOf[a] \subseteq Covered => K(a) \in done \/ Replayable(K(a))

(* A run with the worker that ends without failures and interruption       *)
(* leaves nothing undone: neither pruning, nor a lost claim, nor a skip of *)
(* this or of any earlier run lost an item.                                *)
CleanRunDone ==
  phase = "over" /\ worker /\ Clean => \A a \in Item : K(a) \in done

(* A row whose payload never reached the dataset.                          *)
Torn(k) == row[k] = "stored" /\ HasDataset /\ ~KeyOnly /\ k \notin shard

(* However the first runs are interrupted, resuming completes the work,    *)
(* but for items that a fault between Commit and Put tore apart and for a  *)
(* run that hangs after a panic and is never killed; and in the end the    *)
(* source is no longer read and nothing is reseeded.                       *)
ResumeCompletes == \A a \in Item : <>(K(a) \in done) \/ <>[]Torn(K(a)) \/ <>[]Hung
ResumeSettles   == <>[](\A e \in Env : pc[e] = "absent") \/ <>[]Hung
=============================================================================
