-------------------------- MODULE CheckpointProofs --------------------------
(***************************************************************************)
(* Proofs about Checkpoint for every set of keys, rows, items and faults.  *)
(***************************************************************************)
EXTENDS Checkpoint, TLAPS

(* Every step is one of these.                                             *)
LEMMA StepCases ==
  ASSUME [Next]_vars
  PROVE  \/ \E w \in BOOLEAN : StartRun(w)
         \/ \E e \in Env :
              \/ Reserve(e) \/ Commit(e) \/ Put(e) \/ ClaimNew(e) \/ Claim(e)
              \/ Succeed(e) \/ Consume(e) \/ Publish(e) \/ Unclaim(e)
              \/ Abandon(e) \/ StoreError(e) \/ ConsumeError(e) \/ WorkerError(e)
              \/ Panic(e)
         \/ Shutdown \/ EndRun \/ Crash \/ UNCHANGED vars
  BY DEF Next, Step

LEMMA KeyOf == \A e \in Env : K(e) \in Key
  BY CheckpointAssumption DEF CheckpointAssumption, Env, Item, K

(* An item's coverage is a set of rows.                                    *)
LEMMA RowsOfItem == \A e \in Item : RowsOf[e] \in SUBSET Row
  BY CheckpointAssumption DEF CheckpointAssumption, Item

LEMMA Constants == MaxFaults \in Nat /\ {KeyOnly, Targeted, HasDataset} \subseteq BOOLEAN
  BY CheckpointAssumption DEF CheckpointAssumption

-----------------------------------------------------------------------------
(* Types.  A shard has a row because the row is committed first, and is    *)
(* still there when the payload is put.                                    *)

Statuses  == {"none", "stored", "consumed"}
Workers   == {"claimNew", "claim", "work", "consume", "publish", "unclaim", "panicked"}
PutHasRow == \A e \in Env : pc[e] = "put" => row[K(e)] # "none"
TypeInv   == TypeOK /\ PutHasRow

LEMMA TypeParts ==
  ASSUME TypeOK
  PROVE  /\ row \in [Key -> Statuses] /\ index \in [Key -> Statuses]
         /\ cov \in [Key -> SUBSET Row] /\ pc \in [Env -> Stage]
         /\ \A e \in Env : pc[e] \in Workers => worker
         /\ worker \in BOOLEAN
  BY DEF TypeOK, Statuses, Workers, In

LEMMA AfterStoreStage ==
  ASSUME TypeOK
  PROVE  /\ AfterStore \in Stage /\ AfterStore # "put" /\ AfterStore # "commit"
         /\ AfterStore # "work"
         /\ AfterStore \in Workers => worker
  BY DEF AfterStore, Stage, Settled, Workers

(* A step that moves one envelope to a stage it may be in, and leaves the  *)
(* worker, the store and the dataset alone.                                *)
LEMMA MoveType ==
  ASSUME TypeInv, NEW e \in Env, NEW s \in Stage, Goto(e, s),
         s # "put", s \in Workers => worker,
         UNCHANGED <<durable, run>>,
         index' \in [Key -> Statuses], running' \subseteq Key,
         done' \subseteq Key, raced' \subseteq Key, target' \subseteq Env,
         faults' \in 0 .. MaxFaults
  PROVE  TypeInv'
<1>1. pc' \in [Env -> Stage] /\ \A f \in Env : pc'[f] = IF f = e THEN s ELSE pc[f]
  BY DEF TypeInv, TypeOK, Goto
<1>2. UNCHANGED <<row, cov, shard, extent, phase, worker, stopping>>
  BY DEF durable, run
<1>3. PutHasRow'
  BY <1>1, <1>2 DEF TypeInv, PutHasRow, K
<1>4. \A f \in Env : pc'[f] \in Workers => worker
  BY <1>1, TypeParts DEF TypeInv
<1>5. TypeOK'
  BY <1>1, <1>2, <1>4 DEF TypeInv, TypeOK, Statuses, Workers, In
<1> QED
  BY <1>3, <1>5 DEF TypeInv

LEMMA InitType == Init => TypeInv
<1> SUFFICES ASSUME Init PROVE TypeInv
  OBVIOUS
<1>1. row \in [Key -> Statuses] /\ index \in [Key -> Statuses]
  BY DEF Init, Statuses
<1>2. cov \in [Key -> SUBSET Row] /\ \A k \in shard : row[k] # "none"
  BY CheckpointAssumption DEF Init, CheckpointAssumption
<1>3. pc \in [Env -> Stage] /\ \A e \in Env : pc[e] = "absent"
  BY DEF Init, Stage, Settled
<1>4. /\ shard \subseteq Key /\ running \subseteq Key /\ done \subseteq Key
      /\ raced \subseteq Key /\ target \subseteq Env
  BY DEF Init
<1>5. faults \in 0 .. MaxFaults /\ {extent, worker, stopping} \subseteq BOOLEAN
  <2>1. MaxFaults \in Nat /\ faults = 0
    BY Constants DEF Init
  <2>2. extent = FALSE /\ worker = FALSE /\ stopping = FALSE
    BY DEF Init
  <2>3. faults \in 0 .. MaxFaults
    BY <2>1
  <2>4. {extent, worker, stopping} \subseteq BOOLEAN
    BY <2>2, Zenon
  <2> QED
    BY <2>3, <2>4
<1>6. phase \in {"up", "over", "down"}
  BY DEF Init
<1>7. In(Workers) = {}
  BY <1>3 DEF In, Workers
<1>8. TypeOK
  BY <1>1, <1>2, <1>3, <1>4, <1>5, <1>6, <1>7 DEF TypeOK, Statuses, Workers
<1> QED
  BY <1>3, <1>8 DEF TypeInv, PutHasRow

LEMMA FaultType ==
  ASSUME TypeOK, Fault PROVE faults' \in 0 .. MaxFaults
  BY Constants DEF TypeOK, Fault

LEMMA NextType == TypeInv /\ [Next]_vars => TypeInv'
<1> SUFFICES ASSUME TypeInv, [Next]_vars PROVE TypeInv'
  OBVIOUS
<1> USE DEF TypeInv
<1>1. ASSUME NEW w \in BOOLEAN, StartRun(w) PROVE TypeInv'
  <2>1. /\ pc' \in [Env -> Stage]
        /\ \A e \in Env : pc'[e] \in {"queued", "absent"}
    BY <1>1 DEF StartRun, Stage, Settled
  <2>2. faults' \in 0 .. MaxFaults
    BY <1>1, FaultType DEF StartRun, TypeOK
  <2>3. In(Workers)' = {}
    BY <2>1 DEF In, Workers
  <2>4. /\ UNCHANGED <<row, cov, shard, extent, done>> /\ index' = row
        /\ running' = {} /\ target' = {} /\ raced' = {} /\ phase' = "up" /\ worker' = w
        /\ stopping' = FALSE
    BY <1>1 DEF StartRun, durable
  <2>5. TypeOK'
    BY <2>1, <2>2, <2>3, <2>4 DEF TypeOK, Workers
  <2>6. PutHasRow'
    BY <2>1 DEF PutHasRow
  <2> QED
    BY <2>5, <2>6
<1>2. ASSUME NEW e \in Env, Reserve(e) PROVE TypeInv'
  <2> DEFINE s == IF index[K(e)] = "none" THEN "commit"
                  ELSE IF index[K(e)] = "stored" /\ worker THEN "claim" ELSE "skipped"
  <2>1. s \in Stage /\ s # "put" /\ (s \in Workers => worker)
    BY DEF Stage, Settled, Workers
  <2>2. index' \in [Key -> Statuses]
    BY <1>2, KeyOf, TypeParts DEF Reserve, Statuses
  <2>3. Goto(e, s) /\ UNCHANGED <<durable, run, running, done, raced, target, faults>>
    BY <1>2 DEF Reserve
  <2> HIDE DEF s
  <2> QED
    BY <2>1, <2>2, <2>3, MoveType DEF TypeOK
<1>3. ASSUME NEW e \in Env, Commit(e) PROVE TypeInv'
  <2> DEFINE s == IF HasDataset /\ ~KeyOnly THEN "put" ELSE AfterStore
  <2>1. s \in Stage /\ (s \in Workers => worker)
    BY AfterStoreStage DEF Stage, Workers
  <2>2. Goto(e, s) /\ UNCHANGED <<extent, index, running, target, run, faults, done, raced>>
    BY <1>3 DEF Commit
  <2>3. /\ row' = [row EXCEPT ![K(e)] = "stored"]
        /\ cov' = [cov EXCEPT ![K(e)] = IF e \in Item THEN RowsOf[e] ELSE @]
        /\ shard' = shard \ {K(e)}
    BY <1>3 DEF Commit
  <2> HIDE DEF s
  <2>4. pc' \in [Env -> Stage] /\ \A f \in Env : pc'[f] = IF f = e THEN s ELSE pc[f]
    BY <2>1, <2>2 DEF TypeOK, Goto
  <2>5. row' \in [Key -> Statuses] /\ cov' \in [Key -> SUBSET Row]
    BY <2>3, TypeParts, KeyOf, RowsOfItem DEF Statuses
  <2>6. \A k \in Key : row[k] # "none" \/ k = K(e) => row'[k] # "none"
    BY <2>3, TypeParts, KeyOf
  <2>7. \A k \in shard' : row'[k] # "none"
    BY <2>3, <2>6 DEF TypeOK
  <2>8. \A f \in Env : pc'[f] \in Workers => worker'
    BY <2>1, <2>2, <2>4, TypeParts DEF run
  <2>9. UNCHANGED <<phase, worker, stopping>>
    BY <2>2 DEF run
  <2>10. TypeOK'
    BY <2>2, <2>3, <2>4, <2>5, <2>7, <2>8, <2>9 DEF TypeOK, Statuses, Workers, In
  <2>11. PutHasRow'
    BY <2>4, <2>6, KeyOf DEF PutHasRow, K
  <2> QED
    BY <2>10, <2>11
<1>4. ASSUME NEW e \in Env, Put(e) PROVE TypeInv'
  <2>1. /\ Goto(e, AfterStore) /\ shard' = shard \cup {K(e)} /\ pc[e] = "put"
        /\ UNCHANGED <<row, cov, extent, index, running, target, run, faults, done, raced>>
    BY <1>4 DEF Put
  <2>2. /\ pc' \in [Env -> Stage]
        /\ \A f \in Env : pc'[f] = IF f = e THEN AfterStore ELSE pc[f]
    BY <2>1, AfterStoreStage DEF TypeOK, Goto
  <2>3. \A k \in shard' : row'[k] # "none"
    BY <2>1 DEF TypeOK, PutHasRow
  <2>4. \A f \in Env : pc'[f] \in Workers => worker'
    BY <2>1, <2>2, AfterStoreStage, TypeParts DEF run
  <2>5. UNCHANGED <<phase, worker, stopping>>
    BY <2>1 DEF run
  <2>6. shard' \subseteq Key
    BY <2>1, KeyOf DEF TypeOK
  <2>7. TypeOK'
    BY <2>1, <2>2, <2>3, <2>4, <2>5, <2>6 DEF TypeOK, Workers, In
  <2>8. PutHasRow'
    BY <2>1, <2>2, AfterStoreStage DEF PutHasRow, K
  <2> QED
    BY <2>7, <2>8
<1>5. ASSUME NEW e \in Env, ClaimNew(e) PROVE TypeInv'
  <2>1. "work" \in Stage /\ pc[e] \in Workers
    BY <1>5 DEF Stage, Workers, ClaimNew
  <2>2. worker /\ running' \subseteq Key /\ raced' \subseteq Key
    BY <1>5, <2>1, KeyOf, TypeParts DEF ClaimNew, TypeOK
  <2>3. Goto(e, "work") /\ UNCHANGED <<durable, run, index, done, target, faults>>
    BY <1>5 DEF ClaimNew
  <2> QED
    BY <2>1, <2>2, <2>3, MoveType DEF TypeOK, Statuses
<1>6. ASSUME NEW e \in Env, Claim(e) PROVE TypeInv'
  <2> DEFINE s == IF K(e) \in running THEN "skipped"
                  ELSE IF e \in target THEN "failed" ELSE "work"
  <2>1. s \in Stage /\ s # "put" /\ pc[e] \in Workers
    BY <1>6 DEF Stage, Settled, Workers, Claim
  <2>2. worker /\ running' \subseteq Key
    BY <1>6, <2>1, KeyOf, TypeParts DEF Claim, TypeOK
  <2>3. Goto(e, s) /\ UNCHANGED <<durable, run, index, done, raced, target, faults>>
    BY <1>6 DEF Claim
  <2> HIDE DEF s
  <2> QED
    BY <2>1, <2>2, <2>3, MoveType DEF TypeOK, Statuses
<1>7. ASSUME NEW e \in Env, Succeed(e) PROVE TypeInv'
  <2>1. "consume" \in Stage /\ pc[e] \in Workers
    BY <1>7 DEF Stage, Workers, Succeed
  <2>2. worker /\ done' \subseteq Key
    BY <1>7, <2>1, KeyOf, TypeParts DEF Succeed, TypeOK
  <2>3. Goto(e, "consume") /\ UNCHANGED <<durable, run, index, running, raced, target, faults>>
    BY <1>7 DEF Succeed
  <2> QED
    BY <2>1, <2>2, <2>3, MoveType DEF TypeOK, Statuses
<1>8. ASSUME NEW e \in Env, Consume(e) PROVE TypeInv'
  <2>1. /\ row' = [row EXCEPT ![K(e)] = IF @ = "none" THEN @ ELSE "consumed"]
        /\ Goto(e, "publish") /\ pc[e] \in Workers
        /\ UNCHANGED <<cov, shard, extent, index, running, target, run, faults, done, raced>>
    BY <1>8 DEF Consume, Workers
  <2>2. row' \in [Key -> Statuses] /\ \A k \in Key : row[k] # "none" => row'[k] # "none"
    BY <2>1, TypeParts, KeyOf DEF Statuses
  <2>3. /\ pc' \in [Env -> Stage]
        /\ \A f \in Env : pc'[f] = IF f = e THEN "publish" ELSE pc[f]
    BY <2>1 DEF TypeOK, Goto, Stage
  <2>4. \A f \in Env : pc'[f] \in Workers => worker'
    BY <2>1, <2>3, TypeParts DEF run
  <2>5. UNCHANGED <<phase, worker, stopping>>
    BY <2>1 DEF run
  <2>6. \A k \in shard' : row'[k] # "none"
    BY <2>1, <2>2 DEF TypeOK
  <2>7. TypeOK'
    BY <2>1, <2>2, <2>3, <2>4, <2>5, <2>6 DEF TypeOK, Statuses, Workers, In
  <2>8. PutHasRow'
    BY <2>2, <2>3, KeyOf DEF PutHasRow, K
  <2> QED
    BY <2>7, <2>8
<1>9. ASSUME NEW e \in Env, Publish(e) PROVE TypeInv'
  <2>1. "unclaim" \in Stage /\ pc[e] \in Workers
    BY <1>9 DEF Stage, Workers, Publish
  <2>2. worker /\ index' \in [Key -> Statuses]
    BY <1>9, <2>1, KeyOf, TypeParts DEF Publish, Statuses
  <2>3. Goto(e, "unclaim") /\ UNCHANGED <<durable, run, running, done, raced, target, faults>>
    BY <1>9 DEF Publish
  <2> QED
    BY <2>1, <2>2, <2>3, MoveType DEF TypeOK
<1>10. ASSUME NEW e \in Env, \/ Unclaim(e) \/ Abandon(e) \/ StoreError(e)
                             \/ ConsumeError(e) \/ WorkerError(e)
       PROVE TypeInv'
  <2>1. /\ \E s \in Settled \cup {"queued"} : Goto(e, s)
        /\ UNCHANGED <<durable, run, index, done, raced>>
        /\ running' \subseteq Key
    BY <1>10 DEF Unclaim, Abandon, StoreError, ConsumeError, WorkerError, Decide,
                 Settled, TypeOK
  <2>2. target' \subseteq Env
    BY <1>10 DEF Unclaim, Abandon, StoreError, ConsumeError, WorkerError, Decide, TypeOK
  <2>3. faults' \in 0 .. MaxFaults
    BY <1>10, FaultType
       DEF Unclaim, Abandon, StoreError, ConsumeError, WorkerError, TypeOK
  <2>4. PICK s \in Settled \cup {"queued"} : Goto(e, s)
    BY <2>1
  <2>5. s \in Stage /\ s # "put" /\ s \notin Workers
    BY DEF Stage, Settled, Workers
  <2> QED
    BY <2>1, <2>2, <2>3, <2>4, <2>5, MoveType DEF TypeOK, Statuses
<1>11. CASE Shutdown \/ EndRun
  <2>1. /\ UNCHANGED <<row, cov, shard, index, running, pc, target, worker, done, raced>>
        /\ extent' \in BOOLEAN /\ stopping' \in BOOLEAN
        /\ phase' \in {"up", "over", "down"}
    BY <1>11 DEF Shutdown, EndRun, durable, TypeOK
  <2>2. faults' \in 0 .. MaxFaults
    BY <1>11, FaultType DEF Shutdown, EndRun, TypeOK
  <2>3. TypeOK'
    BY <2>1, <2>2 DEF TypeOK, In
  <2>4. PutHasRow'
    BY <2>1 DEF PutHasRow
  <2> QED
    BY <2>3, <2>4
<1>12. CASE Crash
  <2>1. /\ UNCHANGED <<row, cov, shard, extent, worker, stopping, done, raced>>
        /\ phase' = "down" /\ running' = {} /\ target' = {}
        /\ pc' = [e \in Env |-> "absent"] /\ index' = [k \in Key |-> "none"]
    BY <1>12 DEF Crash, durable
  <2>2. faults' \in 0 .. MaxFaults
    BY <1>12, FaultType DEF Crash, TypeOK
  <2>3. /\ pc' \in [Env -> Stage] /\ index' \in [Key -> Statuses]
        /\ \A e \in Env : pc'[e] = "absent"
    BY <2>1 DEF Stage, Settled, Statuses
  <2>4. In(Workers)' = {}
    BY <2>3 DEF In, Workers
  <2>5. TypeOK'
    BY <2>1, <2>2, <2>3, <2>4 DEF TypeOK, Statuses, Workers
  <2>6. PutHasRow'
    BY <2>3 DEF PutHasRow
  <2> QED
    BY <2>5, <2>6
<1>13. CASE UNCHANGED vars
  <2>1. UNCHANGED <<row, cov, shard, extent, index, running, pc, target,
                    phase, worker, stopping, faults, done, raced>>
    BY <1>13 DEF vars, durable, run
  <2>2. TypeOK'
    BY <2>1 DEF TypeOK, In
  <2>3. PutHasRow'
    BY <2>1 DEF PutHasRow
  <2> QED
    BY <2>2, <2>3
<1>14. ASSUME NEW e \in Env, Panic(e) PROVE TypeInv'
  <2> DEFINE s == IF pc[e] = "work" THEN "panicked" ELSE "unwound"
  <2>1. s \in Stage /\ s # "put" /\ (s \in Workers => pc[e] \in Workers)
    BY DEF Stage, Workers
  <2>2. /\ Goto(e, s) /\ UNCHANGED <<durable, run, index, running, done, raced, target>>
        /\ faults' \in 0 .. MaxFaults
    BY <1>14, FaultType DEF Panic
  <2>3. s \in Workers => worker
    BY <2>1, TypeParts
  <2> HIDE DEF s
  <2> QED
    BY <2>1, <2>2, <2>3, MoveType DEF TypeOK, Statuses
<1> QED
  BY <1>1, <1>2, <1>3, <1>4, <1>5, <1>6, <1>7, <1>8, <1>9, <1>10, <1>11, <1>12,
     <1>13, <1>14, StepCases

(* Every variable keeps its type over any number of runs and crashes, no   *)
(* shard outlives its row, and nothing is claimed without a worker.        *)
THEOREM Types == Spec => []TypeOK
<1>1. TypeInv => TypeOK
  BY DEF TypeInv
<1> QED
  BY <1>1, InitType, NextType, PTL DEF Spec

-----------------------------------------------------------------------------
(* One materialization per key.  Whoever is about to commit a key has      *)
(* reserved it when neither the index nor the store knew it, and nobody    *)
(* else is about to: the store cannot have gained a row meanwhile.         *)

CommitsOwn ==
  /\ \A e \in Env : pc[e] = "commit" => row[K(e)] = "none" /\ index[K(e)] # "none"
  /\ \A e, f \in Env : pc[e] = "commit" /\ pc[f] = "commit" /\ K(e) = K(f) => e = f

(* Between runs nobody commits; during one, the index knows every row.     *)
IndexKnows ==
  /\ phase = "up" => \A k \in Key : index[k] = "none" => row[k] = "none"
  /\ phase # "up" => \A e \in Env : pc[e] \in Settled

ReserveInv == TypeInv /\ CommitsOwn /\ IndexKnows

LEMMA InitReserve == Init => ReserveInv
<1> SUFFICES ASSUME Init PROVE ReserveInv
  OBVIOUS
<1>1. \A e \in Env : pc[e] = "absent" /\ phase = "over"
  BY DEF Init
<1>2. CommitsOwn
  BY <1>1 DEF CommitsOwn
<1>3. IndexKnows
  BY <1>1 DEF IndexKnows, Settled, Init
<1> QED
  BY <1>2, <1>3, InitType DEF ReserveInv

(* A step of one envelope that commits nothing and reserves nothing.       *)
LEMMA MoveReserve ==
  ASSUME ReserveInv, NEW e \in Env, NEW s, Goto(e, s), s # "commit",
         phase = "up", phase' = "up", UNCHANGED row,
         \A k \in Key : index'[k] = index[k] \/ index'[k] # "none"
  PROVE  CommitsOwn' /\ IndexKnows'
<1>1. \A f \in Env : pc'[f] = "commit" => pc[f] = "commit"
  BY DEF ReserveInv, TypeInv, TypeOK, Goto
<1>2. CommitsOwn'
  BY <1>1, KeyOf DEF ReserveInv, CommitsOwn, K
<1>3. IndexKnows'
  BY DEF ReserveInv, IndexKnows
<1> QED
  BY <1>2, <1>3

(* An envelope that is not settled is part of a run.                       *)
LEMMA RunsUp ==
  ASSUME ReserveInv, NEW e \in Env, pc[e] \notin Settled PROVE phase = "up"
  BY DEF ReserveInv, IndexKnows

LEMMA NextReserve ==
  ReserveInv /\ [Next]_vars => ReserveInv' /\ (RowKept \/ UNCHANGED row)
<1> SUFFICES ASSUME ReserveInv, [Next]_vars
             PROVE  CommitsOwn' /\ IndexKnows' /\ (RowKept \/ UNCHANGED row)
  BY NextType DEF ReserveInv
<1>0. TypeOK
  BY DEF ReserveInv, TypeInv
<1>1. ASSUME NEW w \in BOOLEAN, StartRun(w)
      PROVE  CommitsOwn' /\ IndexKnows' /\ UNCHANGED row
  <2>1. /\ \A e \in Env : pc'[e] # "commit"
        /\ phase' = "up" /\ index' = row /\ row' = row
    BY <1>1 DEF StartRun, durable
  <2> QED
    BY <2>1 DEF CommitsOwn, IndexKnows
<1>2. ASSUME NEW e \in Env, Reserve(e)
      PROVE  CommitsOwn' /\ IndexKnows' /\ UNCHANGED row
  <2> DEFINE s == IF index[K(e)] = "none" THEN "commit"
                  ELSE IF index[K(e)] = "stored" /\ worker THEN "claim" ELSE "skipped"
  <2>1. /\ Goto(e, s) /\ row' = row /\ phase' = phase
        /\ index' = [index EXCEPT ![K(e)] = IF @ = "none" THEN "stored" ELSE @]
    BY <1>2 DEF Reserve, durable, run
  <2>2. phase = "up"
    BY <1>2, RunsUp DEF Reserve, Settled
  <2>3. \A k \in Key : index'[k] # "none" \/ (k # K(e) /\ index'[k] = index[k])
    BY <2>1, <1>0, TypeParts, KeyOf
  <2>4. CASE index[K(e)] = "none"
    <3>1. row[K(e)] = "none" /\ index'[K(e)] # "none"
      BY <2>2, <2>3, <2>4, KeyOf DEF ReserveInv, IndexKnows
    <3>2. \A f \in Env : pc[f] = "commit" => K(f) # K(e)
      BY <2>4 DEF ReserveInv, CommitsOwn
    <3>3. \A f \in Env : pc'[f] = IF f = e THEN "commit" ELSE pc[f]
      BY <2>1, <2>4, <1>0, TypeParts DEF Goto
    <3>4. CommitsOwn'
      <4>1. \A f \in Env : pc'[f] = "commit" => row'[K(f)] = "none" /\ index'[K(f)] # "none"
        BY <2>1, <2>3, <3>1, <3>3, KeyOf DEF ReserveInv, CommitsOwn
      <4>2. \A f, g \in Env : pc'[f] = "commit" /\ pc'[g] = "commit" /\ K(f) = K(g) => f = g
        BY <3>2, <3>3 DEF ReserveInv, CommitsOwn
      <4> QED
        BY <4>1, <4>2 DEF CommitsOwn, K
    <3>5. IndexKnows'
      BY <2>1, <2>2, <2>3 DEF ReserveInv, IndexKnows
    <3> QED
      BY <2>1, <3>4, <3>5
  <2>5. CASE index[K(e)] # "none"
    <3>1. s # "commit" /\ \A k \in Key : index'[k] = index[k] \/ index'[k] # "none"
      BY <2>3, <2>5
    <3> HIDE DEF s
    <3> QED
      BY <2>1, <2>2, <3>1, MoveReserve
  <2> QED
    BY <2>4, <2>5
<1>3. ASSUME NEW e \in Env, Commit(e) PROVE CommitsOwn' /\ IndexKnows' /\ RowKept
  <2> DEFINE s == IF HasDataset /\ ~KeyOnly THEN "put" ELSE AfterStore
  <2>1. /\ pc[e] = "commit" /\ Goto(e, s) /\ index' = index /\ phase' = phase
        /\ row' = [row EXCEPT ![K(e)] = "stored"]
    BY <1>3 DEF Commit, run
  <2>2. row[K(e)] = "none" /\ index[K(e)] # "none"
    BY <2>1 DEF ReserveInv, CommitsOwn
  <2>3. \A k \in Key : row'[k] = IF k = K(e) THEN "stored" ELSE row[k]
    BY <2>1, <1>0, TypeParts
  <2>4. s # "commit"
    BY AfterStoreStage, <1>0
  <2>5. \A f \in Env : pc'[f] = "commit" => pc[f] = "commit" /\ K(f) # K(e)
    <3>1. \A f \in Env : pc'[f] = "commit" => pc[f] = "commit" /\ f # e
      BY <2>1, <2>4, <1>0, TypeParts DEF Goto
    <3> QED
      BY <2>1, <3>1 DEF ReserveInv, CommitsOwn
  <2>6. CommitsOwn'
    BY <2>1, <2>3, <2>5, KeyOf DEF ReserveInv, CommitsOwn, K
  <2>7. phase = "up"
    BY <2>1, RunsUp DEF Settled
  <2>8. IndexKnows'
    BY <2>1, <2>2, <2>3, <2>7 DEF ReserveInv, IndexKnows
  <2>9. RowKept
    BY <2>2, <2>3 DEF RowKept
  <2> QED
    BY <2>6, <2>8, <2>9
<1>4. ASSUME NEW e \in Env, Consume(e) PROVE CommitsOwn' /\ IndexKnows' /\ RowKept
  <2>1. /\ Goto(e, "publish") /\ index' = index /\ phase' = phase /\ pc[e] = "consume"
        /\ row' = [row EXCEPT ![K(e)] = IF @ = "none" THEN @ ELSE "consumed"]
    BY <1>4 DEF Consume, run
  <2>2. \A k \in Key : /\ row'[k] = "none" <=> row[k] = "none"
                      /\ row[k] = "consumed" => row'[k] = "consumed"
    BY <2>1, <1>0, TypeParts, KeyOf
  <2>3. \A f \in Env : pc'[f] = "commit" => pc[f] = "commit"
    BY <2>1, <1>0, TypeParts DEF Goto
  <2>4. CommitsOwn'
    BY <2>1, <2>2, <2>3, KeyOf DEF ReserveInv, CommitsOwn, K
  <2>5. phase = "up"
    BY <2>1, RunsUp DEF Settled
  <2>6. IndexKnows'
    BY <2>1, <2>2, <2>5 DEF ReserveInv, IndexKnows
  <2> QED
    BY <2>2, <2>4, <2>6 DEF RowKept
<1>5. ASSUME NEW e \in Env,
             \/ Put(e) \/ ClaimNew(e) \/ Claim(e) \/ Succeed(e) \/ Publish(e)
             \/ Unclaim(e) \/ Abandon(e) \/ StoreError(e) \/ ConsumeError(e)
             \/ WorkerError(e) \/ Panic(e)
      PROVE  CommitsOwn' /\ IndexKnows' /\ UNCHANGED row
  <2>1. row' = row /\ phase' = phase /\ pc[e] \notin Settled
    BY <1>5 DEF Put, ClaimNew, Claim, Succeed, Publish, Unclaim, Abandon, StoreError,
                ConsumeError, WorkerError, Panic, durable, run, Settled
  <2>2. PICK s : Goto(e, s) /\ s # "commit"
    <3>1. CASE Put(e)
      BY <3>1, AfterStoreStage, <1>0 DEF Put
    <3>2. CASE WorkerError(e)
      BY <3>2 DEF WorkerError, Decide
    <3>3. CASE Claim(e) \/ Panic(e)
      BY <3>3 DEF Claim, Panic
    <3>4. CASE \/ ClaimNew(e) \/ Succeed(e) \/ Publish(e) \/ Unclaim(e)
               \/ Abandon(e) \/ StoreError(e) \/ ConsumeError(e)
      BY <3>4 DEF ClaimNew, Succeed, Publish, Unclaim, Abandon, StoreError, ConsumeError
    <3> QED
      BY <1>5, <3>1, <3>2, <3>3, <3>4
  <2>3. \A k \in Key : index'[k] = index[k] \/ index'[k] # "none"
    <3>1. CASE Publish(e)
      BY <3>1, <1>0, TypeParts, KeyOf DEF Publish
    <3>2. CASE ~Publish(e)
      BY <1>5, <3>2 DEF Put, ClaimNew, Claim, Succeed, Unclaim, Abandon, StoreError,
                        ConsumeError, WorkerError, Panic
    <3> QED
      BY <3>1, <3>2
  <2>4. phase = "up"
    BY <2>1, RunsUp
  <2> QED
    BY <2>1, <2>2, <2>3, <2>4, MoveReserve
<1>6. CASE Shutdown \/ UNCHANGED vars
  <2>1. UNCHANGED <<row, index, pc, phase>>
    BY <1>6 DEF Shutdown, vars, durable, run
  <2>2. CommitsOwn'
    BY <2>1 DEF ReserveInv, CommitsOwn
  <2>3. IndexKnows'
    BY <2>1 DEF ReserveInv, IndexKnows
  <2> QED
    BY <2>1, <2>2, <2>3
<1>7. CASE EndRun
  <2>1. /\ UNCHANGED <<row, index, pc>> /\ phase' = "over"
        /\ \A e \in Env : pc[e] \in Settled
    BY <1>7 DEF EndRun
  <2> QED
    BY <2>1 DEF ReserveInv, CommitsOwn, IndexKnows, Settled
<1>8. CASE Crash
  <2>1. /\ row' = row /\ phase' = "down" /\ \A e \in Env : pc'[e] = "absent"
    BY <1>8 DEF Crash, durable
  <2> QED
    BY <2>1 DEF CommitsOwn, IndexKnows, Settled
<1> QED
  BY <1>1, <1>2, <1>3, <1>4, <1>5, <1>6, <1>7, <1>8, StepCases

(* However many arrivals race for a key, over any number of runs, the      *)
(* store never loses a row nor writes over one that was consumed.          *)
THEOREM Monotone == Spec => StoreMonotone
<1>1. ReserveInv /\ [Next]_vars => [RowKept]_vars
  <2>1. UNCHANGED row => RowKept
    BY DEF RowKept
  <2> QED
    BY <2>1, NextReserve
<1> QED
  BY <1>1, InitReserve, NextReserve, PTL DEF Spec, StoreMonotone

-----------------------------------------------------------------------------
(* Claims.  A step moves one envelope.  A claim that it takes or keeps is  *)
(* that of an envelope at work, panicked or refused; the claims of other   *)
(* keys, and of other envelopes of its key, it leaves alone.               *)

Accounted(k) == \E e \in Env : K(e) = k /\ Claims(e)
ClaimInv == TypeOK /\ ClaimsAccounted

LEMMA MoveClaims ==
  ASSUME ClaimInv, NEW e \in Env, NEW s, Goto(e, s),
         pc[e] \notin {"panicked", "failed"},
         target \subseteq target', done \subseteq done',
         \A k \in running' \ done' : \/ k = K(e) /\ Claims(e)'
                                     \/ k \in running /\ (k # K(e) \/ pc[e] # "work")
  PROVE  ClaimsAccounted'
<1>1. \A f \in Env : f # e => pc'[f] = pc[f]
  BY DEF ClaimInv, TypeOK, Goto
<1>2. \A f \in Env : f # e /\ Claims(f) => Claims(f)'
  BY <1>1 DEF Claims, Refused
<1>3. ASSUME NEW k \in running' \ done'
      PROVE  \E f \in Env : K(f) = k /\ Claims(f)'
  <2>1. CASE k = K(e) /\ Claims(e)'
    BY <2>1
  <2>2. CASE k \in running /\ (k # K(e) \/ pc[e] # "work")
    <3>1. PICK f \in Env : K(f) = k /\ Claims(f)
      BY <1>3, <2>2 DEF ClaimInv, ClaimsAccounted
    <3>2. f # e
      BY <2>2, <3>1 DEF Claims, Refused
    <3> QED
      BY <1>2, <3>1, <3>2
  <2> QED
    BY <1>3, <2>1, <2>2
<1> QED
  BY <1>3 DEF ClaimsAccounted, Claims, Refused, K

LEMMA ClaimStep ==
  ASSUME ClaimInv, [Next]_vars
  PROVE  ClaimsAccounted'
<1>0. TypeOK
  BY DEF ClaimInv
<1>1. ASSUME NEW w \in BOOLEAN, StartRun(w) PROVE ClaimsAccounted'
  BY <1>1 DEF StartRun, ClaimsAccounted
<1>2. ASSUME NEW e \in Env, \/ Reserve(e) \/ Commit(e) \/ Put(e) \/ Consume(e)
                            \/ Publish(e) \/ Unclaim(e) \/ StoreError(e)
                            \/ ConsumeError(e)
      PROVE  ClaimsAccounted'
  <2>1. /\ target' = target /\ done' = done /\ running' \subseteq running
        /\ pc[e] \notin {"work", "panicked", "failed"}
    BY <1>2 DEF Reserve, Commit, Put, Consume, Publish, Unclaim, StoreError, ConsumeError
  <2>2. PICK s : Goto(e, s)
    BY <1>2 DEF Reserve, Commit, Put, Consume, Publish, Unclaim, StoreError, ConsumeError
  <2> QED
    BY <2>1, <2>2, MoveClaims
<1>3. ASSUME NEW e \in Env, ClaimNew(e) \/ Claim(e) PROVE ClaimsAccounted'
  <2>1. /\ pc[e] \notin {"work", "panicked", "failed"}
        /\ running' = running \cup {K(e)} /\ done' = done /\ target' = target
    BY <1>3 DEF ClaimNew, Claim
  <2>2. PICK s : /\ Goto(e, s)
                 /\ \/ s = "skipped" /\ K(e) \in running
                    \/ s = "failed" /\ e \in target
                    \/ s = "work"
    BY <1>3 DEF ClaimNew, Claim
  <2>3. pc'[e] = s
    BY <1>0, <2>2 DEF TypeOK, Goto
  <2>4. K(e) \in running \/ Claims(e)'
    BY <2>1, <2>2, <2>3 DEF Claims, Refused
  <2> QED
    BY <2>1, <2>2, <2>4, MoveClaims
<1>4. ASSUME NEW e \in Env, Succeed(e) \/ WorkerError(e) PROVE ClaimsAccounted'
  <2>1. /\ running' \subseteq running /\ done \subseteq done' /\ pc[e] = "work"
        /\ K(e) \notin running' \ done'
    BY <1>4 DEF Succeed, WorkerError
  <2>2. target \subseteq target'
    BY <1>4 DEF Succeed, WorkerError, Decide
  <2>3. PICK s : Goto(e, s)
    BY <1>4 DEF Succeed, WorkerError, Decide
  <2> QED
    BY <2>1, <2>2, <2>3, MoveClaims
<1>5. ASSUME NEW e \in Env, Abandon(e) PROVE ClaimsAccounted'
  <2>1. /\ target' = target /\ done' = done /\ Goto(e, "unfinished")
        /\ pc[e] \in {"queued", "work"} /\ running' \subseteq running
        /\ pc[e] = "work" => K(e) \notin running'
    BY <1>5 DEF Abandon
  <2> QED
    BY <2>1, MoveClaims
<1>6. ASSUME NEW e \in Env, Panic(e) PROVE ClaimsAccounted'
  <2>1. /\ target' = target /\ done' = done /\ running' = running
        /\ pc[e] \in {"queued", "commit", "work"}
        /\ Goto(e, IF pc[e] = "work" THEN "panicked" ELSE "unwound")
    BY <1>6 DEF Panic
  <2>2. pc[e] = "work" => Claims(e)'
    BY <1>0, <2>1 DEF TypeOK, Goto, Claims
  <2> QED
    BY <2>1, <2>2, MoveClaims
<1>7. CASE Shutdown \/ EndRun \/ UNCHANGED vars
  <2>1. UNCHANGED <<running, done, pc, target>>
    BY <1>7 DEF Shutdown, EndRun, vars
  <2> QED
    BY <2>1 DEF ClaimInv, ClaimsAccounted, Claims, Refused
<1>8. CASE Crash
  BY <1>8 DEF Crash, ClaimsAccounted
<1> QED
  BY <1>1, <1>2, <1>3, <1>4, <1>5, <1>6, <1>7, <1>8, StepCases

(* A claim of an item that is not done belongs to an envelope at work, to  *)
(* one whose process panicked or to one that was refused its instance:     *)
(* errors, retries, cancellation, store errors and crashes leave no other. *)
THEOREM ClaimsKnown == Spec => []ClaimsAccounted
<1>1. Init => ClaimInv /\ TypeInv
  <2>1. Init => running = {}
    BY DEF Init
  <2> QED
    BY <2>1, InitType DEF ClaimInv, ClaimsAccounted, TypeInv
<1>2. ClaimInv /\ TypeInv /\ [Next]_vars => ClaimInv' /\ TypeInv'
  <2>1. TypeInv' => TypeOK'
    BY DEF TypeInv
  <2> QED
    BY <2>1, NextType, ClaimStep DEF ClaimInv
<1>3. ClaimInv => ClaimsAccounted
  BY DEF ClaimInv
<1> QED
  BY <1>1, <1>2, <1>3, PTL DEF Spec

-----------------------------------------------------------------------------
(* One worker per key, but for races.  As long as no first arrival found   *)
(* its key claimed, whoever works for the key, or finishes, holds its      *)
(* claim and is alone with it.                                             *)

Holding == {"work", "consume", "publish", "unclaim"}

OneHolder ==
  /\ \A e \in Env : pc[e] \in Holding /\ K(e) \notin raced => K(e) \in running
  /\ \A e, f \in Env :
       pc[e] \in Holding /\ pc[f] \in Holding /\ K(e) = K(f) /\ K(e) \notin raced => e = f

HolderInv == TypeOK /\ OneHolder

(* A step that moves one envelope and adds no holder.                      *)
LEMMA MoveHolder ==
  ASSUME HolderInv, NEW e \in Env, NEW s, Goto(e, s),
         s \in Holding => pc[e] \in Holding, raced' = raced,
         \/ running \subseteq running'
         \/ s \notin Holding /\ running' = running \ {K(e)} /\ pc[e] \in Holding
  PROVE  OneHolder'
<1>1. \A f \in Env : pc'[f] = IF f = e THEN s ELSE pc[f]
  BY DEF HolderInv, TypeOK, Goto
<1>2. \A f \in Env : pc'[f] \in Holding => pc[f] \in Holding
  BY <1>1
<1>3. \A f \in Env : pc'[f] \in Holding /\ K(f) \notin raced => K(f) \in running'
  <2> SUFFICES ASSUME NEW f \in Env, pc'[f] \in Holding, K(f) \notin raced
               PROVE  K(f) \in running'
    OBVIOUS
  <2>1. pc[f] \in Holding /\ K(f) \in running
    BY <1>2 DEF HolderInv, OneHolder
  <2>2. CASE running \subseteq running'
    BY <2>1, <2>2
  <2>3. CASE s \notin Holding /\ running' = running \ {K(e)} /\ pc[e] \in Holding
    <3>1. f # e
      BY <1>1, <2>3
    <3>2. K(f) # K(e)
      BY <2>1, <2>3, <3>1 DEF HolderInv, OneHolder
    <3> QED
      BY <2>1, <2>3, <3>2
  <2> QED
    BY <2>2, <2>3
<1> QED
  BY <1>2, <1>3 DEF HolderInv, OneHolder, K

(* A step by which one envelope goes to work, either with a claim nobody   *)
(* held or on record as a race.                                            *)
LEMMA NewHolder ==
  ASSUME HolderInv, NEW e \in Env, Goto(e, "work"), running' = running \cup {K(e)},
         raced \subseteq raced', K(e) \in running => K(e) \in raced'
  PROVE  OneHolder'
<1>1. \A f \in Env : pc'[f] = IF f = e THEN "work" ELSE pc[f]
  BY DEF HolderInv, TypeOK, Goto
<1>2. \A f \in Env : f # e /\ K(f) = K(e) /\ K(f) \notin raced' => pc[f] \notin Holding
  BY DEF HolderInv, OneHolder
<1>3. \A f \in Env : pc'[f] \in Holding /\ K(f) \notin raced' => K(f) \in running'
  BY <1>1 DEF HolderInv, OneHolder
<1>4. \A f, g \in Env :
        pc'[f] \in Holding /\ pc'[g] \in Holding /\ K(f) = K(g) /\ K(f) \notin raced' => f = g
  BY <1>1, <1>2 DEF HolderInv, OneHolder
<1> QED
  BY <1>3, <1>4 DEF OneHolder, K

LEMMA InitHolder == Init => HolderInv
<1> SUFFICES ASSUME Init PROVE HolderInv
  OBVIOUS
<1>1. \A e \in Env : pc[e] = "absent"
  BY DEF Init
<1>2. TypeOK
  BY InitType DEF TypeInv
<1> QED
  BY <1>1, <1>2 DEF HolderInv, OneHolder, Holding

LEMMA NextHolder ==
  ASSUME HolderInv, [Next]_vars
  PROVE  OneHolder'
<1>0. TypeOK
  BY DEF HolderInv
<1>1. ASSUME NEW w \in BOOLEAN, StartRun(w) PROVE OneHolder'
  <2>1. \A e \in Env : pc'[e] \in {"queued", "absent"}
    BY <1>1 DEF StartRun
  <2> QED
    BY <2>1 DEF OneHolder, Holding
<1>2. ASSUME NEW e \in Env, Reserve(e) \/ Commit(e) \/ Put(e) PROVE OneHolder'
  <2>1. PICK s : Goto(e, s) /\ s \notin Holding
    BY <1>2 DEF Reserve, Commit, Put, AfterStore, Holding
  <2>2. running' = running /\ raced' = raced
    BY <1>2 DEF Reserve, Commit, Put
  <2> QED
    BY <2>1, <2>2, MoveHolder
<1>3. ASSUME NEW e \in Env, ClaimNew(e) PROVE OneHolder'
  BY <1>3, NewHolder DEF ClaimNew
<1>4. ASSUME NEW e \in Env, Claim(e) PROVE OneHolder'
  <2>1. running' = running \cup {K(e)} /\ raced' = raced
    BY <1>4 DEF Claim
  <2>2. CASE K(e) \in running \/ e \in target
    <3>1. PICK s : Goto(e, s) /\ s \notin Holding
      BY <1>4, <2>2 DEF Claim, Holding
    <3> QED
      BY <2>1, <3>1, MoveHolder
  <2>3. CASE ~(K(e) \in running \/ e \in target)
    <3>1. Goto(e, "work")
      BY <1>4, <2>3 DEF Claim
    <3> QED
      BY <2>1, <2>3, <3>1, NewHolder
  <2> QED
    BY <2>2, <2>3
<1>5. ASSUME NEW e \in Env, \/ Succeed(e) \/ Consume(e) \/ Publish(e) \/ Unclaim(e)
                            \/ ConsumeError(e) \/ WorkerError(e) \/ StoreError(e)
                            \/ Abandon(e) \/ Panic(e)
      PROVE  OneHolder'
  <2>1. PICK s : /\ Goto(e, s) /\ raced' = raced
                 /\ s \in Holding => pc[e] \in Holding
                 /\ \/ running' = running
                    \/ s \notin Holding /\ running' = running \ {K(e)} /\ pc[e] \in Holding
    <3>1. CASE Succeed(e) \/ Consume(e) \/ Publish(e) \/ ConsumeError(e) \/ StoreError(e)
      BY <3>1 DEF Succeed, Consume, Publish, ConsumeError, StoreError, Holding
    <3>2. CASE Unclaim(e) \/ Abandon(e)
      BY <3>2 DEF Unclaim, Abandon, Holding
    <3>3. CASE WorkerError(e)
      BY <3>3 DEF WorkerError, Decide, Holding
    <3>4. CASE Panic(e)
      BY <3>4 DEF Panic, Holding
    <3> QED
      BY <1>5, <3>1, <3>2, <3>3, <3>4
  <2> QED
    BY <2>1, MoveHolder
<1>6. CASE Shutdown \/ EndRun \/ UNCHANGED vars
  <2>1. UNCHANGED <<running, pc, raced>>
    BY <1>6 DEF Shutdown, EndRun, vars
  <2> QED
    BY <2>1 DEF HolderInv, OneHolder
<1>7. CASE Crash
  <2>1. \A e \in Env : pc'[e] = "absent"
    BY <1>7 DEF Crash
  <2> QED
    BY <2>1 DEF OneHolder, Holding
<1> QED
  BY <1>1, <1>2, <1>3, <1>4, <1>5, <1>6, <1>7, StepCases

(* Whatever keys the items have, two envelopes of one key run workers at   *)
(* the same time only after a first arrival found the key claimed by       *)
(* another: replays, retries, releases and resumed runs never bring two    *)
(* together by themselves.                                                 *)
THEOREM OneWorkerButRaces == Spec => []TwoWorkRaced
<1>1. Init => HolderInv /\ TypeInv
  BY InitHolder, InitType
<1>2. HolderInv /\ TypeInv /\ [Next]_vars => HolderInv' /\ TypeInv'
  <2>1. TypeInv' => TypeOK'
    BY DEF TypeInv
  <2> QED
    BY <2>1, NextType, NextHolder DEF HolderInv
<1>3. HolderInv => TwoWorkRaced
  BY DEF HolderInv, OneHolder, TwoWorkRaced, Holding
<1> QED
  BY <1>1, <1>2, <1>3, PTL DEF Spec

-----------------------------------------------------------------------------
(* What covers a row can be played back.  A row of the store covers rows   *)
(* of its key's own items only; a key is consumed only when it is done.    *)
(* So where items of different keys have no rows in common, whatever       *)
(* covers an item's rows is the row of its own key.                        *)

KeyRows(k) == UNION {RowsOf[a] : a \in {b \in Item : KeyFor[b] = k}}
OwnRows == /\ \A k, j \in Key : k # j => KeyRows(k) \cap KeyRows(j) = {}
           /\ \A k \in Key : CovBefore[k] \subseteq KeyRows(k)
InStore == ~KeyOnly /\ ~HasDataset

CoversOwn == \A k \in Key : cov[k] \subseteq KeyRows(k)
ConsumedDone ==
  /\ \A k \in Key : row[k] = "consumed" \/ index[k] = "consumed" => k \in done
  /\ \A e \in Env : pc[e] \in {"consume", "publish", "unclaim"} => K(e) \in done
DoneInv == CoversOwn /\ ConsumedDone

LEMMA ItemRows == \A a \in Item : RowsOf[a] \subseteq KeyRows(K(a)) /\ RowsOf[a] # {}
  BY CheckpointAssumption DEF CheckpointAssumption, KeyRows, K, Item

LEMMA InitDone == OwnRows /\ Init => DoneInv
<1> SUFFICES ASSUME OwnRows, Init PROVE DoneInv
  OBVIOUS
<1>1. CoversOwn
  BY DEF OwnRows, Init, CoversOwn
<1>2. \A k \in Key : row[k] # "consumed" /\ index[k] # "consumed"
  BY DEF Init
<1>3. \A e \in Env : pc[e] = "absent"
  BY DEF Init
<1> QED
  BY <1>1, <1>2, <1>3 DEF DoneInv, ConsumedDone

(* A step of one envelope that leaves coverage alone and consumes nothing  *)
(* but what is done.                                                       *)
LEMMA MoveDone ==
  ASSUME TypeOK, DoneInv, NEW e \in Env, NEW s, Goto(e, s), cov' = cov,
         done \subseteq done',
         s \in {"consume", "publish", "unclaim"} => K(e) \in done',
         \A k \in Key : \/ k \in done'
                        \/ /\ row'[k] = "consumed" => row[k] = "consumed"
                           /\ index'[k] = "consumed" => index[k] = "consumed"
  PROVE  DoneInv'
<1>1. \A f \in Env : pc'[f] = IF f = e THEN s ELSE pc[f]
  BY DEF TypeOK, Goto
<1>2. CoversOwn'
  BY DEF DoneInv, CoversOwn
<1>3. \A k \in Key : row'[k] = "consumed" \/ index'[k] = "consumed" => k \in done'
  BY DEF DoneInv, ConsumedDone
<1>4. \A f \in Env : pc'[f] \in {"consume", "publish", "unclaim"} => K(f) \in done'
  BY <1>1 DEF DoneInv, ConsumedDone
<1> QED
  BY <1>2, <1>3, <1>4 DEF DoneInv, ConsumedDone, K

LEMMA NextDone ==
  ASSUME TypeOK, DoneInv, [Next]_vars
  PROVE  DoneInv'
<1>1. ASSUME NEW w \in BOOLEAN, StartRun(w) PROVE DoneInv'
  <2>1. /\ UNCHANGED <<row, cov, done>> /\ index' = row
        /\ \A e \in Env : pc'[e] \in {"queued", "absent"}
    BY <1>1 DEF StartRun, durable
  <2> QED
    BY <2>1 DEF DoneInv, CoversOwn, ConsumedDone
<1>2. ASSUME NEW e \in Env, Reserve(e) PROVE DoneInv'
  <2> DEFINE s == IF index[K(e)] = "none" THEN "commit"
                  ELSE IF index[K(e)] = "stored" /\ worker THEN "claim" ELSE "skipped"
  <2>1. Goto(e, s) /\ UNCHANGED <<row, cov, done>>
    BY <1>2 DEF Reserve, durable
  <2>2. \A k \in Key : index'[k] = "consumed" => index[k] = "consumed"
    BY <1>2, TypeParts, KeyOf DEF Reserve
  <2>3. s \notin {"consume", "publish", "unclaim"}
    OBVIOUS
  <2> HIDE DEF s
  <2> QED
    BY <2>1, <2>2, <2>3, MoveDone
<1>3. ASSUME NEW e \in Env, Commit(e) PROVE DoneInv'
  <2>1. PICK s : Goto(e, s) /\ s \in {"put", "claimNew", "processed"}
    BY <1>3 DEF Commit, AfterStore
  <2>2. /\ cov' = [cov EXCEPT ![K(e)] = IF e \in Item THEN RowsOf[e] ELSE @]
        /\ row' = [row EXCEPT ![K(e)] = "stored"] /\ UNCHANGED <<index, done>>
    BY <1>3 DEF Commit
  <2>3. CoversOwn'
    <3>1. \A k \in Key : cov'[k] = cov[k] \/ (k = K(e) /\ e \in Item /\ cov'[k] = RowsOf[e])
      BY <2>2, TypeParts, KeyOf
    <3> QED
      BY <3>1, ItemRows DEF DoneInv, CoversOwn
  <2>4. \A f \in Env : pc'[f] = IF f = e THEN s ELSE pc[f]
    BY <2>1 DEF TypeOK, Goto
  <2>5. \A k \in Key : row'[k] = "consumed" => row[k] = "consumed"
    BY <2>2, TypeParts, KeyOf
  <2>6. ConsumedDone'
    <3>1. \A f \in Env : pc'[f] \in {"consume", "publish", "unclaim"} => K(f) \in done'
      BY <2>1, <2>2, <2>4 DEF DoneInv, ConsumedDone
    <3> QED
      BY <2>2, <2>5, <3>1 DEF DoneInv, ConsumedDone, K
  <2> QED
    BY <2>3, <2>6 DEF DoneInv
<1>4. ASSUME NEW e \in Env, Succeed(e) PROVE DoneInv'
  BY <1>4, MoveDone DEF Succeed, durable
<1>5. ASSUME NEW e \in Env, Consume(e) PROVE DoneInv'
  <2>1. /\ Goto(e, "publish") /\ UNCHANGED <<cov, index, done>> /\ K(e) \in done
        /\ row' = [row EXCEPT ![K(e)] = IF @ = "none" THEN @ ELSE "consumed"]
    BY <1>5 DEF Consume, DoneInv, ConsumedDone
  <2>2. \A k \in Key : k = K(e) \/ row'[k] = row[k]
    BY <2>1, TypeParts, KeyOf
  <2> QED
    BY <2>1, <2>2, MoveDone
<1>6. ASSUME NEW e \in Env, Publish(e) PROVE DoneInv'
  <2>1. /\ Goto(e, "unclaim") /\ UNCHANGED <<row, cov, done>> /\ K(e) \in done
        /\ index' = [index EXCEPT ![K(e)] = "consumed"]
    BY <1>6 DEF Publish, DoneInv, ConsumedDone, durable
  <2>2. \A k \in Key : k = K(e) \/ index'[k] = index[k]
    BY <2>1, TypeParts, KeyOf
  <2> QED
    BY <2>1, <2>2, MoveDone
<1>7. ASSUME NEW e \in Env, \/ Put(e) \/ ClaimNew(e) \/ Claim(e) \/ Unclaim(e)
                            \/ Abandon(e) \/ StoreError(e) \/ ConsumeError(e)
                            \/ WorkerError(e) \/ Panic(e)
      PROVE  DoneInv'
  <2>1. UNCHANGED <<row, cov, index, done>>
    BY <1>7 DEF Put, ClaimNew, Claim, Unclaim, Abandon, StoreError, ConsumeError,
                WorkerError, Panic, durable
  <2>2. PICK s : Goto(e, s) /\ s \notin {"consume", "publish", "unclaim"}
    BY <1>7 DEF Put, AfterStore, ClaimNew, Claim, Unclaim, Abandon, StoreError,
                ConsumeError, WorkerError, Panic, Decide
  <2> QED
    BY <2>1, <2>2, MoveDone
<1>8. CASE Shutdown \/ EndRun \/ UNCHANGED vars
  <2>1. UNCHANGED <<row, cov, index, pc, done>>
    BY <1>8 DEF Shutdown, EndRun, vars, durable
  <2> QED
    BY <2>1 DEF DoneInv, CoversOwn, ConsumedDone
<1>9. CASE Crash
  <2>1. /\ UNCHANGED <<row, cov, done>> /\ \A k \in Key : index'[k] = "none"
        /\ \A e \in Env : pc'[e] = "absent"
    BY <1>9 DEF Crash, durable
  <2> QED
    BY <2>1 DEF DoneInv, CoversOwn, ConsumedDone
<1> QED
  BY <1>1, <1>2, <1>3, <1>4, <1>5, <1>6, <1>7, <1>8, <1>9, StepCases

(* An item whose rows are covered is covered by the row of its own key.    *)
LEMMA CoveredItem ==
  ASSUME OwnRows, InStore, TypeOK, DoneInv, NEW a \in Item,
         RowsOf[a] \subseteq Covered
  PROVE  K(a) \in done \/ Replayable(K(a))
<1>1. PICK r \in RowsOf[a] : r \in Covered
  BY ItemRows
<1>2. PICK k \in Key : row[k] # "none" /\ r \in cov[k]
  BY <1>1 DEF Covered
<1>3. r \in KeyRows(k) /\ r \in KeyRows(K(a))
  BY <1>2, ItemRows DEF DoneInv, CoversOwn
<1>4. K(a) \in Key /\ k = K(a)
  BY <1>3, KeyOf DEF OwnRows, Env
<1>5. row[k] \in {"stored", "consumed"}
  BY <1>2, TypeParts DEF Statuses
<1> QED
  BY <1>4, <1>5 DEF InStore, Replayable, DoneInv, ConsumedDone

(* With payloads in the store and rows that only one key's items cover,    *)
(* no seed that the next run would prune is lost, however many runs were   *)
(* interrupted and wherever they crashed.                                  *)
THEOREM CoveredKept == ASSUME OwnRows, InStore PROVE Spec => []CoveredIsRecoverable
<1>1. Init => DoneInv /\ TypeInv
  BY InitDone, InitType
<1>2. DoneInv /\ TypeInv /\ [Next]_vars => DoneInv' /\ TypeInv'
  <2>1. TypeInv => TypeOK
    BY DEF TypeInv
  <2> QED
    BY <2>1, NextType, NextDone
<1>3. DoneInv /\ TypeInv => CoveredIsRecoverable
  BY CoveredItem DEF TypeInv, CoveredIsRecoverable, Item
<1> QED
  BY <1>1, <1>2, <1>3, PTL DEF Spec

-----------------------------------------------------------------------------
(* A clean run leaves nothing undone.  While a run with the worker is      *)
(* clean, the key of every item is done or some envelope of the key is     *)
(* still on its way.  An envelope is settled without its key being done    *)
(* only by a failure, by a shutdown, or by a skip: of a consumed key,      *)
(* which is done, or of a claimed one, whose claim belongs, as long as the *)
(* key is not done, to a worker or to an envelope that panicked and keeps  *)
(* the run from ending.                                                    *)

OnItsWay(k) == \E e \in Env : K(e) = k /\ pc[e] \notin Settled
ClaimWorked(k) == \E e \in Env : K(e) = k /\ pc[e] \in {"work", "panicked"}
NothingLost ==
  phase = "up" /\ worker /\ Clean =>
    /\ \A a \in Item : K(a) \in done \/ OnItsWay(K(a))
    /\ \A k \in running \ done : ClaimWorked(k)

RunInv == ReserveInv /\ DoneInv /\ NothingLost /\ CleanRunDone

LEMMA UnsettledStages ==
  /\ {"queued", "commit", "put", "claimNew", "claim", "work",
      "consume", "publish", "unclaim", "panicked", "unwound"} \cap Settled = {}
  /\ {"absent", "processed", "skipped", "failed", "unfinished"} \subseteq Settled
  BY DEF Settled

(* A step of one envelope whose key stays in hand, and whose claims do.    *)
LEMMA MoveLost ==
  ASSUME RunInv, NEW e \in Env, NEW s, Goto(e, s), pc[e] \notin Settled,
         pc[e] # "panicked",
         UNCHANGED run, done \subseteq done',
         \/ s = "failed" \/ (s = "unfinished" /\ stopping)
         \/ /\ \/ s \notin Settled \/ K(e) \in done'
               \/ (ClaimWorked(K(e)) /\ pc[e] # "work")
            /\ \A k \in running' \ done' :
                 \/ k \in running /\ (k # K(e) \/ pc[e] # "work")
                 \/ k = K(e) /\ s \in {"work", "panicked"}
  PROVE  NothingLost' /\ CleanRunDone'
<1>1. \A f \in Env : pc'[f] = IF f = e THEN s ELSE pc[f]
  BY DEF RunInv, ReserveInv, TypeInv, TypeOK, Goto
<1>2. phase = "up" /\ UNCHANGED <<phase, worker, stopping>>
  BY RunsUp DEF RunInv, run
<1>3. CleanRunDone'
  BY <1>2 DEF CleanRunDone
<1>4. NothingLost'
  <2> SUFFICES ASSUME worker, Clean'
               PROVE  /\ \A a \in Item : K(a) \in done' \/ OnItsWay(K(a))'
                      /\ \A k \in running' \ done' : ClaimWorked(k)'
    BY <1>2 DEF NothingLost, K
  <2>1. s # "failed" /\ ~stopping
    BY <1>1, <1>2 DEF Clean, In
  <2>2. CASE pc[e] = "failed"
    BY <2>2, UnsettledStages
  <2>3. CASE pc[e] # "failed"
    <3>1. Clean
      BY <1>1, <1>2, <2>3 DEF Clean, In
    <3>2. /\ \A a \in Item : K(a) \in done \/ OnItsWay(K(a))
          /\ \A k \in running \ done : ClaimWorked(k)
      BY <1>2, <3>1 DEF RunInv, NothingLost
    <3>3. \A k : ClaimWorked(k) /\ (k # K(e) \/ pc[e] # "work") =>
                    ClaimWorked(k)' /\ OnItsWay(k)'
      <4> SUFFICES ASSUME NEW k, ClaimWorked(k), k # K(e) \/ pc[e] # "work"
                   PROVE  ClaimWorked(k)' /\ OnItsWay(k)'
        OBVIOUS
      <4>1. PICK f \in Env : K(f) = k /\ pc[f] \in {"work", "panicked"}
        BY DEF ClaimWorked
      <4>2. f # e
        BY <4>1
      <4>3. pc'[f] \in {"work", "panicked"} /\ pc'[f] \notin Settled
        BY <1>1, <4>1, <4>2, UnsettledStages
      <4> QED
        BY <4>1, <4>3 DEF ClaimWorked, OnItsWay, K
    <3>4. ASSUME NEW a \in Item PROVE K(a) \in done' \/ OnItsWay(K(a))'
      <4>1. CASE K(a) \in done
        BY <4>1
      <4>2. CASE OnItsWay(K(a))
        <5>1. PICK f \in Env : K(f) = K(a) /\ pc[f] \notin Settled
          BY <4>2 DEF OnItsWay
        <5>2. CASE f # e
          BY <1>1, <5>1, <5>2 DEF OnItsWay, K
        <5>3. CASE f = e /\ s \notin Settled
          BY <1>1, <5>1, <5>3 DEF OnItsWay, K
        <5>4. CASE f = e /\ (K(e) \in done' \/ (ClaimWorked(K(e)) /\ pc[e] # "work"))
          BY <3>3, <5>1, <5>4
        <5> QED
          BY <2>1, <5>2, <5>3, <5>4
      <4> QED
        BY <3>2, <4>1, <4>2
    <3>5. ASSUME NEW k \in running' \ done' PROVE ClaimWorked(k)'
      <4>1. CASE k \in running /\ (k # K(e) \/ pc[e] # "work")
        BY <3>2, <3>3, <3>5, <4>1
      <4>2. CASE k = K(e) /\ s \in {"work", "panicked"}
        BY <1>1, <4>2 DEF ClaimWorked, K
      <4> QED
        BY <2>1, <3>5, <4>1, <4>2
    <3> QED
      BY <3>4, <3>5
  <2> QED
    BY <2>2, <2>3
<1> QED
  BY <1>3, <1>4

(* What prepare_seeds keeps for a run with the worker.                     *)
LEMMA StartLost ==
  ASSUME OwnRows, InStore, RunInv, NEW w \in BOOLEAN, StartRun(w)
  PROVE  NothingLost' /\ CleanRunDone'
<1>1. /\ phase' = "up" /\ worker' = w /\ running' = {} /\ done' = done
      /\ \A e \in Env : pc'[e] = IF e \in Kept(w) THEN "queued" ELSE "absent"
  BY DEF StartRun
<1>2. CleanRunDone'
  BY <1>1 DEF CleanRunDone
<1>3. ASSUME w, NEW a \in Item PROVE K(a) \in done' \/ OnItsWay(K(a))'
  <2>1. K(a) \in Env /\ K(K(a)) = K(a) /\ a \in Env
    BY KeyOf DEF Env, K
  <2>2. \A e \in Env : e \in Kept(w) /\ K(e) = K(a) => OnItsWay(K(a))'
    BY <1>1, UnsettledStages DEF OnItsWay, K
  <2>3. CASE RowsOf[a] \subseteq Covered
    <3>1. K(a) \in done \/ Replayable(K(a))
      BY <2>3, CoveredItem DEF RunInv, ReserveInv, TypeInv
    <3>2. Replayable(K(a)) => K(a) \in Kept(w)
      BY <1>3, KeyOf, <2>1 DEF Kept
    <3> QED
      BY <1>1, <2>1, <2>2, <3>1, <3>2
  <2>4. CASE ~(RowsOf[a] \subseteq Covered)
    <3>1. SourceDone => a \notin Sourced
      BY <2>4 DEF SourceDone, SourceRows
    <3>2. a \in Kept(w)
      BY <2>4, <3>1 DEF Kept, Item
    <3> QED
      BY <2>1, <2>2, <3>2
  <2> QED
    BY <2>3, <2>4
<1>4. NothingLost'
  BY <1>1, <1>3 DEF NothingLost, K
<1> QED
  BY <1>2, <1>4

LEMMA NextLost ==
  ASSUME OwnRows, InStore, RunInv, [Next]_vars
  PROVE  NothingLost' /\ CleanRunDone'
<1>0. TypeOK /\ DoneInv
  BY DEF RunInv, ReserveInv, TypeInv
<1>1. ASSUME NEW w \in BOOLEAN, StartRun(w) PROVE NothingLost' /\ CleanRunDone'
  BY <1>1, StartLost
<1>2. ASSUME NEW e \in Env, Reserve(e) PROVE NothingLost' /\ CleanRunDone'
  <2> DEFINE s == IF index[K(e)] = "none" THEN "commit"
                  ELSE IF index[K(e)] = "stored" /\ worker THEN "claim" ELSE "skipped"
  <2>1. /\ Goto(e, s) /\ UNCHANGED run /\ running' = running /\ done' = done
        /\ pc[e] = "queued"
    BY <1>2 DEF Reserve
  <2>2. CASE worker
    <3>1. s \in {"commit", "claim"} \/ index[K(e)] = "consumed"
      BY <1>0, <2>2, TypeParts, KeyOf DEF Statuses
    <3>2. s \notin Settled \/ K(e) \in done
      BY <1>0, <3>1, KeyOf, UnsettledStages DEF DoneInv, ConsumedDone
    <3> HIDE DEF s
    <3> QED
      BY <2>1, <3>2, MoveLost, UnsettledStages
  <2>3. CASE ~worker
    BY <2>1, <2>3 DEF run, NothingLost, CleanRunDone
  <2> QED
    BY <2>2, <2>3
<1>3. ASSUME NEW e \in Env, Commit(e) \/ Put(e) PROVE NothingLost' /\ CleanRunDone'
  <2>1. /\ UNCHANGED run /\ running' = running /\ done' = done
        /\ pc[e] \in {"commit", "put"}
    BY <1>3 DEF Commit, Put
  <2>2. PICK s : Goto(e, s) /\ (worker => s \in {"put", "claimNew"})
    BY <1>3 DEF Commit, Put, AfterStore
  <2>3. CASE worker
    BY <2>1, <2>2, <2>3, MoveLost, UnsettledStages
  <2>4. CASE ~worker
    BY <2>1, <2>4 DEF run, NothingLost, CleanRunDone
  <2> QED
    BY <2>3, <2>4
<1>4. ASSUME NEW e \in Env, ClaimNew(e) PROVE NothingLost' /\ CleanRunDone'
  <2>1. /\ UNCHANGED run /\ running' = running \cup {K(e)} /\ done' = done
        /\ pc[e] = "claimNew" /\ Goto(e, "work")
    BY <1>4 DEF ClaimNew
  <2> QED
    BY <2>1, MoveLost, UnsettledStages
<1>5. ASSUME NEW e \in Env, Claim(e) PROVE NothingLost' /\ CleanRunDone'
  <2>1. /\ UNCHANGED run /\ running' = running \cup {K(e)} /\ done' = done
        /\ pc[e] = "claim"
    BY <1>5 DEF Claim
  <2>2. CASE K(e) \in running
    <3>1. Goto(e, "skipped") /\ running' = running
      BY <1>5, <2>1, <2>2 DEF Claim
    <3>2. CASE worker /\ Clean
      <4>1. K(e) \in done \/ ClaimWorked(K(e))
        BY <2>1, <2>2, <3>2, RunsUp, UnsettledStages DEF RunInv, NothingLost
      <4> QED
        BY <2>1, <3>1, <4>1, MoveLost, UnsettledStages
    <3>3. CASE ~(worker /\ Clean)
      <4>1. \A f \in Env : pc[f] = "failed" => pc'[f] = "failed"
        BY <1>0, <2>1, <3>1 DEF TypeOK, Goto
      <4>2. ~(worker' /\ Clean')
        BY <2>1, <3>3, <4>1 DEF run, Clean, In
      <4> QED
        BY <4>2 DEF NothingLost, CleanRunDone
    <3> QED
      BY <3>2, <3>3
  <2>3. CASE K(e) \notin running /\ e \in target
    <3>1. Goto(e, "failed")
      BY <1>5, <2>3 DEF Claim
    <3> QED
      BY <2>1, <3>1, MoveLost, UnsettledStages
  <2>4. CASE K(e) \notin running /\ e \notin target
    <3>1. Goto(e, "work")
      BY <1>5, <2>4 DEF Claim
    <3> QED
      BY <2>1, <3>1, MoveLost, UnsettledStages
  <2> QED
    BY <2>2, <2>3, <2>4
<1>6. ASSUME NEW e \in Env, Succeed(e) PROVE NothingLost' /\ CleanRunDone'
  <2>1. /\ UNCHANGED run /\ running' = running /\ done' = done \cup {K(e)}
        /\ pc[e] = "work" /\ Goto(e, "consume")
    BY <1>6 DEF Succeed
  <2> QED
    BY <2>1, MoveLost, UnsettledStages
<1>7. ASSUME NEW e \in Env, Consume(e) \/ Publish(e) \/ Unclaim(e) \/ ConsumeError(e)
      PROVE  NothingLost' /\ CleanRunDone'
  <2>1. /\ UNCHANGED run /\ running' \subseteq running /\ done' = done
        /\ pc[e] \in {"consume", "publish", "unclaim"}
    BY <1>7 DEF Consume, Publish, Unclaim, ConsumeError
  <2>2. PICK s : Goto(e, s)
    BY <1>7 DEF Consume, Publish, Unclaim, ConsumeError
  <2>3. K(e) \in done
    BY <1>0, <2>1 DEF DoneInv, ConsumedDone
  <2> QED
    BY <2>1, <2>2, <2>3, MoveLost, UnsettledStages
<1>8. ASSUME NEW e \in Env, StoreError(e) \/ WorkerError(e) \/ Abandon(e)
      PROVE  NothingLost' /\ CleanRunDone'
  <2>1. UNCHANGED run /\ done' = done /\ pc[e] \notin Settled /\ pc[e] # "panicked"
    BY <1>8, UnsettledStages DEF StoreError, WorkerError, Abandon
  <2>2. CASE Goto(e, "failed")
    BY <2>1, <2>2, MoveLost
  <2>3. CASE WorkerError(e) /\ Goto(e, "queued")
    <3>1. running' = running \ {K(e)}
      BY <2>3 DEF WorkerError
    <3> QED
      BY <2>1, <2>3, <3>1, MoveLost, UnsettledStages
  <2>4. CASE Abandon(e)
    <3>1. Goto(e, "unfinished") /\ stopping
      BY <2>4 DEF Abandon
    <3> QED
      BY <2>1, <3>1, MoveLost
  <2> QED
    BY <1>8, <2>2, <2>3, <2>4 DEF StoreError, WorkerError, Decide
<1>9. CASE UNCHANGED vars
  <2>1. UNCHANGED <<running, pc, phase, worker, stopping, done>>
    BY <1>9 DEF vars, run
  <2>2. Clean' = Clean
    BY <2>1 DEF Clean, In
  <2>3. \A k : ClaimWorked(k) = ClaimWorked(k)' /\ OnItsWay(k) = OnItsWay(k)'
    BY <2>1 DEF ClaimWorked, OnItsWay, K
  <2>4. NothingLost'
    BY <2>1, <2>2, <2>3 DEF RunInv, NothingLost, K
  <2> QED
    BY <2>1, <2>2, <2>4 DEF RunInv, CleanRunDone, K
<1>10. CASE Shutdown
  BY <1>10 DEF Shutdown, NothingLost, CleanRunDone, Clean
<1>11. CASE EndRun
  <2>1. /\ phase = "up" /\ \A e \in Env : pc[e] \in Settled
        /\ phase' = "over" /\ UNCHANGED <<pc, worker, stopping, done>>
    BY <1>11 DEF EndRun
  <2>2. \A k : ~OnItsWay(k)
    BY <2>1 DEF OnItsWay
  <2>3. worker /\ Clean => \A a \in Item : K(a) \in done
    BY <2>1, <2>2 DEF RunInv, NothingLost
  <2> QED
    BY <2>1, <2>3 DEF NothingLost, CleanRunDone, Clean, In, K
<1>12. CASE Crash
  BY <1>12 DEF Crash, NothingLost, CleanRunDone
<1>13. ASSUME NEW e \in Env, Panic(e) PROVE NothingLost' /\ CleanRunDone'
  <2> DEFINE s == IF pc[e] = "work" THEN "panicked" ELSE "unwound"
  <2>1. /\ UNCHANGED run /\ running' = running /\ done' = done /\ Goto(e, s)
        /\ pc[e] \in {"queued", "commit", "work"}
    BY <1>13 DEF Panic
  <2>2. s \notin Settled /\ (pc[e] = "work" => s = "panicked")
    BY UnsettledStages
  <2>3. pc[e] \notin Settled /\ pc[e] # "panicked"
    BY <2>1, UnsettledStages
  <2> HIDE DEF s
  <2> QED
    BY <2>1, <2>2, <2>3, MoveLost
<1> QED
  BY <1>1, <1>2, <1>3, <1>4, <1>5, <1>6, <1>7, <1>8, <1>9, <1>10, <1>11, <1>12,
     <1>13, StepCases

(* With payloads in the store and rows that only one key's items cover, a  *)
(* run with the worker that ends without failures and without a shutdown   *)
(* has done every item: pruning, replays, claims and skips, of this and of *)
(* all earlier runs, lose none.  A retry that is refused its instance and  *)
(* a task that panics keep their claims, but no such run ends clean.       *)
THEOREM CleanRunsComplete == ASSUME OwnRows, InStore PROVE Spec => []CleanRunDone
<1>1. Init => RunInv
  <2> SUFFICES ASSUME Init PROVE NothingLost /\ CleanRunDone
    BY InitReserve, InitDone DEF RunInv
  <2>1. phase = "over" /\ worker = FALSE
    BY DEF Init
  <2> QED
    BY <2>1 DEF NothingLost, CleanRunDone
<1>2. RunInv /\ [Next]_vars => RunInv'
  <2>1. RunInv => TypeOK
    BY DEF RunInv, ReserveInv, TypeInv
  <2> QED
    BY <2>1, NextReserve, NextDone, NextLost DEF RunInv
<1>3. RunInv => CleanRunDone
  BY DEF RunInv
<1> QED
  BY <1>1, <1>2, <1>3, PTL DEF Spec
=============================================================================
