---------------------------- MODULE DatasetProofs ----------------------------
(***************************************************************************)
(* Proofs about DatasetPipeline for every set of rows, grouping, hash      *)
(* function, batch size, number of router shards and number of faults.     *)
(***************************************************************************)
EXTENDS DatasetPipeline, FiniteSetTheorems, TLAPS

(* The steps of a FileDataset that is used as the pipeline uses it: a key  *)
(* whose row exists is not committed again.                                *)
NewRow(k, c) == stat[k] = "none" /\ CommitRow(k, c)
DatasetNext ==
  \/ \E k \in Key, c \in SUBSET Row : NewRow(k, c) \/ BeginPut(k, c)
  \/ \E k \in Key : ConsumeRow(k)
  \/ PutStep \/ EndPut \/ AbortPut

(* What the lock holder's step relies on: its row exists, its file does    *)
(* until the row points at it, and what it removes nobody live references. *)
RowsExist  == /\ \A k \in Shards : stat[k] # "none"
              /\ ~At("idle") => stat[op.key] # "none"
FileHeld   == op.at \in {"fill", "point"} => file[HashOf[op.key]] # "absent"
DeadUnused == At("remove") => \A k \in live : shard[k] \notin op.dead
DatasetInv == DatasetTypeOK /\ RowsExist /\ NewestLive /\ LivePresent /\ FileHeld /\ DeadUnused

-----------------------------------------------------------------------------
(* The dataset by itself.                                                  *)

LEMMA HashType == /\ \A k \in Key : HashOf[k] \in Hash /\ HashOf[k] # None
                  /\ None \notin Key
  BY DatasetAssumption DEF DatasetAssumption, Hash

LEMMA DatasetStarts == DatasetInit => DatasetInv
  <1> SUFFICES ASSUME DatasetInit PROVE DatasetInv
    OBVIOUS
  <1>1. DatasetTypeOK
    BY HashType DEF DatasetInit, DatasetTypeOK, Idle, At
  <1>2. Shards = {}
    BY DEF DatasetInit, Shards
  <1> QED
    BY <1>1, <1>2 DEF DatasetInit, DatasetInv, RowsExist, NewestLive, LivePresent, Readable,
                      FileHeld, DeadUnused, Idle, At

(* A key without a row has no shard, so its row may still be made.         *)
LEMMA NewRowKeeps ==
  ASSUME DatasetInv, NEW k \in Key, NEW c \in SUBSET Row, NewRow(k, c)
  PROVE  DatasetInv'
  <1> USE DEF NewRow, CommitRow, At
  <1>1. k \notin Shards /\ k \notin live /\ shard[k] = None /\ seq[k] = 0
    BY DEF DatasetInv, RowsExist, LivePresent, Shards, DatasetTypeOK
  <1>2. shard' = shard /\ seq' = seq /\ live' = live /\ Shards' = Shards
    BY <1>1 DEF DatasetInv, DatasetTypeOK, Shards
  <1>3. DatasetTypeOK'
    BY <1>2 DEF DatasetInv, DatasetTypeOK
  <1>4. RowsExist'
    BY <1>1, <1>2 DEF DatasetInv, DatasetTypeOK, RowsExist
  <1>5. NewestLive'
    <2>1. \A j \in Shards : cov'[j] = cov[j]
      BY <1>1 DEF DatasetInv, DatasetTypeOK, Shards
    <2> QED
      BY <1>2, <2>1 DEF DatasetInv, NewestLive
  <1>6. LivePresent' /\ FileHeld' /\ DeadUnused'
    BY <1>2 DEF DatasetInv, LivePresent, Readable, FileHeld, DeadUnused
  <1> QED
    BY <1>3, <1>4, <1>5, <1>6 DEF DatasetInv

LEMMA BeginPutKeeps ==
  ASSUME DatasetInv, NEW k \in Key, NEW c \in SUBSET Row, BeginPut(k, c)
  PROVE  DatasetInv'
  <1> USE DEF BeginPut, At
  <1>1. shard' = shard /\ seq' = seq /\ live' = live /\ Shards' = Shards /\ file' = file
    BY DEF Shards
  <1>2. op' = [key |-> k, at |-> "check", dead |-> {}]
    OBVIOUS
  <1>3. stat' \in [Key -> {"none", "stored", "consumed"}] /\ cov' \in [Key -> SUBSET Row]
    BY DEF DatasetInv, DatasetTypeOK
  <1>4. DatasetTypeOK'
    BY <1>1, <1>2, <1>3 DEF DatasetInv, DatasetTypeOK
  <1>5. \A j \in Key : stat[j] # "none" => stat'[j] = stat[j] /\ cov'[j] = cov[j]
    BY DEF DatasetInv, DatasetTypeOK
  <1>6. stat'[k] # "none"
    BY DEF DatasetInv, DatasetTypeOK
  <1>7. RowsExist'
    BY <1>1, <1>2, <1>5, <1>6 DEF DatasetInv, RowsExist, Shards
  <1>8. NewestLive'
    <2>1. \A j \in Shards : cov'[j] = cov[j]
      BY <1>5 DEF DatasetInv, RowsExist, Shards
    <2> QED
      BY <1>1, <2>1 DEF DatasetInv, NewestLive
  <1>9. LivePresent' /\ FileHeld' /\ DeadUnused'
    BY <1>1, <1>2 DEF DatasetInv, LivePresent, Readable, FileHeld, DeadUnused
  <1> QED
    BY <1>4, <1>7, <1>8, <1>9 DEF DatasetInv

LEMMA ConsumeRowKeeps ==
  ASSUME DatasetInv, NEW k \in Key, ConsumeRow(k)
  PROVE  DatasetInv'
  <1> USE DEF ConsumeRow, At
  <1>1. Shards' = Shards
    BY DEF Shards
  <1>2. DatasetTypeOK' /\ RowsExist'
    BY <1>1 DEF DatasetInv, DatasetTypeOK, RowsExist, Shards
  <1> QED
    BY <1>1, <1>2 DEF DatasetInv, NewestLive, LivePresent, Readable, FileHeld, DeadUnused

(* A step that only changes files and what the lock holder does next.      *)
LEMMA FileStepKeeps ==
  ASSUME DatasetInv, UNCHANGED <<stat, cov, shard, seq, live>>,
         ~At("idle"), op'.key = op.key, DatasetTypeOK',
         FileHeld', DeadUnused', \A k \in live : file'[shard[k]] # "absent"
  PROVE  DatasetInv'
  <1>1. Shards' = Shards
    BY DEF Shards
  <1>2. RowsExist'
    BY <1>1 DEF DatasetInv, RowsExist
  <1>3. NewestLive' /\ LivePresent'
    BY <1>1 DEF DatasetInv, NewestLive, LivePresent, Readable
  <1> QED
    BY <1>2, <1>3 DEF DatasetInv

LEMMA CheckKeeps == ASSUME DatasetInv, Check PROVE DatasetInv'
  <1> USE DEF Check, At, GoOn
  <1>1. op.key \in Key /\ HashOf[op.key] \in Hash
    BY HashType DEF DatasetInv, DatasetTypeOK
  <1>2. op'.key = op.key /\ op'.at \in {"fill", "point"} /\ op'.dead = op.dead
    BY DEF DatasetInv, DatasetTypeOK
  <1>3. /\ file' \in [Hash -> {"absent", "torn", "whole"}]
        /\ \A h \in Hash : file[h] # "absent" => file'[h] # "absent"
        /\ file'[HashOf[op.key]] # "absent"
    BY <1>1 DEF DatasetInv, DatasetTypeOK
  <1>4. DatasetTypeOK'
    BY <1>2, <1>3 DEF DatasetInv, DatasetTypeOK
  <1>5. \A k \in live : file'[shard[k]] # "absent"
    BY <1>3, HashType DEF DatasetInv, DatasetTypeOK, LivePresent, Readable, Shards
  <1>6. FileHeld' /\ DeadUnused'
    BY <1>2, <1>3 DEF FileHeld, DeadUnused
  <1> QED
    BY <1>2, <1>4, <1>5, <1>6, FileStepKeeps

LEMMA FillKeeps == ASSUME DatasetInv, Fill PROVE DatasetInv'
  <1> USE DEF Fill, At, GoOn
  <1>1. op.key \in Key /\ HashOf[op.key] \in Hash
    BY HashType DEF DatasetInv, DatasetTypeOK
  <1>2. op'.key = op.key /\ op'.at = "point" /\ op'.dead = op.dead
    BY DEF DatasetInv, DatasetTypeOK
  <1>3. /\ file' \in [Hash -> {"absent", "torn", "whole"}]
        /\ \A h \in Hash : file[h] # "absent" => file'[h] # "absent"
        /\ file'[HashOf[op.key]] # "absent"
    BY <1>1 DEF DatasetInv, DatasetTypeOK
  <1>4. DatasetTypeOK'
    BY <1>2, <1>3 DEF DatasetInv, DatasetTypeOK
  <1>5. \A k \in live : file'[shard[k]] # "absent"
    BY <1>3, HashType DEF DatasetInv, DatasetTypeOK, LivePresent, Readable, Shards
  <1>6. FileHeld' /\ DeadUnused'
    BY <1>2, <1>3 DEF FileHeld, DeadUnused
  <1> QED
    BY <1>2, <1>4, <1>5, <1>6, FileStepKeeps

(* The new shard is the newest of all: a row it covers has no other newest *)
(* one, and for a row it does not cover nothing changes.                   *)
LEMMA PointKeeps == ASSUME DatasetInv, Point PROVE DatasetInv'
  <1> USE DEF Point, At, GoOn
  <1>1. PICK n \in {1} \cup {seq[k] + 1 : k \in Key} :
          IsNextSeq(n) /\ seq' = [seq EXCEPT ![op.key] = n]
    OBVIOUS
  <1>2. seq \in [Key -> Nat] /\ n \in Nat /\ n > 0 /\ \A k \in Key : seq[k] < n
    BY <1>1 DEF DatasetInv, DatasetTypeOK, IsNextSeq
  <1>3. op.key \in Key /\ HashOf[op.key] \in Hash /\ HashOf[op.key] # None
    BY HashType DEF DatasetInv, DatasetTypeOK
  <1>4. op'.key = op.key /\ op'.at = "supersede" /\ op'.dead = op.dead
    BY DEF DatasetInv, DatasetTypeOK
  <1>5. /\ shard' = [shard EXCEPT ![op.key] = HashOf[op.key]]
        /\ live' = live \cup {op.key} /\ UNCHANGED <<stat, cov, file>>
    OBVIOUS
  <1>6. Shards' = Shards \cup {op.key}
    BY <1>3, <1>5 DEF Shards, DatasetInv, DatasetTypeOK
  <1>7. DatasetTypeOK'
    <2>1. \A k \in Key : shard'[k] \in {None, HashOf[k]} /\ (shard'[k] # None <=> seq'[k] > 0)
      BY <1>1, <1>2, <1>3, <1>5 DEF DatasetInv, DatasetTypeOK
    <2>2. shard' \in [Key -> Hash \cup {None}] /\ seq' \in [Key -> Nat]
      BY <1>1, <1>2, <1>3, <1>5 DEF DatasetInv, DatasetTypeOK
    <2> QED
      BY <1>3, <1>4, <1>5, <2>1, <2>2 DEF DatasetInv, DatasetTypeOK
  <1>8. RowsExist'
    BY <1>4, <1>5, <1>6 DEF DatasetInv, RowsExist
  <1>9. NewestLive'
    <2> SUFFICES ASSUME NEW r \in Row, NEW k \in Shards', r \in cov[k],
                        \A j \in Shards' : r \in cov[j] => seq'[j] <= seq'[k]
                 PROVE  k \in live'
      BY <1>5 DEF NewestLive
    <2>1. CASE k = op.key
      BY <1>5, <2>1
    <2>2. CASE k # op.key
      <3>1. k \in Key /\ seq'[k] = seq[k] /\ seq'[op.key] = n
        BY <1>1, <1>2, <1>3, <2>2 DEF Shards
      <3>2. r \notin cov[op.key]
        BY <1>2, <1>6, <3>1
      <3>3. \A j \in Shards : r \in cov[j] => seq[j] <= seq[k]
        BY <1>1, <1>2, <1>6, <3>1, <3>2 DEF Shards
      <3> QED
        BY <1>5, <1>6, <2>2, <3>3 DEF DatasetInv, NewestLive
    <2> QED
      BY <2>1, <2>2
  <1>10. LivePresent'
    BY <1>3, <1>5, <1>6 DEF DatasetInv, DatasetTypeOK, LivePresent, Readable, FileHeld, Shards
  <1>11. FileHeld' /\ DeadUnused'
    BY <1>4 DEF FileHeld, DeadUnused
  <1> QED
    BY <1>7, <1>8, <1>9, <1>10, <1>11 DEF DatasetInv

(* A superseded row is not the newest of any row it covers.                *)
LEMMA DropKeeps == ASSUME DatasetInv, NEW k \in Key, Drop(k) PROVE DatasetInv'
  <1> USE DEF Drop, At
  <1>1. Shards' = Shards /\ k \in live /\ live' = live \ {k}
    BY DEF Shards, Superseded
  <1>2. op'.key = op.key /\ op'.at = "supersede" /\ op'.dead = op.dead \cup {shard[k]}
    BY DEF DatasetInv, DatasetTypeOK
  <1>3. shard[k] \in Hash
    BY <1>1 DEF DatasetInv, DatasetTypeOK, LivePresent, Shards
  <1>4. DatasetTypeOK'
    <2>1. op' \in [key : Key \cup {None}, dead : SUBSET Hash,
                   at : {"idle", "check", "fill", "point", "supersede", "remove"}]
      BY <1>3 DEF DatasetInv, DatasetTypeOK
    <2> QED
      BY <1>1, <1>2, <2>1 DEF DatasetInv, DatasetTypeOK
  <1>5. RowsExist' /\ LivePresent'
    BY <1>1, <1>2 DEF DatasetInv, RowsExist, LivePresent, Readable
  <1>6. NewestLive'
    <2> SUFFICES ASSUME NEW r \in Row, NEW i \in Shards, r \in cov[i],
                        \A j \in Shards : r \in cov[j] => seq[j] <= seq[i]
                 PROVE  i \in live'
      BY <1>1 DEF NewestLive
    <2>1. i \in live
      BY DEF DatasetInv, NewestLive
    <2>2. i # k
      <3>1. SUFFICES ASSUME i = k PROVE FALSE
        OBVIOUS
      <3>2. r \in Newer(k)
        BY <3>1 DEF Superseded
      <3>3. PICK j \in Shards : seq[j] > seq[k] /\ r \in cov[j]
        BY <3>2 DEF Newer
      <3> QED
        BY <3>1, <3>3 DEF DatasetInv, DatasetTypeOK, Shards
    <2> QED
      BY <1>1, <2>1, <2>2
  <1>7. FileHeld' /\ DeadUnused'
    BY <1>2 DEF FileHeld, DeadUnused
  <1> QED
    BY <1>4, <1>5, <1>6, <1>7 DEF DatasetInv

LEMMA CollectKeeps == ASSUME DatasetInv, Collect PROVE DatasetInv'
  <1> USE DEF Collect, At
  <1>1. op'.key = op.key /\ op'.at = "remove" /\ op'.dead = op.dead \ {shard[k] : k \in live}
    BY DEF DatasetInv, DatasetTypeOK
  <1>2. DatasetTypeOK'
    <2>1. op' \in [key : Key \cup {None}, dead : SUBSET Hash,
                   at : {"idle", "check", "fill", "point", "supersede", "remove"}]
      BY DEF DatasetInv, DatasetTypeOK
    <2> QED
      BY <1>1, <2>1 DEF DatasetInv, DatasetTypeOK
  <1>3. FileHeld' /\ DeadUnused'
    BY <1>1 DEF FileHeld, DeadUnused
  <1>4. \A k \in live : file'[shard[k]] # "absent"
    BY DEF DatasetInv, LivePresent, Readable
  <1> QED
    BY <1>1, <1>2, <1>3, <1>4, FileStepKeeps

LEMMA RemoveKeeps == ASSUME DatasetInv, NEW h \in Hash, Remove(h) PROVE DatasetInv'
  <1> USE DEF Remove, At
  <1>1. op'.key = op.key /\ op'.at = "remove" /\ op'.dead = op.dead \ {h} /\ h \in op.dead
    BY DEF DatasetInv, DatasetTypeOK
  <1>2. DatasetTypeOK'
    <2>1. op' \in [key : Key \cup {None}, dead : SUBSET Hash,
                   at : {"idle", "check", "fill", "point", "supersede", "remove"}]
      BY DEF DatasetInv, DatasetTypeOK
    <2>2. file' \in [Hash -> {"absent", "torn", "whole"}]
      BY DEF DatasetInv, DatasetTypeOK
    <2> QED
      BY <1>1, <2>1, <2>2 DEF DatasetInv, DatasetTypeOK
  <1>3. FileHeld' /\ DeadUnused'
    BY <1>1 DEF DatasetInv, FileHeld, DeadUnused
  <1>4. \A k \in live : file'[shard[k]] # "absent"
    BY <1>1 DEF DatasetInv, DatasetTypeOK, LivePresent, Readable, DeadUnused, Shards
  <1> QED
    BY <1>1, <1>2, <1>3, <1>4, FileStepKeeps

LEMMA UnlockKeeps == ASSUME DatasetInv, EndPut \/ AbortPut PROVE DatasetInv'
  <1>1. op' = Idle /\ UNCHANGED <<stat, cov, shard, seq, live, file>>
    BY DEF EndPut, AbortPut
  <1>2. DatasetTypeOK'
    BY <1>1 DEF DatasetInv, DatasetTypeOK, Idle, At
  <1>3. Shards' = Shards
    BY <1>1 DEF Shards
  <1> QED
    BY <1>1, <1>2, <1>3 DEF DatasetInv, RowsExist, NewestLive, LivePresent, Readable,
                            FileHeld, DeadUnused, Idle, At

LEMMA DatasetKeeps == ASSUME DatasetInv, DatasetNext \/ UNCHANGED dataset PROVE DatasetInv'
  <1>1. CASE UNCHANGED dataset
    BY <1>1 DEF dataset, DatasetInv, DatasetTypeOK, RowsExist, NewestLive, LivePresent, Readable,
                Shards, FileHeld, DeadUnused, At
  <1>2. CASE DatasetNext
    BY <1>2, NewRowKeeps, BeginPutKeeps, ConsumeRowKeeps, CheckKeeps, FillKeeps, PointKeeps,
       DropKeeps, CollectKeeps, RemoveKeeps, UnlockKeeps DEF DatasetNext, PutStep
  <1> QED
    BY <1>1, <1>2

-----------------------------------------------------------------------------
(* The pipeline: its types, and its steps as steps of the dataset.         *)

LEMMA KeyParts ==
  /\ \A k \in Key : Type(k) \in {1, 2} /\ Content(k) \in (SUBSET Row) \ {{}}
  /\ \A b \in (SUBSET Row) \ {{}} : <<1, b>> \in Key /\ <<2, b>> \in Key
  BY PipelineAssumption DEF PipelineAssumption, Type, Content

Stages == {"queued", "put", "putting", "work", "consume"}
Envelopes == [key : Key, cov : SUBSET Row, at : Stages]
Batches == [content : (SUBSET Row) \ {{}}, cov : SUBSET Row]

LEMMA TypeParts ==
  TypeOK <=> /\ DatasetTypeOK /\ held \in [RouterShard -> SUBSET Row]
             /\ pending \in [RouterShard -> SUBSET Row]
             /\ phase \in {"up", "over", "down"} /\ unread \subseteq Row
             /\ tasks \subseteq Envelopes
             /\ claims \subseteq Key /\ {failed, extent} \subseteq BOOLEAN
             /\ faults \in 0..MaxFaults
  BY PipelineAssumption DEF TypeOK, RouterTypeOK, Input, PipelineAssumption, Envelopes, Stages

LEMMA MoveType ==
  ASSUME tasks \subseteq Envelopes, NEW e \in tasks, NEW s \in Stages, MoveTo(e, s)
  PROVE  tasks' \subseteq Envelopes
  BY DEF MoveTo, Envelopes

LEMMA ArriveType ==
  ASSUME NEW B, B \subseteq Batches
  PROVE  Arrive(B) \subseteq Envelopes
  <1> SUFFICES ASSUME NEW b \in B
               PROVE  Envelope(<<1, b.content>>, b.cov, "queued") \in Envelopes
    BY DEF Arrive
  <1>1. b \in Batches
    OBVIOUS
  <1>2. b.content \in (SUBSET Row) \ {{}} /\ b.cov \in SUBSET Row
    BY <1>1 DEF Batches
  <1>3. <<1, b.content>> \in Key
    BY <1>2, KeyParts
  <1> QED
    BY <1>2, <1>3 DEF Envelope, Envelopes, Stages

(* A full batch is not empty, as BatchSize is not 0.                       *)
LEMMA RoutedType ==
  ASSUME TypeOK, NEW r \in Row, NEW s \in RouterShard
  PROVE  /\ Routed(s, r) \subseteq Batches
         /\ Route(s, r) => /\ held' \in [RouterShard -> SUBSET Row]
                           /\ pending' \in [RouterShard -> SUBSET Row]
  <1>1. held[s] \in SUBSET Row /\ pending[s] \in SUBSET Row
    BY TypeParts
  <1>2. Grown(s, r) \in SUBSET Row
    BY <1>1 DEF Grown
  <1>3. ASSUME NEW b \in Full(s, r) PROVE b \in (SUBSET Row) \ {{}}
    <2>1. b \in SUBSET Row
      BY <1>2, <1>3 DEF Full
    <2>2. Cardinality(b) >= BatchSize
      BY <1>3 DEF Full
    <2>3. b # {}
      <3>1. ASSUME b = {} PROVE FALSE
        <4>1. 0 >= BatchSize
          BY <2>2, <3>1, FS_EmptySet
        <4> QED
          BY <4>1, RouterAssumption DEF RouterAssumption
      <3> QED
        BY <3>1
    <2> QED
      BY <2>1, <2>3
  <1>4. Routed(s, r) \subseteq Batches
    BY <1>1, <1>3 DEF Routed, Batches
  <1>5. ASSUME Route(s, r)
        PROVE  /\ held' \in [RouterShard -> SUBSET Row]
               /\ pending' \in [RouterShard -> SUBSET Row]
    <2>1. held' = [held EXCEPT ![s] = Grown(s, r) \ UNION Full(s, r)]
      BY <1>5 DEF Route
    <2>2. pending' = [pending EXCEPT ![s] = IF Full(s, r) = {} THEN pending[s] \cup {r} ELSE {}]
      BY <1>5 DEF Route, Stamp
    <2> QED
      BY <1>1, <1>2, <2>1, <2>2, TypeParts
  <1> QED
    BY <1>4, <1>5

LEMMA FlushType ==
  ASSUME TypeOK
  PROVE  /\ Flushed \subseteq Batches
         /\ FlushAll => /\ held' \in [RouterShard -> SUBSET Row]
                       /\ pending' \in [RouterShard -> SUBSET Row]
  <1>1. \A s \in RouterShard : held[s] \in SUBSET Row /\ pending[s] \in SUBSET Row
    BY TypeParts
  <1>2. \A s \in RouterShard : FlushOf(s) \subseteq (SUBSET Row) \ {{}}
    BY <1>1 DEF FlushOf, Batch
  <1>3. Flushed \subseteq Batches
    BY <1>1, <1>2 DEF Flushed, Batches
  <1> QED
    BY <1>1, <1>3 DEF FlushAll

LEMMA EnvelopeParts ==
  ASSUME TypeOK, NEW e \in tasks
  PROVE  e.key \in Key /\ e.cov \in SUBSET Row /\ e.at \in Stages /\ e \in Envelopes
  BY TypeParts DEF Envelopes

(* What the steps that leave the dataset alone do to the rest.             *)
RestOK == /\ held \in [RouterShard -> SUBSET Row]
          /\ pending \in [RouterShard -> SUBSET Row]
          /\ phase \in {"up", "over", "down"} /\ unread \subseteq Row
          /\ tasks \subseteq Envelopes
          /\ claims \subseteq Key /\ {failed, extent} \subseteq BOOLEAN
          /\ faults \in 0..MaxFaults

LEMMA RestKeeps == ASSUME TypeOK, [Next]_vars PROVE RestOK'
  <1> USE TypeParts DEF RestOK
  <1>0. MaxFaults \in Nat
    BY PipelineAssumption DEF PipelineAssumption
  <1>1. CASE UNCHANGED vars
    BY <1>1 DEF vars, router, run
  <1>2. CASE StartRun
    <2>1. \A k \in StoredItems : Envelope(k, cov[k], "queued") \in Envelopes
      BY DEF StoredItems, DatasetTypeOK, Envelope, Envelopes, Stages
    <2>2. tasks' \subseteq Envelopes
      BY <1>2, <2>1 DEF StartRun
    <2>3. unread' \subseteq Row
      BY <1>2 DEF StartRun
    <2> QED
      BY <1>2, <2>2, <2>3 DEF StartRun
  <1>3. CASE Flush
    BY <1>3, FlushType, ArriveType DEF Flush, run
  <1>4. CASE EndRun
    BY <1>4 DEF EndRun, router
  <1>5. CASE Crash
    BY <1>0, <1>5 DEF Crash, Fault
  <1>6. CASE Putting
    BY <1>6 DEF Putting, router, run
  <1>7. ASSUME NEW r \in Row, NEW s \in RouterShard, Fold(r, s) PROVE RestOK'
    BY <1>7, RoutedType, ArriveType DEF Fold
  <1>8. ASSUME NEW e \in tasks,
               Admit(e) \/ StartPut(e) \/ FinishPut(e) \/ FailPut(e) \/ Edit(e) \/ Consume(e)
        PROVE  RestOK'
    <2>0. e.key \in Key /\ e.cov \in SUBSET Row /\ e \in Envelopes
      BY EnvelopeParts
    <2>1. CASE Admit(e)
      <3>1. tasks' \subseteq Envelopes
        <4>1. MoveTo(e, "put") \/ MoveTo(e, "work") \/ tasks' = tasks \ {e}
          BY <2>1 DEF Admit
        <4> QED
          BY <4>1, MoveType DEF Stages
      <3>2. claims' \subseteq Key
        BY <2>0, <2>1 DEF Admit
      <3> QED
        BY <2>1, <3>1, <3>2 DEF Admit, router, run
    <2>2. CASE StartPut(e)
      <3>1. tasks' \subseteq Envelopes
        BY <2>2, MoveType DEF StartPut, Stages
      <3> QED
        BY <2>2, <3>1 DEF StartPut, router, run
    <2>3. CASE FinishPut(e)
      <3>1. tasks' \subseteq Envelopes
        <4>1. MoveTo(e, "work") \/ tasks' = tasks \ {e}
          BY <2>3 DEF FinishPut
        <4> QED
          BY <4>1, MoveType DEF Stages
      <3>2. claims' \subseteq Key
        BY <2>0, <2>3 DEF FinishPut
      <3> QED
        BY <2>3, <3>1, <3>2 DEF FinishPut, router, run
    <2>4. CASE FailPut(e)
      BY <1>0, <2>4 DEF FailPut, Fault, router
    <2>5. CASE Edit(e)
      <3>1. [e EXCEPT !.at = "consume"] \in Envelopes
        BY <2>0 DEF Envelopes, Stages
      <3>2. Envelope(<<2, Content(e.key)>>, e.cov, "queued") \in Envelopes
        BY <2>0, KeyParts DEF Envelope, Envelopes, Stages
      <3> QED
        BY <2>5, <3>1, <3>2 DEF Edit, router, run
    <2>6. CASE Consume(e)
      BY <2>6 DEF Consume, router, run
    <2> QED
      BY <1>8, <2>1, <2>2, <2>3, <2>4, <2>5, <2>6
  <1> QED
    BY <1>1, <1>2, <1>3, <1>4, <1>5, <1>6, <1>7, <1>8 DEF Next

(* Every step of the pipeline is a step of the dataset, or leaves it alone;*)
(* a row is only committed while there is none.                            *)
LEMMA StepOfDataset ==
  ASSUME TypeOK, [Next]_vars
  PROVE  DatasetNext \/ UNCHANGED dataset
  <1>1. CASE UNCHANGED vars \/ StartRun \/ Flush \/ EndRun \/ \E r \in Row, s \in RouterShard : Fold(r, s)
    BY <1>1 DEF vars, StartRun, Flush, EndRun, Fold
  <1>2. CASE Crash \/ Putting
    BY <1>2 DEF Crash, Putting, DatasetNext
  <1>3. ASSUME NEW e \in tasks,
               Admit(e) \/ StartPut(e) \/ FinishPut(e) \/ FailPut(e) \/ Edit(e) \/ Consume(e)
        PROVE  DatasetNext \/ UNCHANGED dataset
    <2>1. e.key \in Key /\ e.cov \in SUBSET Row
      BY EnvelopeParts
    <2> QED
      BY <1>3, <2>1 DEF Admit, StartPut, FinishPut, FailPut, Edit, Consume, DatasetNext, NewRow
  <1> QED
    BY <1>1, <1>2, <1>3 DEF Next

-----------------------------------------------------------------------------
PipelineInv == TypeOK /\ DatasetInv

LEMMA PipelineStarts == Init => PipelineInv
  <1> SUFFICES ASSUME Init PROVE PipelineInv
    OBVIOUS
  <1>1. DatasetInv
    BY DatasetStarts DEF Init
  <1>2. RestOK
    <2>1. {failed, extent} \subseteq BOOLEAN
      BY DEF Init
    <2>2. 0 \in 0..MaxFaults
      BY PipelineAssumption DEF PipelineAssumption
    <2> QED
      BY <2>1, <2>2 DEF Init, RouterInit, RestOK
  <1>3. TypeOK <=> DatasetTypeOK /\ RestOK
    BY TypeParts DEF RestOK
  <1> QED
    BY <1>1, <1>2, <1>3 DEF PipelineInv, DatasetInv

LEMMA PipelineKeeps == ASSUME PipelineInv, [Next]_vars PROVE PipelineInv'
  <1>1. DatasetInv'
    BY StepOfDataset, DatasetKeeps DEF PipelineInv
  <1>2. RestOK'
    BY RestKeeps DEF PipelineInv
  <1>3. TypeOK <=> DatasetTypeOK /\ RestOK
    BY TypeParts DEF RestOK
  <1>4. TypeOK' <=> DatasetTypeOK' /\ RestOK'
    BY <1>3, TypeParts, PTL DEF RestOK
  <1> QED
    BY <1>1, <1>2, <1>4 DEF PipelineInv, DatasetInv

(* The inductive invariant of the pipeline, on which the rest relies.      *)
THEOREM PipelineInvariant == Spec => []PipelineInv
  BY PipelineStarts, PipelineKeeps, PTL DEF Spec

(* Every variable of the pipeline keeps its type (TypeOK).                 *)
THEOREM PipelineTypes == Spec => []TypeOK
  BY PipelineInvariant, PTL DEF PipelineInv

(* Wherever put is interrupted and however runs, crashes and equal shards  *)
(* mix, the newest of the shards that cover a row is live: superseding     *)
(* never loses coverage (FileDataset::supersede).                          *)
THEOREM CoverageSurvives == Spec => []NewestLive
  BY PipelineInvariant, PTL DEF PipelineInv, DatasetInv

(* The file of every live row exists, so that neither a consumer nor a     *)
(* resume fails on one that was collected (FileDataset::shards).           *)
THEOREM LiveFilesExist == Spec => []LivePresent
  BY PipelineInvariant, PTL DEF PipelineInv, DatasetInv

-----------------------------------------------------------------------------
(* Supersession again: what a shard covers, a live shard covers that is    *)
(* not older.  When a shard is dropped, the strictly newer shard that      *)
(* covers a row of it is live or is itself covered by a live one.          *)

LiveCovers ==
  \A r \in Row, i \in Shards :
    r \in cov[i] => \E j \in live : r \in cov[j] /\ seq[j] >= seq[i]

LEMMA SameShardsCover ==
  ASSUME DatasetInv, LiveCovers, UNCHANGED <<shard, seq, live>>,
         \A k \in Shards : cov'[k] = cov[k]
  PROVE  LiveCovers'
  <1>1. Shards' = Shards /\ live \subseteq Shards
    BY DEF Shards, DatasetInv, LivePresent
  <1> QED
    BY <1>1 DEF LiveCovers

LEMMA PointCovers == ASSUME DatasetInv, LiveCovers, Point PROVE LiveCovers'
  <1> USE DEF Point, At, GoOn
  <1>1. PICK n \in {1} \cup {seq[k] + 1 : k \in Key} :
          IsNextSeq(n) /\ seq' = [seq EXCEPT ![op.key] = n]
    OBVIOUS
  <1>2. seq \in [Key -> Nat] /\ n \in Nat /\ \A k \in Key : seq[k] < n
    BY <1>1 DEF DatasetInv, DatasetTypeOK, IsNextSeq
  <1>3. op.key \in Key /\ live' = live \cup {op.key} /\ cov' = cov
    BY DEF DatasetInv, DatasetTypeOK
  <1>4. Shards' \subseteq Shards \cup {op.key} /\ live \subseteq Key
    BY <1>3 DEF Shards, DatasetInv, DatasetTypeOK
  <1>5. \A k \in Key : seq'[k] = IF k = op.key THEN n ELSE seq[k]
    BY <1>1, <1>2
  <1> SUFFICES ASSUME NEW r \in Row, NEW i \in Shards', r \in cov[i]
               PROVE  \E j \in live' : r \in cov[j] /\ seq'[j] >= seq'[i]
    BY <1>3 DEF LiveCovers
  <1>6. CASE i = op.key
    BY <1>2, <1>3, <1>5, <1>6
  <1>7. CASE i # op.key
    <2>1. i \in Shards /\ i \in Key
      BY <1>4, <1>7 DEF Shards
    <2>2. PICK j \in live : r \in cov[j] /\ seq[j] >= seq[i]
      BY <2>1 DEF LiveCovers
    <2>3. j \in Key /\ seq'[j] >= seq[j] /\ seq'[i] = seq[i]
      BY <1>2, <1>4, <1>5, <1>7, <2>1
    <2>4. seq'[j] >= seq'[i]
      <3>1. seq[j] \in Nat /\ seq'[j] \in Nat /\ seq[i] \in Nat
        BY <1>2, <1>5, <2>1, <2>3
      <3> QED
        BY <2>2, <2>3, <3>1
    <2> QED
      BY <1>3, <2>2, <2>4
  <1> QED
    BY <1>6, <1>7

LEMMA DropCovers ==
  ASSUME DatasetInv, LiveCovers, NEW k \in Key, Drop(k) PROVE LiveCovers'
  <1>1. UNCHANGED <<cov, shard, seq>> /\ live' = live \ {k} /\ Shards' = Shards
    BY DEF Drop, Shards
  <1>2. seq \in [Key -> Nat] /\ live \subseteq Key /\ Shards \subseteq Key
    BY DEF DatasetInv, DatasetTypeOK, Shards
  <1>3. ASSUME NEW r \in Row, r \in cov[k]
        PROVE  \E j \in live' : r \in cov[j] /\ seq[j] > seq[k]
    <2>1. r \in Newer(k)
      BY <1>3 DEF Drop, Superseded
    <2>2. PICK i \in Shards : r \in cov[i] /\ seq[i] > seq[k]
      BY <2>1 DEF Newer
    <2>3. PICK j \in live : r \in cov[j] /\ seq[j] >= seq[i]
      BY <2>2 DEF LiveCovers
    <2>4. seq[j] > seq[k]
      BY <1>2, <2>2, <2>3
    <2>5. j # k
      BY <1>2, <2>4
    <2> QED
      BY <1>1, <2>3, <2>4, <2>5
  <1> SUFFICES ASSUME NEW r \in Row, NEW i \in Shards, r \in cov[i]
               PROVE  \E j \in live' : r \in cov[j] /\ seq[j] >= seq[i]
    BY <1>1 DEF LiveCovers
  <1>4. PICK j \in live : r \in cov[j] /\ seq[j] >= seq[i]
    BY DEF LiveCovers
  <1>5. CASE j # k
    BY <1>1, <1>4, <1>5
  <1>6. CASE j = k
    <2>1. PICK l \in live' : r \in cov[l] /\ seq[l] > seq[k]
      BY <1>3, <1>4, <1>6
    <2>2. seq[l] >= seq[i]
      <3>1. seq[l] \in Nat /\ seq[k] \in Nat /\ seq[i] \in Nat
        BY <1>1, <1>2
      <3> QED
        BY <1>4, <1>6, <2>1, <3>1
    <2> QED
      BY <2>1, <2>2
  <1> QED
    BY <1>5, <1>6

LEMMA CoversKeeps ==
  ASSUME DatasetInv, LiveCovers, DatasetNext \/ UNCHANGED dataset PROVE LiveCovers'
  <1>1. ASSUME NEW k \in Key, NEW c \in SUBSET Row, NewRow(k, c) PROVE LiveCovers'
    <2>1. k \notin Shards /\ k \notin live /\ shard[k] = None /\ seq[k] = 0
      BY <1>1 DEF NewRow, DatasetInv, RowsExist, LivePresent, Shards, DatasetTypeOK
    <2>2. UNCHANGED <<shard, seq, live>>
      BY <1>1, <2>1 DEF NewRow, CommitRow, DatasetInv, DatasetTypeOK
    <2>3. \A j \in Shards : cov'[j] = cov[j]
      BY <1>1, <2>1 DEF NewRow, CommitRow, DatasetInv, DatasetTypeOK, Shards
    <2> QED
      BY <2>2, <2>3, SameShardsCover
  <1>2. ASSUME NEW k \in Key, NEW c \in SUBSET Row, BeginPut(k, c) PROVE LiveCovers'
    <2>1. \A j \in Shards : cov'[j] = cov[j]
      BY <1>2 DEF BeginPut, DatasetInv, RowsExist, DatasetTypeOK, Shards
    <2>2. UNCHANGED <<shard, seq, live>>
      BY <1>2 DEF BeginPut
    <2> QED
      BY <2>1, <2>2, SameShardsCover
  <1>3. CASE \/ Check \/ Fill \/ Collect \/ EndPut \/ AbortPut \/ UNCHANGED dataset
             \/ \E h \in Hash : Remove(h)
             \/ \E k \in Key : ConsumeRow(k)
    <2>1. UNCHANGED <<cov, shard, seq, live>>
      BY <1>3 DEF Check, Fill, Collect, EndPut, AbortPut, Remove, ConsumeRow, dataset
    <2> QED
      BY <2>1, SameShardsCover
  <1> QED
    BY <1>1, <1>2, <1>3, PointCovers, DropCovers DEF DatasetNext, PutStep

-----------------------------------------------------------------------------
(* Coverage is exact.  Where all inputs are batched together, a router     *)
(* shard's pending coverage is what it holds and the inputs it dropped, so *)
(* that an emitted batch covers its own rows and dropped ones.  (A flush   *)
(* of several groups would stamp each of them with the rows of all.)       *)

SameGroup == \A r, q \in Row : Group[r] = Group[q]

RouterExact == \A s \in RouterShard : held[s] = pending[s] \ Filtered
CovExact == /\ \A e \in tasks : e.cov \ Filtered = Content(e.key)
            /\ \A k \in Key : stat[k] # "none" => cov[k] \ Filtered = Content(k)
Staged   == \A e \in tasks : e.at # "queued" => stat[e.key] # "none"
Exact    == RouterExact /\ CovExact /\ Staged

LEMMA RouterShardTypes ==
  ASSUME TypeOK
  PROVE  /\ \A s \in RouterShard : held[s] \subseteq Row /\ pending[s] \subseteq Row
         /\ Input = Row
  BY TypeParts, PipelineAssumption DEF PipelineAssumption, Input

(* A full batch is all the shard holds; so is a flushed one.               *)
LEMMA FullIsAll ==
  ASSUME SameGroup, TypeOK, NEW s \in RouterShard, NEW r \in Row
  PROVE  Full(s, r) = {} \/ Full(s, r) = {Grown(s, r)}
  <1>1. Grown(s, r) \subseteq Row
    BY RouterShardTypes DEF Grown
  <1>2. {x \in Grown(s, r) : Group[x] = Group[r]} = Grown(s, r)
    BY <1>1 DEF SameGroup
  <1> QED
    BY <1>2 DEF Full

LEMMA FlushIsAll ==
  ASSUME SameGroup, TypeOK, NEW s \in RouterShard
  PROVE  FlushOf(s) = IF held[s] = {} THEN {} ELSE {held[s]}
  <1>1. \A g \in Groups : Batch(s, g) = held[s]
    BY RouterShardTypes DEF Groups, Batch, SameGroup
  <1>2. held[s] # {} => Groups # {}
    BY RouterShardTypes DEF Groups
  <1> QED
    BY <1>1, <1>2 DEF FlushOf

LEMMA RouteExact ==
  ASSUME SameGroup, TypeOK, RouterExact, NEW s \in RouterShard, NEW r \in Row
  PROVE  /\ \A b \in Routed(s, r) : b.cov \ Filtered = b.content
         /\ Route(s, r) => RouterExact'
  <1>1. held[s] = pending[s] \ Filtered
    BY DEF RouterExact
  <1>2. Grown(s, r) = (pending[s] \cup {r}) \ Filtered
    BY <1>1 DEF Grown
  <1>3. \A b \in Routed(s, r) : b.cov \ Filtered = b.content
    <2> SUFFICES ASSUME NEW c \in Full(s, r)
                 PROVE  (pending[s] \cup {r}) \ Filtered = c
      BY DEF Routed
    <2> QED
      BY <1>2, FullIsAll
  <1>4. ASSUME Route(s, r) PROVE RouterExact'
    <2>1. /\ held' = [held EXCEPT ![s] = Grown(s, r) \ UNION Full(s, r)]
          /\ pending' = [pending EXCEPT ![s] =
               IF Full(s, r) = {} THEN pending[s] \cup {r} ELSE {}]
      BY <1>4 DEF Route, Stamp
    <2>2. Grown(s, r) \ UNION Full(s, r)
            = (IF Full(s, r) = {} THEN pending[s] \cup {r} ELSE {}) \ Filtered
      BY <1>2, FullIsAll
    <2>3. /\ held' \in [RouterShard -> SUBSET Row] /\ pending' \in [RouterShard -> SUBSET Row]
      BY <1>4, RoutedType
    <2>4. ASSUME NEW t \in RouterShard PROVE held'[t] = pending'[t] \ Filtered
      <3>1. CASE t = s
        BY <2>1, <2>2, <3>1, TypeParts
      <3>2. CASE t # s
        BY <2>1, <3>2, TypeParts DEF RouterExact
      <3> QED
        BY <3>1, <3>2
    <2> QED
      BY <2>4 DEF RouterExact
  <1> QED
    BY <1>3, <1>4

LEMMA FlushExact ==
  ASSUME SameGroup, TypeOK, RouterExact
  PROVE  /\ \A b \in Flushed : b.cov \ Filtered = b.content
         /\ FlushAll => RouterExact'
  <1>1. \A b \in Flushed : b.cov \ Filtered = b.content
    <2> SUFFICES ASSUME NEW s \in RouterShard, NEW c \in FlushOf(s)
                 PROVE  pending[s] \ Filtered = c
      BY DEF Flushed
    <2> QED
      BY FlushIsAll DEF RouterExact
  <1>2. ASSUME FlushAll, NEW s \in RouterShard PROVE held'[s] = pending'[s] \ Filtered
    <2>1. held'[s] = {} /\ pending'[s] = IF FlushOf(s) = {} THEN pending[s] ELSE {}
      BY <1>2 DEF FlushAll
    <2>2. FlushOf(s) = {} => held[s] = {}
      BY FlushIsAll
    <2> QED
      BY <2>1, <2>2 DEF RouterExact
  <1> QED
    BY <1>1, <1>2 DEF RouterExact

LEMMA ArriveParts ==
  ASSUME NEW B, NEW e \in Arrive(B)
  PROVE  \E b \in B : /\ e.key = <<1, b.content>> /\ e.cov = b.cov /\ e.at = "queued"
                      /\ Content(e.key) = b.content /\ Type(e.key) = 1
  BY DEF Arrive, Envelope, Content, Type

(* A row once made stays, with its coverage.                               *)
RowsStay == \A k \in Key : stat[k] # "none" => stat'[k] # "none" /\ cov'[k] = cov[k]

LEMMA DatasetRowsStay ==
  ASSUME DatasetInv, DatasetNext \/ UNCHANGED dataset PROVE RowsStay
  <1>1. ASSUME NEW k \in Key, NEW c \in SUBSET Row, NewRow(k, c) \/ BeginPut(k, c) PROVE RowsStay
    BY <1>1 DEF NewRow, CommitRow, BeginPut, RowsStay, DatasetInv, DatasetTypeOK
  <1>2. ASSUME NEW k \in Key, ConsumeRow(k) PROVE RowsStay
    BY <1>2 DEF ConsumeRow, RowsStay, DatasetInv, DatasetTypeOK
  <1>3. CASE \/ PutStep \/ EndPut \/ AbortPut \/ UNCHANGED dataset
    <2>1. UNCHANGED <<stat, cov>>
      BY <1>3 DEF PutStep, Check, Fill, Point, Collect, Drop, Remove, EndPut, AbortPut, dataset
    <2> QED
      BY <2>1 DEF RowsStay
  <1> QED
    BY <1>1, <1>2, <1>3 DEF DatasetNext

(* A step that makes no row, and whose tasks are old ones or have a row.   *)
LEMMA MoveExact ==
  ASSUME Exact, UNCHANGED <<router, cov>>,
         \A k \in Key : stat'[k] # "none" => stat[k] # "none",
         RowsStay, TypeOK,
         \A f \in tasks' : \E e \in tasks :
           /\ f.cov = e.cov /\ Content(f.key) = Content(e.key)
           /\ f.at # "queued" =>
                f.key = e.key /\ (e.at # "queued" \/ stat[e.key] # "none")
  PROVE  Exact'
  <1>1. RouterExact'
    BY DEF Exact, RouterExact, router
  <1>2. CovExact'
    BY DEF Exact, CovExact, Content
  <1>3. Staged'
    <2> SUFFICES ASSUME NEW f \in tasks', f.at # "queued" PROVE stat'[f.key] # "none"
      BY DEF Staged
    <2>1. PICK e \in tasks : f.key = e.key /\ (e.at # "queued" \/ stat[e.key] # "none")
      OBVIOUS
    <2>2. e.key \in Key /\ stat[e.key] # "none"
      BY <2>1, EnvelopeParts DEF Exact, Staged
    <2> QED
      BY <2>1, <2>2 DEF RowsStay
  <1> QED
    BY <1>1, <1>2, <1>3 DEF Exact

LEMMA Moved ==
  ASSUME NEW e \in Envelopes, NEW s, NEW N
  PROVE  \A f \in N \cup {[e EXCEPT !.at = s]} :
           f \in N \/ (f.key = e.key /\ f.cov = e.cov /\ f.at = s)
  BY DEF Envelopes

LEMMA NextExact ==
  ASSUME SameGroup, PipelineInv, Exact, [Next]_vars
  PROVE  Exact'
  <1>0. TypeOK /\ DatasetInv /\ RowsStay
    BY StepOfDataset, DatasetRowsStay DEF PipelineInv
  <1>1. CASE UNCHANGED vars
    <2>1. UNCHANGED <<held, pending, tasks, stat, cov>>
      BY <1>1 DEF vars, router, dataset
    <2> QED
      BY <2>1 DEF Exact, RouterExact, CovExact, Staged, Content
  <1>2. CASE StartRun
    <2>1. UNCHANGED <<stat, cov>> /\ RouterExact'
      BY <1>2 DEF StartRun, dataset, RouterExact
    <2>2. \A f \in tasks' : \E k \in StoredItems : f = Envelope(k, cov[k], "queued")
      BY <1>2 DEF StartRun
    <2>3. StoredItems \subseteq Key /\ \A k \in StoredItems : stat[k] # "none"
      BY <1>0 DEF StoredItems, DatasetInv, DatasetTypeOK
    <2>4. \A f \in tasks' : f.cov \ Filtered = Content(f.key) /\ f.at = "queued"
      BY <2>2, <2>3 DEF Envelope, Exact, CovExact
    <2> QED
      BY <2>1, <2>4 DEF Exact, CovExact, Staged, Content
  <1>3. ASSUME NEW r \in Row, NEW s \in RouterShard, Fold(r, s) PROVE Exact'
    <2>1. /\ UNCHANGED <<stat, cov>> /\ Route(s, r)
          /\ tasks' = tasks \cup Arrive(Routed(s, r))
      BY <1>3 DEF Fold, dataset
    <2>2. /\ RouterExact'
          /\ \A b \in Routed(s, r) : b.cov \ Filtered = b.content
      BY <1>0, <2>1, RouteExact DEF Exact
    <2>3. \A f \in Arrive(Routed(s, r)) : f.cov \ Filtered = Content(f.key) /\ f.at = "queued"
      BY <2>2, ArriveParts
    <2> QED
      BY <2>1, <2>2, <2>3 DEF Exact, CovExact, Staged, Content
  <1>4. CASE Flush
    <2>1. UNCHANGED <<stat, cov>> /\ FlushAll /\ tasks' = Arrive(Flushed)
      BY <1>4 DEF Flush, dataset
    <2>2. RouterExact' /\ \A b \in Flushed : b.cov \ Filtered = b.content
      BY <1>0, <2>1, FlushExact DEF Exact
    <2>3. \A f \in Arrive(Flushed) : f.cov \ Filtered = Content(f.key) /\ f.at = "queued"
      BY <2>2, ArriveParts
    <2> QED
      BY <2>1, <2>2, <2>3 DEF Exact, CovExact, Staged, Content
  <1>5. CASE EndRun \/ Putting
    <2>1. UNCHANGED <<held, pending, tasks, stat, cov>>
      BY <1>5 DEF EndRun, Putting, PutStep, Check, Fill, Point, Collect, Drop, Remove,
                  dataset, router
    <2> QED
      BY <2>1 DEF Exact, RouterExact, CovExact, Staged, Content
  <1>6. CASE Crash
    <2>1. /\ UNCHANGED <<stat, cov>> /\ tasks' = {}
          /\ \A s \in RouterShard : held'[s] = {} /\ pending'[s] = {}
      BY <1>6 DEF Crash, AbortPut
    <2> QED
      BY <2>1 DEF Exact, RouterExact, CovExact, Staged, Content
  <1>7. ASSUME NEW e \in tasks, Admit(e) PROVE Exact'
    <2>0. e \in Envelopes /\ e.key \in Key /\ e.cov \in SUBSET Row
      BY <1>0, EnvelopeParts
    <2>1. CASE stat[e.key] = "none"
      <3>1. /\ CommitRow(e.key, e.cov) /\ UNCHANGED router
            /\ tasks' = (tasks \ {e}) \cup {[e EXCEPT !.at = "put"]}
        BY <1>7, <2>1 DEF Admit, MoveTo
      <3>2. \A k \in Key : /\ stat'[k] = IF k = e.key THEN "stored" ELSE stat[k]
                           /\ cov'[k] = IF k = e.key THEN e.cov ELSE cov[k]
        BY <1>0, <3>1 DEF CommitRow, DatasetInv, DatasetTypeOK
      <3>3. RouterExact'
        BY <3>1 DEF router, Exact, RouterExact
      <3>a. \A f \in tasks' : f \in tasks \/ (f.key = e.key /\ f.cov = e.cov /\ f.at = "put")
        BY <2>0, <3>1, Moved
      <3>4. \A f \in tasks' : \E d \in tasks : f.key = d.key /\ f.cov = d.cov
        BY <3>a
      <3>5. CovExact'
        BY <3>2, <3>4 DEF Exact, CovExact, Content
      <3>6. \A f \in tasks' : f.at # "queued" => f.key = e.key \/ stat[f.key] # "none"
        BY <3>a DEF Exact, Staged
      <3>7. tasks' \subseteq Envelopes
        BY <1>0, <3>1, MoveType, TypeParts DEF MoveTo, Stages
      <3>8. \A f \in tasks' : f.key \in Key
        BY <3>7 DEF Envelopes
      <3>9. Staged'
        BY <3>2, <3>6, <3>8 DEF Staged
      <3> QED
        BY <3>3, <3>5, <3>9 DEF Exact
    <2>2. CASE stat[e.key] # "none"
      <3>1. /\ UNCHANGED <<router, stat, cov>>
            /\ \/ tasks' = (tasks \ {e}) \cup {[e EXCEPT !.at = "work"]}
               \/ tasks' = tasks \ {e}
        BY <1>7, <2>2 DEF Admit, MoveTo, dataset
      <3>2. \A f \in tasks' : f \in tasks \/ (f.key = e.key /\ f.cov = e.cov /\ f.at = "work")
        <4>1. CASE tasks' = tasks \ {e}
          BY <4>1
        <4>2. CASE tasks' = (tasks \ {e}) \cup {[e EXCEPT !.at = "work"]}
          BY <2>0, <4>2, Moved
        <4> QED
          BY <3>1, <4>1, <4>2
      <3>3. \A f \in tasks' : \E d \in tasks :
              /\ f.cov = d.cov /\ Content(f.key) = Content(d.key)
              /\ f.at # "queued" => f.key = d.key /\ (d.at # "queued" \/ stat[d.key] # "none")
        BY <2>2, <3>2
      <3> QED
        BY <1>0, <3>1, <3>3, MoveExact
    <2> QED
      BY <2>1, <2>2
  <1>8. ASSUME NEW e \in tasks, StartPut(e) \/ FinishPut(e) \/ FailPut(e) \/ Consume(e)
        PROVE  Exact'
    <2>0. e \in Envelopes /\ e.key \in Key /\ e.at # "queued" /\ stat[e.key] # "none"
      BY <1>0, <1>8, EnvelopeParts DEF StartPut, FinishPut, FailPut, Consume, Exact, Staged
    <2>1. UNCHANGED <<router, cov>>
      BY <1>8, <2>0 DEF StartPut, FinishPut, FailPut, Consume, BeginPut, EndPut, AbortPut,
                        ConsumeRow
    <2>2. \A k \in Key : stat'[k] # "none" => stat[k] # "none"
      BY <1>0, <1>8, <2>0 DEF StartPut, FinishPut, FailPut, Consume, BeginPut, EndPut, AbortPut,
                              ConsumeRow, DatasetInv, DatasetTypeOK
    <2>3. \/ \E s : tasks' = (tasks \ {e}) \cup {[e EXCEPT !.at = s]}
          \/ tasks' = tasks \ {e}
      BY <1>8 DEF StartPut, FinishPut, FailPut, Consume, MoveTo
    <2>4. \A f \in tasks' : f \in tasks \/ (f.key = e.key /\ f.cov = e.cov)
      <3>1. CASE tasks' = tasks \ {e}
        BY <3>1
      <3>2. ASSUME NEW s, tasks' = (tasks \ {e}) \cup {[e EXCEPT !.at = s]}
            PROVE  \A f \in tasks' : f \in tasks \/ (f.key = e.key /\ f.cov = e.cov)
        BY <2>0, <3>2, Moved
      <3> QED
        BY <2>3, <3>1, <3>2
    <2>5. \A f \in tasks' : \E d \in tasks :
            /\ f.cov = d.cov /\ Content(f.key) = Content(d.key)
            /\ f.at # "queued" => f.key = d.key /\ (d.at # "queued" \/ stat[d.key] # "none")
      BY <2>0, <2>4
    <2> QED
      BY <1>0, <2>1, <2>2, <2>5, MoveExact
  <1>9. ASSUME NEW e \in tasks, Edit(e) PROVE Exact'
    <2>0. e \in Envelopes /\ e.key \in Key /\ e.at = "work"
      BY <1>0, <1>9, EnvelopeParts DEF Edit
    <2>1. /\ UNCHANGED <<router, stat, cov>>
          /\ tasks' = (tasks \ {e}) \cup {[e EXCEPT !.at = "consume"],
                        Envelope(<<2, Content(e.key)>>, e.cov, "queued")}
      BY <1>9 DEF Edit, dataset
    <2>2. LET f == Envelope(<<2, Content(e.key)>>, e.cov, "queued")
          IN  f.cov = e.cov /\ Content(f.key) = Content(e.key) /\ f.at = "queued"
      BY DEF Envelope, Content
    <2>3. \A f \in tasks' :
            \/ f \in tasks
            \/ f.key = e.key /\ f.cov = e.cov
            \/ f.cov = e.cov /\ Content(f.key) = Content(e.key) /\ f.at = "queued"
      <3> DEFINE g == Envelope(<<2, Content(e.key)>>, e.cov, "queued")
                 N == (tasks \ {e}) \cup {g}
      <3>1. \A f \in N \cup {[e EXCEPT !.at = "consume"]} :
              f \in N \/ (f.key = e.key /\ f.cov = e.cov)
        <4> HIDE DEF N
        <4> QED
          BY <2>0, Moved
      <3>2. tasks' = N \cup {[e EXCEPT !.at = "consume"]}
        BY <2>1
      <3> QED
        BY <2>2, <3>1, <3>2
    <2>4. \A f \in tasks' : \E d \in tasks :
            /\ f.cov = d.cov /\ Content(f.key) = Content(d.key)
            /\ f.at # "queued" => f.key = d.key /\ (d.at # "queued" \/ stat[d.key] # "none")
      BY <2>0, <2>3
    <2>5. \A k \in Key : stat'[k] # "none" => stat[k] # "none"
      BY <2>1
    <2> QED
      BY <1>0, <2>1, <2>4, <2>5, MoveExact
  <1> QED
    BY <1>1, <1>2, <1>3, <1>4, <1>5, <1>6, <1>7, <1>8, <1>9 DEF Next

-----------------------------------------------------------------------------
(* No row is lost.  During a run each row that no router drops is still to *)
(* be read, held by a router, in a task's batch, or in a batch whose row   *)
(* of the table was made; so when nothing is in flight and the routers are *)
(* empty, it is in such a batch, and whatever comes later keeps that row.  *)

Recorded(r) == \E k \in Key : stat[k] # "none" /\ r \in Content(k)
Home(r) ==
  \/ r \in unread \/ \E s \in RouterShard : r \in held[s]
  \/ \E e \in tasks : r \in Content(e.key)
  \/ Recorded(r)

Housed == /\ phase = "up" => \A r \in Row \ Filtered : Home(r)
          /\ phase = "over" /\ extent => \A r \in Row \ Filtered : Recorded(r)

LEMMA RecordedStays ==
  ASSUME RowsStay, NEW r, Recorded(r) PROVE Recorded(r)'
  BY DEF RowsStay, Recorded, Content

(* A batch leaves the tasks only when its row was made.                    *)
LEMMA MoveHoused ==
  ASSUME TypeOK, RowsStay, Housed, phase = "up", phase' = "up", UNCHANGED <<unread, held>>,
         \A e \in tasks : \/ stat'[e.key] # "none"
                          \/ \E f \in tasks' : Content(f.key) = Content(e.key)
  PROVE  Housed'
  <1> SUFFICES ASSUME NEW r \in Row \ Filtered PROVE Home(r)'
    BY DEF Housed
  <1>1. CASE r \in unread \/ \E s \in RouterShard : r \in held[s]
    BY <1>1 DEF Home
  <1>2. CASE Recorded(r)
    BY <1>2, RecordedStays DEF Home
  <1>3. CASE \E e \in tasks : r \in Content(e.key)
    <2>1. PICK e \in tasks : r \in Content(e.key)
      BY <1>3
    <2>2. e.key \in Key
      BY EnvelopeParts
    <2>3. CASE stat'[e.key] # "none"
      BY <2>1, <2>2, <2>3 DEF Home, Recorded, Content
    <2>4. CASE \E f \in tasks' : Content(f.key) = Content(e.key)
      BY <2>1, <2>4 DEF Home, Content
    <2> QED
      BY <2>3, <2>4
  <1> QED
    BY <1>1, <1>2, <1>3 DEF Housed, Home

LEMMA StartHoused ==
  ASSUME PipelineInv, Exact, StartRun PROVE Housed'
  <1>1. /\ phase' = "up" /\ unread' = IF extent /\ Row \subseteq Covered THEN {} ELSE Row
        /\ UNCHANGED <<stat, cov>>
    BY DEF StartRun, dataset
  <1> SUFFICES ASSUME NEW r \in Row \ Filtered PROVE Home(r)'
    BY <1>1 DEF Housed
  <1>2. CASE ~(extent /\ Row \subseteq Covered)
    BY <1>1, <1>2 DEF Home
  <1>3. CASE Row \subseteq Covered
    <2>1. PICK k \in Key : stat[k] # "none" /\ r \in cov[k]
      BY <1>3 DEF Covered
    <2>2. r \in Content(k)
      BY <2>1 DEF Exact, CovExact
    <2> QED
      BY <1>1, <2>1, <2>2 DEF Home, Recorded, Content
  <1> QED
    BY <1>2, <1>3

(* What a shard holds when it folds or is flushed, it holds still or emits.*)
LEMMA FoldHoused ==
  ASSUME SameGroup, TypeOK, RowsStay, Housed, NEW q \in Row, NEW s \in RouterShard, Fold(q, s)
  PROVE  Housed'
  <1>1. /\ phase = "up" /\ phase' = "up" /\ unread' = unread \ {q} /\ Route(s, q)
        /\ tasks' = tasks \cup Arrive(Routed(s, q))
    BY DEF Fold
  <1>2. \A t \in RouterShard : held'[t] = IF t = s THEN Grown(s, q) \ UNION Full(s, q)
                                          ELSE held[t]
    BY <1>1, TypeParts DEF Route
  <1>3. ASSUME NEW r \in Grown(s, q) PROVE Home(r)'
    <2>1. CASE Full(s, q) = {}
      BY <1>2, <1>3, <2>1 DEF Home
    <2>2. CASE Full(s, q) = {Grown(s, q)}
      <3> DEFINE b == [content |-> Grown(s, q), cov |-> pending[s] \cup {q}]
                 e == Envelope(<<1, b.content>>, b.cov, "queued")
      <3>1. b \in Routed(s, q)
        BY <2>2 DEF Routed
      <3>2. e \in tasks'
        <4> HIDE DEF b
        <4>1. e \in Arrive(Routed(s, q))
          BY <3>1 DEF Arrive
        <4> QED
          BY <1>1, <4>1
      <3>3. r \in Content(e.key)
        BY <1>3 DEF Envelope, Content
      <3> QED
        BY <3>2, <3>3 DEF Home, Content
    <2> QED
      BY <2>1, <2>2, FullIsAll
  <1> SUFFICES ASSUME NEW r \in Row \ Filtered PROVE Home(r)'
    BY <1>1 DEF Housed
  <1>4. CASE r = q \/ r \in held[s]
    BY <1>3, <1>4 DEF Grown
  <1>5. CASE r \in unread /\ r # q
    BY <1>1, <1>5 DEF Home
  <1>6. CASE \E t \in RouterShard : t # s /\ r \in held[t]
    BY <1>2, <1>6 DEF Home
  <1>7. CASE \E e \in tasks : r \in Content(e.key)
    BY <1>1, <1>7 DEF Home, Content
  <1>8. CASE Recorded(r)
    BY <1>8, RecordedStays DEF Home
  <1> QED
    BY <1>1, <1>4, <1>5, <1>6, <1>7, <1>8 DEF Housed, Home

LEMMA FlushHoused ==
  ASSUME SameGroup, TypeOK, RowsStay, Housed, Flush PROVE Housed'
  <1>1. /\ phase = "up" /\ phase' = "up" /\ unread = {} /\ tasks = {}
        /\ tasks' = Arrive(Flushed)
    BY DEF Flush, Quiet, run
  <1> SUFFICES ASSUME NEW r \in Row \ Filtered PROVE Home(r)'
    BY <1>1 DEF Housed
  <1>2. CASE Recorded(r)
    BY <1>2, RecordedStays DEF Home
  <1>3. CASE \E s \in RouterShard : r \in held[s]
    <2>1. PICK s \in RouterShard : r \in held[s]
      BY <1>3
    <2> DEFINE b == [content |-> held[s], cov |-> pending[s]]
               e == Envelope(<<1, b.content>>, b.cov, "queued")
    <2>2. held[s] \in FlushOf(s)
      BY <2>1, FlushIsAll
    <2>3. b \in Flushed
      BY <2>2 DEF Flushed
    <2>4. e \in tasks'
      BY <1>1, <2>3 DEF Arrive
    <2>5. r \in Content(e.key)
      BY <2>1 DEF Envelope, Content
    <2> QED
      BY <2>4, <2>5 DEF Home, Content
  <1> QED
    BY <1>1, <1>2, <1>3 DEF Housed, Home

LEMMA EndHoused ==
  ASSUME SameGroup, TypeOK, Housed, EndRun PROVE Housed'
  <1>1. /\ phase = "up" /\ unread = {} /\ tasks = {} /\ Flushed = {}
        /\ phase' = "over" /\ UNCHANGED stat
    BY DEF EndRun, Quiet, dataset
  <1>2. ASSUME NEW s \in RouterShard PROVE held[s] = {}
    <2>1. ASSUME NEW c \in FlushOf(s) PROVE FALSE
      <3>1. [content |-> c, cov |-> pending[s]] \in Flushed
        BY <2>1 DEF Flushed
      <3> QED
        BY <1>1, <3>1
    <2> QED
      BY <2>1, FlushIsAll
  <1>3. \A r \in Row \ Filtered : Recorded(r)
    BY <1>1, <1>2 DEF Housed, Home
  <1> QED
    BY <1>1, <1>3 DEF Housed, Recorded, Content

LEMMA NextHoused ==
  ASSUME SameGroup, PipelineInv, Exact, Housed, [Next]_vars
  PROVE  Housed'
  <1>0. TypeOK /\ DatasetInv /\ RowsStay
    BY StepOfDataset, DatasetRowsStay DEF PipelineInv
  <1>1. CASE UNCHANGED vars
    <2>1. UNCHANGED <<phase, unread, extent, held, tasks, stat>>
      BY <1>1 DEF vars, router, run, dataset
    <2> QED
      BY <2>1 DEF Housed, Home, Recorded, Content
  <1>2. CASE Putting
    <2>1. UNCHANGED <<phase, unread, extent, held, tasks, stat>>
      BY <1>2 DEF Putting, PutStep, Check, Fill, Point, Collect, Drop, Remove, router, run
    <2> QED
      BY <2>1 DEF Housed, Home, Recorded, Content
  <1>3. CASE Crash
    BY <1>3 DEF Crash, Housed
  <1>4. ASSUME NEW e \in tasks,
               Admit(e) \/ StartPut(e) \/ FinishPut(e) \/ FailPut(e) \/ Edit(e) \/ Consume(e)
        PROVE  Housed'
    <2>0. e.key \in Key
      BY <1>0, EnvelopeParts
    <2>1. UNCHANGED <<phase, extent, unread, held>>
      BY <1>4 DEF Admit, StartPut, FinishPut, FailPut, Edit, Consume, router, run
    <2>2. /\ \A f \in tasks \ {e} : f \in tasks'
          /\ \/ stat'[e.key] # "none"
             \/ \E f \in tasks' : Content(f.key) = Content(e.key)
      <3>1. CASE Admit(e)
        <4>1. stat'[e.key] # "none"
          BY <1>0, <2>0, <3>1 DEF Admit, CommitRow, DatasetInv, DatasetTypeOK, dataset
        <4>2. tasks \ {e} \subseteq tasks'
          BY <3>1 DEF Admit, MoveTo
        <4> QED
          BY <4>1, <4>2
      <3>2. CASE StartPut(e) \/ FinishPut(e) \/ FailPut(e) \/ Consume(e)
        <4>1. e.at # "queued"
          BY <3>2 DEF StartPut, FinishPut, FailPut, Consume
        <4>2. stat[e.key] # "none"
          BY <4>1 DEF Exact, Staged
        <4>3. tasks \ {e} \subseteq tasks'
          BY <3>2 DEF StartPut, FinishPut, FailPut, Consume, MoveTo
        <4> QED
          BY <1>0, <2>0, <4>2, <4>3 DEF RowsStay
      <3>3. CASE Edit(e)
        <4> DEFINE f == Envelope(<<2, Content(e.key)>>, e.cov, "queued")
        <4>1. f \in tasks' /\ tasks \ {e} \subseteq tasks'
          BY <3>3 DEF Edit
        <4>2. Content(f.key) = Content(e.key)
          BY DEF Envelope, Content
        <4> QED
          BY <4>1, <4>2
      <3> QED
        BY <1>4, <3>1, <3>2, <3>3
    <2>3. CASE phase = "up"
      BY <1>0, <2>1, <2>2, <2>3, MoveHoused
    <2>4. CASE phase # "up"
      <3>1. (\A r \in Row \ Filtered : Recorded(r)) => \A r \in Row \ Filtered : Recorded(r)'
        BY <1>0, RecordedStays
      <3> QED
        BY <2>1, <2>4, <3>1 DEF Housed
    <2> QED
      BY <2>3, <2>4
  <1> QED
    BY <1>0, <1>1, <1>2, <1>3, <1>4, StartHoused, FoldHoused, FlushHoused, EndHoused DEF Next

KeptInv == PipelineInv /\ LiveCovers /\ Exact /\ Housed

LEMMA KeptStarts == Init => KeptInv
  <1> SUFFICES ASSUME Init PROVE KeptInv
    OBVIOUS
  <1>1. PipelineInv
    BY PipelineStarts
  <1>2. Shards = {} /\ \A k \in Key : stat[k] = "none"
    BY DEF Init, DatasetInit, Shards
  <1>3. LiveCovers /\ Exact
    BY <1>2 DEF Init, RouterInit, LiveCovers, Exact, RouterExact, CovExact, Staged
  <1>4. Housed
    BY DEF Init, Housed
  <1> QED
    BY <1>1, <1>3, <1>4 DEF KeptInv

LEMMA KeptKeeps == ASSUME SameGroup, KeptInv, [Next]_vars PROVE KeptInv'
  <1>1. PipelineInv' /\ Exact' /\ Housed'
    BY PipelineKeeps, NextExact, NextHoused DEF KeptInv
  <1>2. LiveCovers'
    BY StepOfDataset, CoversKeeps DEF KeptInv, PipelineInv
  <1> QED
    BY <1>1, <1>2 DEF KeptInv

(* A row in a batch that has a shard is in a live one: the shard covers    *)
(* it, so a live shard does, and that covers what it contains.             *)
LEMMA RecordedLive ==
  ASSUME KeptInv, NEW r \in Row \ Filtered, Recorded(r)
  PROVE  Torn(r) \/ \E k \in live : r \in Content(k)
  <1>1. PICK k \in Key : stat[k] # "none" /\ r \in Content(k)
    BY DEF Recorded
  <1>2. CASE k \notin Shards
    BY <1>1, <1>2 DEF Torn
  <1>3. CASE k \in Shards
    <2>1. r \in cov[k]
      BY <1>1 DEF KeptInv, Exact, CovExact
    <2>2. PICK j \in live : r \in cov[j]
      BY <1>3, <2>1 DEF KeptInv, LiveCovers
    <2>3. j \in Key /\ stat[j] # "none"
      BY <2>2 DEF KeptInv, PipelineInv, DatasetInv, LivePresent, RowsExist, Shards
    <2>4. r \in Content(j)
      BY <2>2, <2>3 DEF KeptInv, Exact, CovExact
    <2> QED
      BY <2>2, <2>4
  <1> QED
    BY <1>2, <1>3

(* Where all rows are batched together, a pass that ends cleanly leaves    *)
(* each row in a live shard, whatever crashes, failed puts and equal or    *)
(* repeated batches came before it; only a row that a fault tore from its  *)
(* shard is excepted.  (That a router with several groups loses rows is    *)
(* what SameGroup excludes.)                                               *)
THEOREM NoRowLost == ASSUME SameGroup PROVE Spec => []RowsKept
  <1>1. KeptInv => RowsKept
    BY RecordedLive DEF KeptInv, Housed, RowsKept
  <1> QED
    BY <1>1, KeptStarts, KeptKeeps, PTL DEF Spec

-----------------------------------------------------------------------------
(* The dataset when no put fails.  The lock holder's row is the newest     *)
(* once it has its shard, nothing superseded is left when files are being  *)
(* removed, and the files are those of live rows, of dropped rows that are *)
(* about to go, and of the row that is about to get one.                   *)

Held(h) == op.at \in {"fill", "point"} /\ h = HashOf[op.key]
Tidy ==
  /\ op.at \notin {"supersede", "remove"} => op.dead = {}
  /\ op.at \in {"supersede", "remove"} =>
       op.key \in Shards /\ \A k \in Key : k # op.key => seq[k] < seq[op.key]
  /\ At("remove") => \A k \in Key : ~Superseded(k)
  /\ \A h \in Hash :
       file[h] # "absent" <=> (\E k \in live : shard[k] = h) \/ h \in op.dead \/ Held(h)

LEMMA SameSuperseded ==
  ASSUME UNCHANGED <<cov, shard, seq, live>>
  PROVE  Shards' = Shards /\ \A k : Superseded(k)' = Superseded(k)
  BY DEF Shards, Superseded, Newer

LEMMA TidyRows ==
  ASSUME DatasetInv, Tidy, NEW k \in Key, NEW c \in SUBSET Row,
         NewRow(k, c) \/ BeginPut(k, c) \/ ConsumeRow(k)
  PROVE  Tidy'
  <1>1. At("idle") /\ file' = file
    BY DEF NewRow, CommitRow, BeginPut, ConsumeRow
  <1>2. UNCHANGED <<shard, seq, live>>
    <2>1. CASE NewRow(k, c)
      <3>1. k \notin Shards /\ k \notin live /\ shard[k] = None /\ seq[k] = 0
        BY <2>1 DEF NewRow, DatasetInv, RowsExist, LivePresent, Shards, DatasetTypeOK
      <3> QED
        BY <2>1, <3>1 DEF NewRow, CommitRow, DatasetInv, DatasetTypeOK
    <2> QED
      BY <2>1 DEF BeginPut, ConsumeRow
  <1>3. op'.at \in {"idle", "check"} /\ op'.dead = {}
    BY <1>1 DEF NewRow, CommitRow, BeginPut, ConsumeRow, At, Tidy
  <1>4. op.at = "idle" /\ op.dead = {}
    BY <1>1 DEF At, Tidy
  <1> QED
    BY <1>1, <1>2, <1>3, <1>4 DEF Tidy, Held, At

LEMMA TidyFill == ASSUME DatasetInv, Tidy, Check \/ Fill PROVE Tidy'
  <1>1. op.key \in Key /\ HashOf[op.key] \in Hash /\ op.at \in {"check", "fill"}
    BY HashType DEF DatasetInv, DatasetTypeOK, Check, Fill, At
  <1>2. op'.key = op.key /\ op'.at \in {"fill", "point"} /\ op'.dead = op.dead
    BY DEF Check, Fill, GoOn, DatasetInv, DatasetTypeOK
  <1>3. UNCHANGED <<cov, shard, seq, live>>
    BY DEF Check, Fill
  <1>4. \A h \in Hash : file'[h] # "absent" <=> file[h] # "absent" \/ h = HashOf[op.key]
    BY <1>1 DEF Check, Fill, DatasetInv, DatasetTypeOK, At
  <1>5. \A h \in Hash : Held(h)' <=> h = HashOf[op.key]
    BY <1>2 DEF Held
  <1>6. \A h \in Hash : Held(h) => h = HashOf[op.key]
    BY DEF Held
  <1>7. \A h \in Hash :
          file'[h] # "absent" <=>
            (\E k \in live : shard[k] = h) \/ h \in op.dead \/ h = HashOf[op.key]
    BY <1>4, <1>6 DEF Tidy
  <1> QED
    BY <1>1, <1>2, <1>3, <1>5, <1>7 DEF Tidy, At

LEMMA TidyPoint == ASSUME DatasetInv, Tidy, Point PROVE Tidy'
  <1> USE DEF Point, At, GoOn
  <1>1. PICK n \in {1} \cup {seq[k] + 1 : k \in Key} :
          IsNextSeq(n) /\ seq' = [seq EXCEPT ![op.key] = n]
    OBVIOUS
  <1>2. seq \in [Key -> Nat] /\ n \in Nat /\ \A k \in Key : seq[k] < n
    BY <1>1 DEF DatasetInv, DatasetTypeOK, IsNextSeq
  <1>3. op.key \in Key /\ HashOf[op.key] \in Hash /\ HashOf[op.key] # None
    BY HashType DEF DatasetInv, DatasetTypeOK
  <1>4. op'.key = op.key /\ op'.at = "supersede" /\ op'.dead = {}
    BY DEF DatasetInv, DatasetTypeOK, Tidy
  <1>5. /\ \A k \in Key : shard'[k] = IF k = op.key THEN HashOf[op.key] ELSE shard[k]
        /\ live' = live \cup {op.key} /\ file' = file
    BY <1>3 DEF DatasetInv, DatasetTypeOK
  <1>6. op.key \in Shards'
    BY <1>3, <1>5 DEF Shards
  <1>7. \A k \in Key : k # op.key => seq'[k] < seq'[op.key]
    BY <1>1, <1>2, <1>3
  <1>8. \A h \in Hash : (\E k \in live' : shard'[k] = h)
                          <=> (\E k \in live : shard[k] = h) \/ h = HashOf[op.key]
    <2>1. \A k \in live : k = op.key => shard[k] = HashOf[op.key]
      BY DEF DatasetInv, DatasetTypeOK, LivePresent, Shards
    <2>2. live \subseteq Key
      BY DEF DatasetInv, DatasetTypeOK
    <2> QED
      BY <1>3, <1>5, <2>1, <2>2
  <1>9. \A h \in Hash :
          file[h] # "absent" <=> (\E k \in live : shard[k] = h) \/ h = HashOf[op.key]
    BY DEF Tidy, Held
  <1> QED
    BY <1>4, <1>5, <1>6, <1>7, <1>8, <1>9 DEF Tidy, Held

LEMMA TidyDrop == ASSUME DatasetInv, Tidy, NEW k \in Key, Drop(k) PROVE Tidy'
  <1> USE DEF Drop, At
  <1>1. /\ UNCHANGED <<cov, shard, seq, file>> /\ live' = live \ {k} /\ k \in live
        /\ Shards' = Shards
    BY DEF Shards, Superseded
  <1>2. op'.key = op.key /\ op'.at = "supersede" /\ op'.dead = op.dead \cup {shard[k]}
    BY DEF DatasetInv, DatasetTypeOK
  <1>3. \A h \in Hash : (\E j \in live : shard[j] = h) \/ h \in op.dead
                          <=> (\E j \in live' : shard[j] = h) \/ h \in op'.dead
    BY <1>1, <1>2
  <1>4. \A h \in Hash : ~Held(h) /\ ~Held(h)'
    BY <1>2 DEF Held
  <1>5. \A h \in Hash : file'[h] # "absent" <=> (\E j \in live' : shard'[j] = h) \/ h \in op'.dead
    BY <1>1, <1>3, <1>4 DEF Tidy
  <1>6. op'.key \in Shards' /\ \A j \in Key : j # op'.key => seq'[j] < seq'[op'.key]
    BY <1>1, <1>2 DEF Tidy
  <1> QED
    BY <1>2, <1>4, <1>5, <1>6 DEF Tidy

LEMMA TidyRemove ==
  ASSUME DatasetInv, Tidy, Collect \/ \E h \in Hash : Remove(h)
  PROVE  Tidy'
  <1>1. UNCHANGED <<cov, shard, seq, live>> /\ op'.key = op.key /\ op'.at = "remove"
    BY DEF Collect, Remove, At, DatasetInv, DatasetTypeOK
  <1>2. op.at \in {"supersede", "remove"} /\ \A k \in Key : ~Superseded(k)
    BY DEF Collect, Remove, At, Tidy
  <1>3. \A h \in Hash : ~Held(h) /\ ~Held(h)'
    BY <1>1, <1>2 DEF Held
  <1>4. \A h \in Hash : file'[h] # "absent" <=> (\E k \in live : shard[k] = h) \/ h \in op'.dead
    <2>1. CASE Collect
      <3>1. file' = file /\ op'.dead = op.dead \ {shard[k] : k \in live}
        BY <2>1 DEF Collect, DatasetInv, DatasetTypeOK
      <3> QED
        BY <1>3, <3>1 DEF Tidy
    <2>2. ASSUME NEW g \in Hash, Remove(g)
          PROVE  \A h \in Hash : file'[h] # "absent" <=>
                                   (\E k \in live : shard[k] = h) \/ h \in op'.dead
      <3>1. /\ file' = [file EXCEPT ![g] = "absent"] /\ op'.dead = op.dead \ {g}
            /\ \A k \in live : shard[k] # g
        BY <2>2 DEF Remove, At, DatasetInv, DatasetTypeOK, DeadUnused
      <3>2. \A h \in Hash : file'[h] # "absent" <=> h # g /\ file[h] # "absent"
        BY <3>1 DEF DatasetInv, DatasetTypeOK
      <3> QED
        BY <1>3, <3>1, <3>2 DEF Tidy
    <2> QED
      BY <2>1, <2>2
  <1>5. Shards' = Shards /\ \A k : Superseded(k)' = Superseded(k)
    BY <1>1, SameSuperseded
  <1>6. op'.key \in Shards' /\ \A k \in Key : k # op'.key => seq'[k] < seq'[op'.key]
    BY <1>1, <1>2, <1>5 DEF Tidy
  <1> QED
    BY <1>1, <1>2, <1>3, <1>4, <1>5, <1>6 DEF Tidy

LEMMA TidyEnd == ASSUME Tidy, EndPut \/ UNCHANGED dataset PROVE Tidy'
  <1>1. CASE EndPut
    BY <1>1 DEF EndPut, Tidy, Idle, Held, At
  <1>2. CASE UNCHANGED dataset
    <2>1. UNCHANGED <<cov, shard, seq, live, file, op>>
      BY <1>2 DEF dataset
    <2> QED
      BY <2>1, SameSuperseded DEF Tidy, Held, At
  <1> QED
    BY <1>1, <1>2

-----------------------------------------------------------------------------
(* A run without faults.  The batches that were ever made, what the router *)
(* shards hold and what is unread have no row in common; so every arrival  *)
(* is new, and each batch is saved, edited and saved again by one task at  *)
(* a time.  Its first shard is live only while the second is to come.      *)

Known == {Content(e.key) : e \in tasks} \cup {Content(k) : k \in {j \in Key : stat[j] # "none"}}

Parted ==
  /\ \A X, Y \in Known : X = Y \/ X \cap Y = {}
  /\ \A X \in Known : X \cap unread = {} /\ \A s \in RouterShard : X \cap held[s] = {}
  /\ \A s \in RouterShard : held[s] \cap unread = {}
  /\ \A s, t \in RouterShard : s # t => held[s] \cap held[t] = {}

OneTask  == \A e, f \in tasks : e.key = f.key => e = f
NewWork  == \A e \in tasks : e.at = "queued" => stat[e.key] = "none"
Second(e) == <<2, Content(e.key)>>
EditsOnce ==
  /\ \A e \in tasks : e.at \in {"work", "consume"} => Type(e.key) = 1
  /\ \A e \in tasks : Type(e.key) = 1 /\ e.at # "consume" =>
       stat[Second(e)] = "none" /\ \A f \in tasks : f.key # Second(e)
OpTask   ==
  /\ \A e \in tasks : e.at = "putting" => ~At("idle") /\ e.key = op.key
  /\ ~At("idle") => \E e \in tasks : e.at = "putting" /\ e.key = op.key
Replaced ==
  \A k \in live : Type(k) = 1 =>
    \E e \in tasks : Content(e.key) = Content(k) /\ e.at # "consume"
Lines    == OneTask /\ NewWork /\ EditsOnce /\ OpTask /\ Replaced

Calm == /\ phase # "down" /\ ~failed
        /\ phase = "over" => tasks = {} /\ (extent \/ \A k \in Key : stat[k] = "none")

Fresh    == Tidy /\ Parted /\ Lines /\ Calm
FreshInv == KeptInv /\ (faults = 0 => Fresh)

LEMMA KeyPairs ==
  /\ \A k \in Key : Type(k) \in {1, 2} /\ Content(k) # {} /\ Content(k) \subseteq Row
                    /\ <<1, Content(k)>> \in Key /\ <<2, Content(k)>> \in Key
  /\ \A j, k \in Key : Type(j) = Type(k) /\ Content(j) = Content(k) => j = k
  /\ \A C : Content(<<1, C>>) = C /\ Type(<<1, C>>) = 1
            /\ Content(<<2, C>>) = C /\ Type(<<2, C>>) = 2
  <1>1. \A k \in Key : k = <<k[1], k[2]>>
    BY PipelineAssumption DEF PipelineAssumption
  <1> QED
    BY <1>1, KeyParts DEF Type, Content

LEMMA MovedTo ==
  ASSUME TypeOK, NEW e \in tasks, NEW s, MoveTo(e, s)
  PROVE  \E m : /\ m.key = e.key /\ m.cov = e.cov /\ m.at = s
                /\ tasks' = (tasks \ {e}) \cup {m}
  <1>1. e \in Envelopes
    BY EnvelopeParts
  <1> DEFINE m == [e EXCEPT !.at = s]
  <1>2. m.key = e.key /\ m.cov = e.cov /\ m.at = s
    BY <1>1 DEF Envelopes
  <1>3. tasks' = (tasks \ {e}) \cup {m}
    BY DEF MoveTo
  <1> HIDE DEF m
  <1> QED
    BY <1>2, <1>3

(* Every batch of the next state is one of this.                           *)
LEMMA SameParted ==
  ASSUME Parted, UNCHANGED <<unread, held>>,
         \A f \in tasks' : \E e \in tasks : Content(f.key) = Content(e.key),
         \A k \in Key : stat'[k] # "none" =>
            stat[k] # "none" \/ \E e \in tasks : Content(k) = Content(e.key)
  PROVE  Parted'
  <1>1. \A X \in Known' : X \in Known
    <2>1. \A f \in tasks' : Content(f.key) \in Known
      BY DEF Known
    <2>2. \A k \in Key : stat'[k] # "none" => Content(k) \in Known
      BY DEF Known
    <2> QED
      BY <2>1, <2>2 DEF Known, Content
  <1> QED
    BY <1>1 DEF Parted

(* One task moves on; new rows of the table are its own.                   *)
LEMMA MoveLines ==
  ASSUME TypeOK, OneTask, EditsOnce, NEW e \in tasks, NEW m,
         m.key = e.key, tasks' = (tasks \ {e}) \cup {m},
         m.at \in {"work", "consume"} => Type(e.key) = 1,
         m.at # "consume" => e.at # "consume",
         \A k \in Key : stat[k] = "none" => stat'[k] = "none" \/ k = e.key
  PROVE  OneTask' /\ EditsOnce'
  <1>1. \A f \in tasks' : \E g \in tasks :
          f.key = g.key /\ (f.at # "consume" => g.at # "consume")
    OBVIOUS
  <1>2. OneTask'
    BY DEF OneTask
  <1>3. \A f \in tasks' : f.at \in {"work", "consume"} => Type(f.key) = 1
    BY DEF EditsOnce
  <1>4. ASSUME NEW f \in tasks', Type(f.key) = 1, f.at # "consume"
        PROVE  stat'[Second(f)] = "none" /\ \A h \in tasks' : h.key # Second(f)
    <2>1. PICK g \in tasks : f.key = g.key /\ g.at # "consume"
      BY <1>1, <1>4
    <2>2. stat[Second(f)] = "none" /\ \A h \in tasks : h.key # Second(f)
      BY <1>4, <2>1 DEF EditsOnce, Second
    <2>3. Second(f) \in Key
      BY <2>1, EnvelopeParts, KeyPairs DEF Second
    <2> QED
      BY <1>1, <2>2, <2>3
  <1> QED
    BY <1>2, <1>3, <1>4 DEF EditsOnce, Type, Second, Content

(* One task ends.                                                          *)
LEMMA DropLines ==
  ASSUME OneTask, EditsOnce, NEW e \in tasks, tasks' = tasks \ {e},
         \A k \in Key : stat[k] = "none" => stat'[k] = "none", TypeOK
  PROVE  OneTask' /\ EditsOnce'
  <1>1. \A f \in tasks : Second(f) \in Key
    BY EnvelopeParts, KeyPairs DEF Second
  <1> QED
    BY <1>1 DEF OneTask, EditsOnce, Type, Second, Content

(* What a lossless run knows of coverage.                                  *)
LEMMA ExactCoverage ==
  ASSUME Filtered = {}, KeptInv
  PROVE  /\ \A e \in tasks : e.cov = Content(e.key)
         /\ \A k \in Key : stat[k] # "none" => cov[k] = Content(k)
         /\ \A k \in Shards : k \in Key /\ stat[k] # "none"
         /\ live \subseteq Shards
  <1>1. /\ \A k \in Shards : k \in Key /\ stat[k] # "none"
        /\ live \subseteq Shards
    BY DEF KeptInv, PipelineInv, DatasetInv, RowsExist, LivePresent, Shards
  <1> QED
    BY <1>1 DEF KeptInv, Exact, CovExact

LEMMA AdmitFresh ==
  ASSUME Filtered = {}, KeptInv, Fresh, NEW e \in tasks, Admit(e)
  PROVE  Parted' /\ Lines'
  <1>0. TypeOK /\ DatasetInv /\ e.key \in Key /\ e.cov \in SUBSET Row
    BY EnvelopeParts DEF KeptInv, PipelineInv
  <1>1. e.at = "queued" /\ stat[e.key] = "none"
    BY DEF Admit, Fresh, Lines, NewWork
  <1>2. CommitRow(e.key, e.cov) /\ MoveTo(e, "put") /\ UNCHANGED <<held, unread>>
    BY <1>1 DEF Admit, router, run
  <1>3. PICK m : m.key = e.key /\ m.at = "put" /\ tasks' = (tasks \ {e}) \cup {m}
    BY <1>0, <1>2, MovedTo
  <1>4. /\ \A k \in Key : stat'[k] = IF k = e.key THEN "stored" ELSE stat[k]
        /\ live' \subseteq live /\ op' = op /\ op.at = "idle"
    BY <1>0, <1>2 DEF CommitRow, At, DatasetInv, DatasetTypeOK
  <1>5. Parted'
    BY <1>1, <1>2, <1>3, <1>4, SameParted DEF Fresh
  <1>6. OneTask' /\ EditsOnce'
    BY <1>0, <1>1, <1>3, <1>4, MoveLines DEF Fresh, Lines
  <1>7. NewWork'
    <2> SUFFICES ASSUME NEW f \in tasks', f.at = "queued" PROVE stat'[f.key] = "none"
      BY DEF NewWork
    <2>1. f \in tasks /\ f # e /\ f.key \in Key
      BY <1>0, <1>3, EnvelopeParts
    <2>2. f.key # e.key
      BY <2>1 DEF Fresh, Lines, OneTask
    <2> QED
      BY <1>4, <2>1, <2>2 DEF Fresh, Lines, NewWork
  <1>8. OpTask'
    BY <1>3, <1>4 DEF Fresh, Lines, OpTask, At
  <1>9. Replaced'
    BY <1>1, <1>3, <1>4 DEF Fresh, Lines, Replaced, Content, Type
  <1> QED
    BY <1>5, <1>6, <1>7, <1>8, <1>9 DEF Lines

LEMMA StartPutFresh ==
  ASSUME Filtered = {}, KeptInv, Fresh, NEW e \in tasks, StartPut(e)
  PROVE  Parted' /\ Lines'
  <1>0. TypeOK /\ DatasetInv /\ e.key \in Key
    BY EnvelopeParts DEF KeptInv, PipelineInv
  <1>1. e.at = "put" /\ stat[e.key] # "none"
    BY DEF StartPut, KeptInv, Exact, Staged
  <1>2. /\ MoveTo(e, "putting") /\ UNCHANGED <<held, unread, stat, live>>
        /\ At("idle") /\ op' = [key |-> e.key, at |-> "check", dead |-> {}]
    BY <1>1 DEF StartPut, BeginPut, router, run
  <1>3. PICK m : m.key = e.key /\ m.at = "putting" /\ tasks' = (tasks \ {e}) \cup {m}
    BY <1>0, <1>2, MovedTo
  <1>4. Parted'
    BY <1>2, <1>3, SameParted DEF Fresh
  <1>5. OneTask' /\ EditsOnce'
    BY <1>0, <1>1, <1>2, <1>3, MoveLines DEF Fresh, Lines
  <1>6. NewWork'
    BY <1>2, <1>3 DEF Fresh, Lines, NewWork
  <1>7. OpTask'
    BY <1>2, <1>3 DEF Fresh, Lines, OpTask, At
  <1>8. Replaced'
    BY <1>1, <1>2, <1>3 DEF Fresh, Lines, Replaced, Content, Type
  <1> QED
    BY <1>4, <1>5, <1>6, <1>7, <1>8 DEF Lines

(* The put of the second shard ends: the first is not live any more.       *)
LEMMA FirstGone ==
  ASSUME Filtered = {}, KeptInv, Fresh, NEW e \in tasks, e.at = "putting", At("remove"),
         Type(e.key) = 2, NEW k \in live, Type(k) = 1
  PROVE  Content(k) # Content(e.key)
  <1> SUFFICES ASSUME Content(k) = Content(e.key) PROVE FALSE
    OBVIOUS
  <1>1. e.key = op.key /\ op.key \in Shards /\ op.key \in Key /\ k \in Key /\ k \in Shards
    BY ExactCoverage DEF Fresh, Lines, OpTask, Tidy, At
  <1>2. cov[k] = Content(k) /\ cov[op.key] = Content(op.key) /\ Content(k) # {}
    BY <1>1, ExactCoverage, KeyPairs
  <1>3. seq[k] < seq[op.key]
    BY <1>1 DEF Fresh, Tidy, At
  <1>4. op.key \in {x \in Shards : seq[x] > seq[k]}
    <2>1. seq[k] \in Nat /\ seq[op.key] \in Nat
      BY <1>1 DEF KeptInv, PipelineInv, DatasetInv, DatasetTypeOK
    <2> QED
      BY <1>1, <1>3, <2>1
  <1>5. cov[k] \subseteq Newer(k)
    BY <1>1, <1>2, <1>4 DEF Newer
  <1>6. Superseded(k)
    BY <1>2, <1>5 DEF Superseded
  <1> QED
    BY <1>1, <1>6 DEF Fresh, Tidy

LEMMA FinishPutFresh ==
  ASSUME Filtered = {}, KeptInv, Fresh, NEW e \in tasks, FinishPut(e)
  PROVE  Parted' /\ Lines'
  <1>0. TypeOK /\ DatasetInv /\ e.key \in Key
    BY EnvelopeParts DEF KeptInv, PipelineInv
  <1>1. /\ e.at = "putting" /\ At("remove") /\ UNCHANGED <<held, unread, stat, live>>
        /\ op'.at = "idle"
    BY DEF FinishPut, EndPut, router, run, Idle
  <1>2. \A f \in tasks : f.at = "putting" => f = e
    BY <1>1 DEF Fresh, Lines, OpTask, OneTask
  <1>3. CASE Type(e.key) = 1
    <2>1. PICK m : m.key = e.key /\ m.at = "work" /\ tasks' = (tasks \ {e}) \cup {m}
      BY <1>0, <1>3, MovedTo DEF FinishPut
    <2>2. Parted'
      BY <1>1, <2>1, SameParted DEF Fresh
    <2>3. OneTask' /\ EditsOnce'
      BY <1>0, <1>1, <1>3, <2>1, MoveLines DEF Fresh, Lines
    <2>4. NewWork' /\ OpTask'
      BY <1>1, <1>2, <2>1 DEF Fresh, Lines, NewWork, OpTask, At
    <2>5. Replaced'
      BY <1>1, <2>1 DEF Fresh, Lines, Replaced, Content, Type
    <2> QED
      BY <2>2, <2>3, <2>4, <2>5 DEF Lines
  <1>4. CASE Type(e.key) # 1
    <2>1. tasks' = tasks \ {e} /\ Type(e.key) = 2
      BY <1>0, <1>4, KeyPairs DEF FinishPut
    <2>2. Parted'
      BY <1>1, <2>1, SameParted DEF Fresh
    <2>3. OneTask' /\ EditsOnce'
      BY <1>0, <1>1, <2>1, DropLines DEF Fresh, Lines
    <2>4. NewWork' /\ OpTask'
      BY <1>1, <1>2, <2>1 DEF Fresh, Lines, NewWork, OpTask, At
    <2>5. ASSUME NEW k \in live, Type(k) = 1
          PROVE  \E f \in tasks' : Content(f.key) = Content(k) /\ f.at # "consume"
      <3>1. PICK f \in tasks : Content(f.key) = Content(k) /\ f.at # "consume"
        BY <2>5 DEF Fresh, Lines, Replaced
      <3>2. f # e
        BY <1>1, <2>1, <2>5, <3>1, FirstGone
      <3> QED
        BY <2>1, <3>1, <3>2
    <2>6. Replaced'
      BY <1>1, <2>5 DEF Replaced, Content, Type
    <2> QED
      BY <2>2, <2>3, <2>4, <2>6 DEF Lines
  <1> QED
    BY <1>3, <1>4

LEMMA EditFresh ==
  ASSUME Filtered = {}, KeptInv, Fresh, NEW e \in tasks, Edit(e)
  PROVE  Parted' /\ Lines'
  <1>0. TypeOK /\ DatasetInv /\ e.key \in Key /\ e \in Envelopes
    BY EnvelopeParts DEF KeptInv, PipelineInv
  <1> DEFINE g == Envelope(Second(e), e.cov, "queued")
             m == [e EXCEPT !.at = "consume"]
  <1>1. /\ e.at = "work" /\ UNCHANGED <<held, unread, stat, live, op>>
        /\ tasks' = (tasks \ {e}) \cup {m, g}
    BY DEF Edit, router, run, dataset, Second
  <1>2. /\ g.key = Second(e) /\ g.at = "queued" /\ m.key = e.key /\ m.at = "consume"
        /\ Content(g.key) = Content(e.key) /\ Type(g.key) = 2
    BY <1>0, KeyPairs DEF Envelope, Envelopes, Second
  <1>3. Type(e.key) = 1 /\ stat[Second(e)] = "none" /\ \A f \in tasks : f.key # Second(e)
    BY <1>1 DEF Fresh, Lines, EditsOnce
  <1> HIDE DEF g, m
  <1>4. Parted'
    BY <1>1, <1>2, SameParted DEF Fresh
  <1>5. OneTask'
    BY <1>1, <1>2, <1>3 DEF Fresh, Lines, OneTask
  <1>6. NewWork'
    BY <1>1, <1>2, <1>3 DEF Fresh, Lines, NewWork
  <1>7. EditsOnce'
    <2>1. \A f \in tasks' : f.at \in {"work", "consume"} => Type(f.key) = 1
      BY <1>1, <1>2, <1>3 DEF Fresh, Lines, EditsOnce
    <2>2. ASSUME NEW f \in tasks', Type(f.key) = 1, f.at # "consume"
          PROVE  stat'[Second(f)] = "none" /\ \A h \in tasks' : h.key # Second(f)
      <3>1. f \in tasks /\ f # e
        BY <1>1, <1>2, <2>2
      <3>2. stat[Second(f)] = "none" /\ \A h \in tasks : h.key # Second(f)
        BY <2>2, <3>1 DEF Fresh, Lines, EditsOnce
      <3>3. g.key # Second(f)
        <4>1. SUFFICES ASSUME Second(e) = Second(f) PROVE FALSE
          BY <1>2
        <4>2. Content(e.key) = Content(f.key)
          BY <4>1, KeyPairs DEF Second
        <4>3. e.key = f.key
          BY <1>0, <1>3, <2>2, <3>1, <4>2, EnvelopeParts, KeyPairs
        <4> QED
          BY <3>1, <4>3 DEF Fresh, Lines, OneTask
      <3>4. m.key # Second(f)
        BY <1>2, <3>2
      <3> QED
        BY <1>1, <3>2, <3>3, <3>4
    <2> QED
      BY <2>1, <2>2 DEF EditsOnce, Type, Second, Content
  <1>8. OpTask'
    BY <1>1, <1>2 DEF Fresh, Lines, OpTask, At
  <1>9. Replaced'
    BY <1>1, <1>2 DEF Fresh, Lines, Replaced, Content, Type
  <1> QED
    BY <1>4, <1>5, <1>6, <1>7, <1>8, <1>9 DEF Lines

LEMMA ConsumeFresh ==
  ASSUME Filtered = {}, KeptInv, Fresh, NEW e \in tasks, Consume(e)
  PROVE  Parted' /\ Lines'
  <1>0. TypeOK /\ DatasetInv /\ e.key \in Key
    BY EnvelopeParts DEF KeptInv, PipelineInv
  <1>1. /\ e.at = "consume" /\ UNCHANGED <<held, unread, live, op>> /\ tasks' = tasks \ {e}
        /\ \A k \in Key : stat'[k] # "none" <=> stat[k] # "none"
    BY <1>0 DEF Consume, ConsumeRow, router, run, DatasetInv, DatasetTypeOK
  <1>2. Parted'
    BY <1>1, SameParted DEF Fresh
  <1>3. OneTask' /\ EditsOnce'
    BY <1>0, <1>1, DropLines DEF Fresh, Lines
  <1>4. NewWork'
    BY <1>0, <1>1, EnvelopeParts DEF Fresh, Lines, NewWork
  <1>5. OpTask' /\ Replaced'
    BY <1>1 DEF Fresh, Lines, OpTask, Replaced, At, Content, Type
  <1> QED
    BY <1>2, <1>3, <1>4, <1>5 DEF Lines

LEMMA PuttingFresh ==
  ASSUME KeptInv, Fresh, Putting
  PROVE  Parted' /\ Lines'
  <1>0. DatasetTypeOK
    BY DEF KeptInv, PipelineInv, DatasetInv
  <1>1. /\ UNCHANGED <<held, unread, tasks, stat>> /\ ~At("idle")
        /\ op'.at # "idle" /\ op'.key = op.key
    <2>1. UNCHANGED <<held, unread, tasks>>
      BY DEF Putting, router, run
    <2>2. UNCHANGED stat /\ ~At("idle") /\ op'.at # "idle" /\ op'.key = op.key
      BY <1>0 DEF Putting, PutStep, Check, Fill, Point, Collect, Drop, Remove, At, GoOn,
                  DatasetTypeOK
    <2> QED
      BY <2>1, <2>2
  <1>2. live' \subseteq live \cup {op.key}
    BY DEF Putting, PutStep, Check, Fill, Point, Collect, Drop, Remove
  <1>3. Parted'
    BY <1>1, SameParted DEF Fresh
  <1>4. OneTask' /\ NewWork' /\ EditsOnce' /\ OpTask'
    BY <1>1 DEF Fresh, Lines, OneTask, NewWork, EditsOnce, OpTask, Type, Content, Second, At
  <1>5. \E e \in tasks : Content(e.key) = Content(op.key) /\ e.at # "consume"
    BY <1>1 DEF Fresh, Lines, OpTask
  <1>6. Replaced'
    BY <1>1, <1>2, <1>5 DEF Fresh, Lines, Replaced, Content, Type
  <1> QED
    BY <1>3, <1>4, <1>6 DEF Lines

(* Arrivals whose batches have no row in common with any batch before.     *)
LEMMA ArriveLines ==
  ASSUME TypeOK, Lines, NEW A, tasks' = tasks \cup A, UNCHANGED <<stat, live, op>>,
         \A f \in A : /\ f.at = "queued" /\ f.key \in Key /\ Type(f.key) = 1
                      /\ Content(f.key) \notin Known,
         \A f, g \in A : f.key = g.key => f = g
  PROVE  Lines'
  <1>1. \A f \in A : stat[f.key] = "none" /\ stat[Second(f)] = "none"
    <2> SUFFICES ASSUME NEW f \in A PROVE stat[f.key] = "none" /\ stat[Second(f)] = "none"
      OBVIOUS
    <2>1. Second(f) \in Key /\ Content(Second(f)) = Content(f.key)
      BY KeyPairs DEF Second
    <2>2. \A k \in Key : stat[k] # "none" => Content(k) \in Known
      BY DEF Known
    <2> QED
      BY <2>1, <2>2
  <1>2. \A f \in A, e \in tasks : Content(f.key) # Content(e.key)
    BY DEF Known
  <1>3. \A f, e \in tasks \cup A : Second(f) = e.key => Content(f.key) = Content(e.key)
    BY KeyPairs DEF Second
  <1>4. \A f, e \in A : e.key # Second(f)
    <2>1. \A f \in A : Type(Second(f)) = 2
      BY KeyPairs DEF Second
    <2> QED
      BY <2>1
  <1>5. OneTask'
    BY <1>2 DEF Lines, OneTask
  <1>6. NewWork'
    BY <1>1 DEF Lines, NewWork
  <1>7. EditsOnce'
    <2>1. \A f \in tasks' : f.at \in {"work", "consume"} => Type(f.key) = 1
      BY DEF Lines, EditsOnce
    <2>2. ASSUME NEW f \in tasks', Type(f.key) = 1, f.at # "consume"
          PROVE  stat'[Second(f)] = "none" /\ \A h \in tasks' : h.key # Second(f)
      <3>1. CASE f \in A
        BY <1>1, <1>2, <1>3, <1>4, <3>1
      <3>2. CASE f \in tasks
        <4>1. stat[Second(f)] = "none" /\ \A h \in tasks : h.key # Second(f)
          BY <2>2, <3>2 DEF Lines, EditsOnce
        <4> QED
          BY <1>2, <1>3, <3>2, <4>1
      <3> QED
        BY <3>1, <3>2
    <2> QED
      BY <2>1, <2>2 DEF EditsOnce, Type, Second, Content
  <1>8. OpTask'
    BY DEF Lines, OpTask, At
  <1>9. Replaced'
    BY DEF Lines, Replaced, Content, Type
  <1> QED
    BY <1>5, <1>6, <1>7, <1>8, <1>9 DEF Lines

LEMMA KnownAfter ==
  ASSUME NEW A, tasks' = tasks \cup A, UNCHANGED stat
  PROVE  Known' = Known \cup {Content(f.key) : f \in A}
  BY DEF Known, Content

LEMMA FoldFresh ==
  ASSUME SameGroup, Filtered = {}, KeptInv, Fresh,
         NEW q \in Row, NEW s \in RouterShard, Fold(q, s)
  PROVE  Parted' /\ Lines'
  <1>0. TypeOK /\ DatasetInv
    BY DEF KeptInv, PipelineInv
  <1> DEFINE A == Arrive(Routed(s, q))
             G == Grown(s, q)
  <1>1. /\ q \in unread /\ unread' = unread \ {q} /\ tasks' = tasks \cup A
        /\ UNCHANGED <<stat, live, op>>
    BY DEF Fold, dataset
  <1>2. \A t \in RouterShard : held'[t] = IF t = s THEN G \ UNION Full(s, q) ELSE held[t]
    BY TypeParts, <1>0 DEF Fold, Route
  <1>3. G = held[s] \cup {q}
    BY DEF Grown
  <1>4. \A f \in A : f.at = "queued" /\ f.key = <<1, G>> /\ f.cov = pending[s] \cup {q}
                     /\ Full(s, q) = {G}
    <2> SUFFICES ASSUME NEW f \in A
                 PROVE  f.at = "queued" /\ f.key = <<1, G>> /\ f.cov = pending[s] \cup {q}
                        /\ Full(s, q) = {G}
      OBVIOUS
    <2>1. PICK b \in Routed(s, q) : f = Envelope(<<1, b.content>>, b.cov, "queued")
      BY DEF Arrive
    <2>2. b.content \in Full(s, q) /\ b.cov = pending[s] \cup {q}
      BY <2>1 DEF Routed
    <2> QED
      BY <1>0, <2>1, <2>2, FullIsAll DEF Envelope
  <1>5. A \subseteq Envelopes
    BY <1>0, RoutedType, ArriveType
  <1>6. \A f \in A : f.key \in Key /\ Content(f.key) = G /\ Type(f.key) = 1
    BY <1>4, <1>5, KeyPairs DEF Envelopes
  <1>7. \A f, g \in A : f = g
    <2>1. \A f, g \in A : f.key = g.key /\ f.cov = g.cov /\ f.at = g.at
      BY <1>4
    <2> QED
      BY <1>5, <2>1 DEF Envelopes
  <1>8. \A X \in Known : X \cap G = {}
    BY <1>1, <1>3 DEF Fresh, Parted
  <1>9. G \notin Known
    BY <1>3, <1>8
  <1>10. Lines'
    <2> HIDE DEF A, G
    <2> QED
      BY <1>0, <1>1, <1>4, <1>6, <1>7, <1>9, ArriveLines DEF Fresh
  <1>11. Known' = Known \cup {Content(f.key) : f \in A}
    BY <1>1, KnownAfter
  <1>12. \A X \in Known' : X \in Known \/ (X = G /\ Full(s, q) = {G})
    BY <1>4, <1>6, <1>11
  <1>13. held'[s] \subseteq G /\ (Full(s, q) = {G} => held'[s] = {})
    BY <1>2
  <1>14. /\ G \cap unread' = {}
         /\ \A t \in RouterShard : t # s => G \cap held[t] = {}
    BY <1>1, <1>3 DEF Fresh, Parted
  <1> HIDE DEF A, G
  <1>15. \A X, Y \in Known' : X = Y \/ X \cap Y = {}
    BY <1>8, <1>12 DEF Fresh, Parted
  <1>16. ASSUME NEW X \in Known'
         PROVE  X \cap unread' = {} /\ \A t \in RouterShard : X \cap held'[t] = {}
    <2>1. CASE X \in Known
      BY <1>1, <1>2, <1>8, <1>13, <2>1 DEF Fresh, Parted
    <2>2. CASE X = G /\ Full(s, q) = {G}
      BY <1>2, <1>13, <1>14, <2>2
    <2> QED
      BY <1>12, <2>1, <2>2
  <1>17. \A t \in RouterShard : held'[t] \cap unread' = {}
    BY <1>1, <1>2, <1>13, <1>14 DEF Fresh, Parted
  <1>18. \A t, u \in RouterShard : t # u => held'[t] \cap held'[u] = {}
    BY <1>2, <1>13, <1>14 DEF Fresh, Parted
  <1>19. Parted'
    BY <1>15, <1>16, <1>17, <1>18 DEF Parted
  <1> QED
    BY <1>10, <1>19

LEMMA FlushFresh ==
  ASSUME SameGroup, Filtered = {}, KeptInv, Fresh, Flush
  PROVE  Parted' /\ Lines'
  <1>0. TypeOK /\ DatasetInv
    BY DEF KeptInv, PipelineInv
  <1> DEFINE A == Arrive(Flushed)
  <1>1. /\ UNCHANGED <<stat, live, op, unread>> /\ tasks = {} /\ tasks' = tasks \cup A
        /\ \A t \in RouterShard : held'[t] = {}
    BY DEF Flush, Quiet, run, dataset, FlushAll
  <1>2. A \subseteq Envelopes
    BY <1>0, FlushType, ArriveType
  <1>3. \A f \in A : \E t \in RouterShard :
          /\ held[t] # {} /\ f.key = <<1, held[t]>> /\ f.cov = pending[t] /\ f.at = "queued"
    <2> SUFFICES ASSUME NEW f \in A
                 PROVE  \E t \in RouterShard :
                          /\ held[t] # {} /\ f.key = <<1, held[t]>> /\ f.cov = pending[t]
                          /\ f.at = "queued"
      OBVIOUS
    <2>1. PICK b \in Flushed : f = Envelope(<<1, b.content>>, b.cov, "queued")
      BY DEF Arrive
    <2>2. PICK t \in RouterShard : b.content \in FlushOf(t) /\ b.cov = pending[t]
      BY <2>1 DEF Flushed
    <2>3. held[t] # {} /\ b.content = held[t]
      BY <1>0, <2>2, FlushIsAll
    <2> QED
      BY <2>1, <2>2, <2>3 DEF Envelope
  <1>4. \A f \in A : /\ f.key \in Key /\ Type(f.key) = 1 /\ f.at = "queued"
                     /\ \E t \in RouterShard : held[t] # {} /\ Content(f.key) = held[t]
    <2> SUFFICES ASSUME NEW f \in A
                 PROVE  /\ f.key \in Key /\ Type(f.key) = 1 /\ f.at = "queued"
                        /\ \E t \in RouterShard : held[t] # {} /\ Content(f.key) = held[t]
      OBVIOUS
    <2>1. PICK t \in RouterShard : held[t] # {} /\ f.key = <<1, held[t]>> /\ f.at = "queued"
      BY <1>3
    <2>2. Content(f.key) = held[t] /\ Type(f.key) = 1
      BY <2>1, KeyPairs
    <2>3. f.key \in Key
      BY <1>2 DEF Envelopes
    <2> QED
      BY <2>1, <2>2, <2>3
  <1>5. \A f, g \in A : f.key = g.key => f = g
    <2>1. \A f, g \in A : f.key = g.key => f.cov = g.cov /\ f.at = g.at
      <3> SUFFICES ASSUME NEW f \in A, NEW g \in A, f.key = g.key
                   PROVE  f.cov = g.cov /\ f.at = g.at
        OBVIOUS
      <3>1. PICK t \in RouterShard : /\ held[t] # {} /\ f.key = <<1, held[t]>>
                                     /\ f.cov = pending[t] /\ f.at = "queued"
        BY <1>3
      <3>2. PICK u \in RouterShard : /\ held[u] # {} /\ g.key = <<1, held[u]>>
                                     /\ g.cov = pending[u] /\ g.at = "queued"
        BY <1>3
      <3>3. held[t] = held[u]
        <4>1. Content(f.key) = held[t] /\ Content(g.key) = held[u]
          BY <3>1, <3>2, KeyPairs
        <4> QED
          BY <4>1
      <3>4. t = u
        BY <3>1, <3>3 DEF Fresh, Parted
      <3> QED
        BY <3>1, <3>2, <3>4
    <2> QED
      BY <1>2, <2>1 DEF Envelopes
  <1>6. \A f \in A : Content(f.key) \notin Known
    BY <1>4 DEF Fresh, Parted
  <1>7. Known' = Known \cup {Content(f.key) : f \in A}
    BY <1>1, KnownAfter
  <1>8. \A X \in Known' : X \in Known \/ \E t \in RouterShard : X = held[t]
    BY <1>4, <1>7
  <1> HIDE DEF A
  <1>9. Lines'
    BY <1>0, <1>1, <1>4, <1>5, <1>6, ArriveLines DEF Fresh
  <1>10. \A X, Y \in Known' : X = Y \/ X \cap Y = {}
    BY <1>8 DEF Fresh, Parted
  <1>11. \A X \in Known' : X \cap unread' = {} /\ \A t \in RouterShard : X \cap held'[t] = {}
    BY <1>1, <1>8 DEF Fresh, Parted
  <1>12. Parted'
    BY <1>1, <1>10, <1>11 DEF Parted
  <1> QED
    BY <1>9, <1>12

(* The first run starts with nothing; a later one has nothing to do.       *)
LEMMA StartFresh ==
  ASSUME Filtered = {}, KeptInv, Fresh, StartRun
  PROVE  Parted' /\ Lines'
  <1>0. TypeOK /\ DatasetInv /\ phase = "over"
    BY TypeParts DEF KeptInv, PipelineInv, Fresh, Calm, StartRun
  <1>1. /\ tasks = {} /\ (extent \/ \A k \in Key : stat[k] = "none")
        /\ UNCHANGED <<stat, live, op>> /\ At("idle")
        /\ \A t \in RouterShard : held'[t] = {}
    BY <1>0 DEF Fresh, Calm, Lines, OpTask, StartRun, dataset
  <1>2. \A k \in live : Type(k) # 1
    BY <1>1 DEF Fresh, Lines, Replaced
  <1>3. tasks' = {}
    BY <1>2 DEF StartRun, StoredItems
  <1>4. unread' = {} \/ \A k \in Key : stat[k] = "none"
    <2>1. CASE extent
      <3>1. \A r \in Row : Recorded(r)
        BY <1>0, <2>1 DEF KeptInv, Housed
      <3>2. ASSUME NEW r \in Row PROVE r \in Covered
        <4>1. PICK k \in Key : stat[k] # "none" /\ r \in Content(k)
          BY <3>1 DEF Recorded
        <4>2. cov[k] = Content(k)
          BY <4>1, ExactCoverage
        <4> QED
          BY <4>1, <4>2 DEF Covered
      <3> QED
        BY <2>1, <3>2 DEF StartRun
    <2> QED
      BY <1>1, <2>1
  <1>5. Known' = {Content(k) : k \in {j \in Key : stat[j] # "none"}} /\ Known' \subseteq Known
    BY <1>1, <1>3 DEF Known, Content
  <1>6. Parted'
    BY <1>1, <1>4, <1>5 DEF Fresh, Parted
  <1>7. Lines'
    BY <1>1, <1>2, <1>3
       DEF Lines, OneTask, NewWork, EditsOnce, OpTask, Replaced, At, Content, Type
  <1> QED
    BY <1>6, <1>7

LEMMA NextTidy ==
  ASSUME KeptInv, Tidy, [Next]_vars, ~Crash, \A e \in tasks : ~FailPut(e)
  PROVE  Tidy'
  <1>0. TypeOK /\ DatasetInv
    BY DEF KeptInv, PipelineInv
  <1>1. CASE UNCHANGED vars \/ StartRun \/ Flush \/ EndRun \/ \E r \in Row, s \in RouterShard : Fold(r, s)
    <2>1. UNCHANGED dataset
      BY <1>1 DEF vars, StartRun, Flush, EndRun, Fold
    <2> QED
      BY <2>1, TidyEnd
  <1>2. CASE Putting
    BY <1>0, <1>2, TidyFill, TidyPoint, TidyDrop, TidyRemove DEF Putting, PutStep
  <1>3. ASSUME NEW e \in tasks,
               Admit(e) \/ StartPut(e) \/ FinishPut(e) \/ Edit(e) \/ Consume(e)
        PROVE  Tidy'
    <2>0. e.key \in Key /\ e.cov \in SUBSET Row
      BY <1>0, EnvelopeParts
    <2>1. \/ NewRow(e.key, e.cov) \/ BeginPut(e.key, e.cov) \/ ConsumeRow(e.key)
          \/ EndPut \/ UNCHANGED dataset
      BY <1>3 DEF Admit, StartPut, FinishPut, Edit, Consume, NewRow
    <2> QED
      BY <1>0, <2>0, <2>1, TidyRows, TidyEnd
  <1> QED
    BY <1>1, <1>2, <1>3 DEF Next

LEMMA NextFresh ==
  ASSUME SameGroup, Filtered = {}, KeptInv, Fresh, [Next]_vars,
         ~Crash, \A e \in tasks : ~FailPut(e)
  PROVE  Fresh'
  <1>1. Tidy'
    BY NextTidy DEF Fresh
  <1>2. Parted' /\ Lines'
    <2>1. CASE UNCHANGED vars \/ EndRun
      <3>1. UNCHANGED <<held, unread, tasks, stat, live, op>>
        BY <2>1 DEF vars, EndRun, router, run, dataset
      <3>2. Parted'
        BY <3>1, SameParted DEF Fresh
      <3>3. Lines'
        BY <3>1 DEF Fresh, Lines, OneTask, NewWork, EditsOnce, OpTask, Replaced, At, Content,
                    Type, Second
      <3> QED
        BY <3>2, <3>3
    <2> QED
      BY <2>1, AdmitFresh, StartPutFresh, FinishPutFresh, EditFresh, ConsumeFresh,
         PuttingFresh, FoldFresh, FlushFresh, StartFresh DEF Next
  <1>3. Calm'
    <2>1. CASE StartRun
      BY <2>1 DEF StartRun, Calm
    <2>2. CASE EndRun
      BY <2>2 DEF EndRun, Quiet, Calm, Fresh
    <2>3. CASE UNCHANGED vars
      <3>1. UNCHANGED <<phase, failed, tasks, extent, stat>>
        BY <2>3 DEF vars, run, dataset
      <3> QED
        BY <3>1 DEF Fresh, Calm
    <2>4. CASE Flush \/ \E r \in Row, s \in RouterShard : Fold(r, s)
      <3>1. phase = "up" /\ phase' = "up" /\ failed' = failed
        BY <2>4 DEF Flush, Quiet, Fold, run
      <3> QED
        BY <3>1 DEF Fresh, Calm
    <2>5. CASE Putting \/ \E e \in tasks :
                 Admit(e) \/ StartPut(e) \/ FinishPut(e) \/ Edit(e) \/ Consume(e)
      <3>1. tasks # {}
        <4>1. CASE Putting
          <5>1. ~At("idle")
            BY <4>1 DEF Putting, PutStep, Check, Fill, Point, Collect, Drop, Remove, At
          <5> QED
            BY <5>1 DEF Fresh, Lines, OpTask
        <4> QED
          BY <2>5, <4>1
      <3>2. UNCHANGED <<phase, failed>> /\ phase # "over"
        BY <2>5, <3>1 DEF Putting, Admit, StartPut, FinishPut, Edit, Consume, run, Fresh, Calm
      <3> QED
        BY <3>2 DEF Fresh, Calm
    <2> QED
      BY <2>1, <2>2, <2>3, <2>4, <2>5 DEF Next
  <1> QED
    BY <1>1, <1>2, <1>3 DEF Fresh

(* With one group of rows that are all kept, a pipeline that nothing       *)
(* disturbs leaves the final shards only: one per edited batch, no row in  *)
(* two of them, and no file of a batch it replaced; and running it again   *)
(* changes nothing (module doc of bask-io/src/dataset.rs).                 *)
THEOREM FinalShardsOnly == ASSUME SameGroup, Filtered = {} PROVE Spec => []FinalOnly
  <1>1. Init => FreshInv
    <2> SUFFICES ASSUME Init PROVE Fresh
      BY KeptStarts DEF FreshInv
    <2>1. /\ tasks = {} /\ unread = {} /\ \A k \in Key : stat[k] = "none"
          /\ \A s \in RouterShard : held[s] = {}
      BY DEF Init, DatasetInit, RouterInit
    <2>2. Tidy
      BY DEF Init, DatasetInit, Tidy, Idle, Held, At
    <2>3. Known = {}
      BY <2>1 DEF Known
    <2>4. Parted /\ Lines /\ Calm
      BY <2>1, <2>3 DEF Parted, Lines, OneTask, NewWork, EditsOnce, OpTask, Replaced, Calm,
                        Init, DatasetInit, Idle, At
    <2> QED
      BY <2>2, <2>4 DEF Fresh
  <1>2. FreshInv /\ [Next]_vars => FreshInv'
    <2> SUFFICES ASSUME FreshInv, [Next]_vars PROVE FreshInv'
      OBVIOUS
    <2>1. KeptInv'
      BY KeptKeeps DEF FreshInv
    <2>2. ASSUME faults' = 0 PROVE Fresh'
      <3>0. faults \in Nat
        BY PipelineAssumption DEF FreshInv, KeptInv, PipelineInv, TypeOK, PipelineAssumption
      <3>1. ~Crash /\ \A e \in tasks : ~FailPut(e)
        BY <2>2, <3>0 DEF Crash, FailPut, Fault
      <3>2. faults = 0
        BY <2>2, <3>1 DEF Next, StartRun, Flush, EndRun, Putting, Fold, Admit, StartPut,
                          FinishPut, Edit, Consume, vars, run
      <3> QED
        BY <3>1, <3>2, NextFresh DEF FreshInv
    <2> QED
      BY <2>1, <2>2 DEF FreshInv
  <1>3. FreshInv => FinalOnly
    <2> SUFFICES ASSUME FreshInv, phase = "over", faults = 0
                 PROVE  /\ \A k \in live : Type(k) = 2
                        /\ \A j, k \in live : j # k => Content(j) \cap Content(k) = {}
                        /\ {h \in Hash : file[h] # "absent"} = {shard[k] : k \in live}
      BY DEF FinalOnly
    <2>0. KeptInv /\ Fresh /\ tasks = {} /\ At("idle")
      BY DEF FreshInv, Fresh, Calm, Lines, OpTask
    <2>1. \A k \in live : k \in Key /\ stat[k] # "none" /\ shard[k] \in Hash
      <3>1. \A k \in live : k \in Shards /\ k \in Key /\ stat[k] # "none"
        BY <2>0, ExactCoverage DEF KeptInv, PipelineInv, DatasetInv, LivePresent, RowsExist, Shards
      <3> QED
        BY <2>0, <3>1 DEF KeptInv, PipelineInv, DatasetInv, DatasetTypeOK, Shards
    <2>2. \A k \in live : Type(k) = 2
      BY <2>0, <2>1, KeyPairs DEF Fresh, Lines, Replaced
    <2>3. \A j, k \in live : j # k => Content(j) \cap Content(k) = {}
      <3>1. \A k \in live : Content(k) \in Known
        BY <2>1 DEF Known
      <3>2. \A j, k \in live : j # k => Content(j) # Content(k)
        BY <2>1, <2>2, KeyPairs
      <3> QED
        BY <2>0, <3>1, <3>2 DEF Fresh, Parted
    <2>4. \A h \in Hash : file[h] # "absent" <=> \E k \in live : shard[k] = h
      BY <2>0 DEF Fresh, Tidy, Held, At
    <2> QED
      BY <2>1, <2>2, <2>3, <2>4
  <1> QED
    BY <1>1, <1>2, <1>3, PTL DEF Spec
=============================================================================
