----------------------------- MODULE FileDataset -----------------------------
(***************************************************************************)
(* A directory of content-addressed shards beside the table that registers *)
(* them.  Every statement commits on its own; put holds the connection's   *)
(* lock from its first statement to its last, and the process may die      *)
(* between any two of them, or while a shard is written.                   *)
(***************************************************************************)
EXTENDS Naturals, FiniteSets

CONSTANTS
  Key,     \* (checkpoint name, key)
  Row,     \* source ordinals
  HashOf,  \* the content hash of what each key encodes to
  None     \* a shard column that is NULL, a lock that nobody holds

Hash == {HashOf[k] : k \in Key}

ASSUME DatasetAssumption == /\ DOMAIN HashOf = Key
                            /\ None \notin Hash /\ None \notin Key

VARIABLES
  stat,    \* row of each key: "none", "stored" or "consumed"
  cov,     \* its coverage
  shard,   \* the hash it points to, or None
  seq,     \* when it was materialized; 0 before
  live,    \* keys whose shard is live
  file,    \* shard files: "absent", "torn" (partly written) or "whole"
  op       \* the put that holds the lock: its key, its next step, the dead hashes

dataset == <<stat, cov, shard, seq, live, file, op>>

Idle == [key |-> None, at |-> "idle", dead |-> {}]
At(s) == op.at = s
GoOn(s) == op' = [op EXCEPT !.at = s]

Shards == {k \in Key : shard[k] # None}

DatasetInit ==
  /\ stat = [k \in Key |-> "none"] /\ cov = [k \in Key |-> {}]
  /\ shard = [k \in Key |-> None] /\ seq = [k \in Key |-> 0]
  /\ live = {}
  /\ file = [h \in Hash |-> "absent"]
  /\ op = Idle

-----------------------------------------------------------------------------
(* The index.                                                              *)

(* commit without a payload, which replaces the row.                       *)
CommitRow(k, c) ==
  /\ At("idle")
  /\ stat' = [stat EXCEPT ![k] = "stored"]
  /\ cov' = [cov EXCEPT ![k] = c]
  /\ shard' = [shard EXCEPT ![k] = None] /\ seq' = [seq EXCEPT ![k] = 0]
  /\ live' = live \ {k}
  /\ UNCHANGED <<file, op>>

ConsumeRow(k) ==
  /\ At("idle")
  /\ stat' = [stat EXCEPT ![k] = IF @ = "none" THEN @ ELSE "consumed"]
  /\ UNCHANGED <<cov, shard, seq, live, file, op>>

Covered == UNION {cov[k] : k \in {x \in Key : stat[x] # "none"}}

(* The live shards whose item is still to be worked on; one missing file   *)
(* fails the whole query.                                                  *)
StoredItems == {k \in live : shard[k] # None /\ stat[k] = "stored"}
Readable(S) == \A k \in S : file[shard[k]] # "absent"

-----------------------------------------------------------------------------
(* put: reserve the row, write the shard once, point the row at it.        *)

BeginPut(k, c) ==
  /\ At("idle")
  /\ IF stat[k] = "none"
     THEN stat' = [stat EXCEPT ![k] = "stored"] /\ cov' = [cov EXCEPT ![k] = c]
     ELSE UNCHANGED <<stat, cov>>
  /\ op' = [key |-> k, at |-> "check", dead |-> {}]
  /\ UNCHANGED <<shard, seq, live, file>>

(* Fault: the shard is assumed to be there.                                *)
CheckNothing ==
  /\ At("check") /\ GoOn("point")
  /\ UNCHANGED <<stat, cov, shard, seq, live, file>>

(* path.exists(): a file of that name is trusted; else it is created empty *)
(* and then filled.                                                        *)
Check ==
  /\ At("check")
  /\ IF file[HashOf[op.key]] = "absent"
     THEN /\ file' = [file EXCEPT ![HashOf[op.key]] = "torn"]
          /\ GoOn("fill")
     ELSE GoOn("point") /\ UNCHANGED file
  /\ UNCHANGED <<stat, cov, shard, seq, live>>

Fill ==
  /\ At("fill")
  /\ file' = [file EXCEPT ![HashOf[op.key]] = "whole"]
  /\ GoOn("point")
  /\ UNCHANGED <<stat, cov, shard, seq, live>>

(* COALESCE(MAX(seq), 0) + 1                                               *)
IsNextSeq(n) == /\ n \in {1} \cup {seq[k] + 1 : k \in Key}
                /\ \A k \in Key : seq[k] < n

Point ==
  /\ At("point")
  /\ shard' = [shard EXCEPT ![op.key] = HashOf[op.key]]
  /\ \E n \in {1} \cup {seq[k] + 1 : k \in Key} :
       IsNextSeq(n) /\ seq' = [seq EXCEPT ![op.key] = n]
  /\ live' = live \cup {op.key}
  /\ GoOn("supersede")
  /\ UNCHANGED <<stat, cov, file>>

(* Fault: any other shard counts as newer.                                 *)
NewerAny(k) == UNION {cov[j] : j \in Shards \ {k}}

(* What strictly newer shards cover, live or not.                          *)
Newer(k) == UNION {cov[j] : j \in {x \in Shards : seq[x] > seq[k]}}

Superseded(k) == k \in live /\ cov[k] # {} /\ cov[k] \subseteq Newer(k)

(* One UPDATE of supersede, for the rows it read when it began: whether a  *)
(* row is dropped depends on nothing that an earlier UPDATE changed.       *)
Drop(k) ==
  /\ At("supersede") /\ Superseded(k)
  /\ live' = live \ {k}
  /\ op' = [op EXCEPT !.dead = @ \cup {shard[k]}]
  /\ UNCHANGED <<stat, cov, shard, seq, file>>

(* Fault: no dead hash is removed.                                         *)
CollectNone ==
  /\ At("supersede") /\ \A k \in Key : ~Superseded(k)
  /\ op' = [op EXCEPT !.at = "remove", !.dead = {}]
  /\ UNCHANGED <<stat, cov, shard, seq, live, file>>

(* Dead hashes that a live row still references stay.                      *)
Collect ==
  /\ At("supersede") /\ \A k \in Key : ~Superseded(k)
  /\ op' = [op EXCEPT !.at = "remove", !.dead = @ \ {shard[k] : k \in live}]
  /\ UNCHANGED <<stat, cov, shard, seq, live, file>>

Remove(h) ==
  /\ At("remove") /\ h \in op.dead
  /\ file' = [file EXCEPT ![h] = "absent"]
  /\ op' = [op EXCEPT !.dead = @ \ {h}]
  /\ UNCHANGED <<stat, cov, shard, seq, live>>

EndPut ==
  /\ At("remove") /\ op.dead = {}
  /\ op' = Idle
  /\ UNCHANGED <<stat, cov, shard, seq, live, file>>

PutStep ==
  \/ Check \/ Fill \/ Point \/ Collect
  \/ \E k \in Key : Drop(k)
  \/ \E h \in Hash : Remove(h)

(* A file or table error ends put where it is; so does the end of the      *)
(* process.  Either way the lock is free again.                            *)
AbortPut ==
  /\ op' = Idle
  /\ UNCHANGED <<stat, cov, shard, seq, live, file>>

-----------------------------------------------------------------------------
DatasetTypeOK ==
  /\ stat \in [Key -> {"none", "stored", "consumed"}]
  /\ cov \in [Key -> SUBSET Row]
  /\ shard \in [Key -> Hash \cup {None}]
  /\ seq \in [Key -> Nat]
  /\ live \subseteq Key
  /\ file \in [Hash -> {"absent", "torn", "whole"}]
  /\ op \in [key : Key \cup {None}, dead : SUBSET Hash,
             at : {"idle", "check", "fill", "point", "supersede", "remove"}]
  /\ ~At("idle") => op.key \in Key
  /\ \A k \in Key : shard[k] \in {None, HashOf[k]} /\ (shard[k] # None <=> seq[k] > 0)

(* Supersession never loses coverage: of the shards that cover a row, the  *)
(* newest is live, wherever put was interrupted (FileDataset::supersede).  *)
NewestLive ==
  \A r \in Row, k \in Shards :
    r \in cov[k] /\ (\A j \in Shards : r \in cov[j] => seq[j] <= seq[k]) => k \in live

(* A live row's file exists, though keys with equal contents share it and  *)
(* one of them may be superseded: neither a resume, which reads every      *)
(* stored item, nor a consumer fails (FileDataset::shards).                *)
LivePresent == live \subseteq Shards /\ Readable(live)
=============================================================================
