-------------------------- MODULE QueueDepthProofs --------------------------
(***************************************************************************)
(* The depth counter differs from the length of the channel, and the count *)
(* of a type from the number of its envelopes in it, by exactly the notes  *)
(* that are still to be taken, for every number of producers, every batch  *)
(* and every capacity the counter's width can represent.                   *)
(***************************************************************************)
EXTENDS QueueDepth, FiniteSetTheorems, FunctionTheorems, TLAPS

(* A word read as a signed number follows fetch_add and fetch_sub as long  *)
(* as the result is representable.                                         *)
LEMMA UpSigned ==
  ASSUME NEW n \in 0 .. Width - 1, 2 * (Signed(n) + 1) < Width
  PROVE  Up(n) \in 0 .. Width - 1 /\ Signed(Up(n)) = Signed(n) + 1
  BY QueueDepthAssumption, FS_CardinalityType DEF Up, Signed

LEMMA DownSigned ==
  ASSUME NEW n \in 0 .. Width - 1, 2 * (Signed(n) - 1) >= 0 - Width
  PROVE  Down(n) \in 0 .. Width - 1 /\ Signed(Down(n)) = Signed(n) - 1
  BY QueueDepthAssumption, FS_CardinalityType DEF Down, Signed

Pending == Noting({"depth"})
DepthInv == TypeOK /\ DepthLedger

LEMMA PendingBounded ==
  /\ IsFiniteSet(Pending)
  /\ Cardinality(Pending) \in 0 .. Cardinality(Producer)
<1>1. Pending \subseteq Producer
  BY DEF Pending, Noting
<1> QED
  BY <1>1, QueueDepthAssumption, FS_Subset, FS_CardinalityType

(* What a producer's two notes do to the set of producers that have still  *)
(* to note the depth.                                                      *)
LEMMA PendingSend ==
  ASSUME TypeOK, NEW p \in Producer, note[p] = "none",
         note' = [note EXCEPT ![p] = "depth"]
  PROVE  Cardinality(Pending') = Cardinality(Pending) + 1
<1>1. Pending' = Pending \cup {p} /\ p \notin Pending
  BY DEF Pending, Noting, TypeOK
<1> QED
  BY <1>1, PendingBounded, FS_AddElement

LEMMA PendingNoted ==
  ASSUME TypeOK, NEW p \in Producer, note[p] = "depth",
         note' = [note EXCEPT ![p] = "group"]
  PROVE  Cardinality(Pending') = Cardinality(Pending) - 1 /\ Cardinality(Pending) > 0
<1>1. Pending' = Pending \ {p} /\ p \in Pending
  BY DEF Pending, Noting, TypeOK
<1>2. Cardinality(Pending) # 0
  BY <1>1, PendingBounded, FS_EmptySet
<1> QED
  BY <1>1, <1>2, PendingBounded, FS_RemoveElement, FS_CardinalityType

LEMMA PendingGroup ==
  ASSUME TypeOK, NEW p \in Producer, note[p] = "group",
         note' = [note EXCEPT ![p] = "none"]
  PROVE  Pending' = Pending
  BY DEF Pending, Noting, TypeOK

LEMMA PendingSame ==
  ASSUME note' = note PROVE Pending' = Pending
  BY DEF Pending, Noting

(* The two small facts on the channel's length.                            *)
LEMMA HeadTail ==
  ASSUME TypeOK, chan # <<>>
  PROVE  /\ Len(Tail(chan)) = Len(chan) - 1 /\ Len(chan) \in 1 .. Cap
         /\ Head(chan) \in Type /\ Tail(chan) \in Seq(Type)
  BY DEF TypeOK

LEMMA InitDepth == Init => DepthInv
<1> SUFFICES ASSUME Init PROVE DepthInv
  OBVIOUS
<1>1. Cardinality(Producer) \in Nat
  BY QueueDepthAssumption, FS_CardinalityType
<1>2. TypeOK
  <2>1. Width - 1 \in Nat /\ Cap \in Nat
    BY <1>1, QueueDepthAssumption
  <2>2. \A p \in Producer : Len(Batch[p]) \in Nat
    BY QueueDepthAssumption
  <2>3. over \in BOOLEAN
    BY Zenon DEF Init
  <2> QED
    BY <2>1, <2>2, <2>3 DEF Init, TypeOK
<1>3. Noting({"depth"}) = {}
  BY DEF Init, Noting
<1>4. DepthLedger
  <2>1. depth = 0 /\ Len(chan) = 0 /\ rnote = "none"
    BY DEF Init
  <2>2. Cardinality(Noting({"depth"})) = 0
    BY <1>3, FS_EmptySet
  <2>3. Signed(0) = 0
    BY <1>1, QueueDepthAssumption DEF Signed
  <2> QED
    BY <2>1, <2>2, <2>3 DEF DepthLedger
<1> QED
  BY <1>2, <1>4 DEF DepthInv

(* What a sample reads is a count, and a step of it reads only one.        *)
LEMMA SampleTypes ==
  ASSUME TypeOK, Sampling
  PROVE  /\ sample' \in [depth : 0 .. Width - 1, queued : [Type -> 0 .. Width - 1]]
         /\ left' \subseteq Type /\ over' \in BOOLEAN
<1>1. CASE SampleDepth \/ LastSample
  BY <1>1 DEF SampleDepth, LastSample, TypeOK
<1>2. CASE SampleQueued
  <2>1. PICK t \in left : /\ sample' = [sample EXCEPT !.queued[t] = queued[t]]
                          /\ left' = left \ {t} /\ over' = over
    BY <1>2 DEF SampleQueued
  <2>2. /\ sample.depth \in 0 .. Width - 1 /\ queued[t] \in 0 .. Width - 1
        /\ sample.queued \in [Type -> 0 .. Width - 1]
        /\ sample = [depth |-> sample.depth, queued |-> sample.queued]
    BY DEF TypeOK
  <2>3. sample' = [depth  |-> sample.depth,
                   queued |-> [sample.queued EXCEPT ![t] = queued[t]]]
    BY <2>1, <2>2
  <2>4. sample' \in [depth : 0 .. Width - 1, queued : [Type -> 0 .. Width - 1]]
    BY <2>2, <2>3
  <2> QED
    BY <2>1, <2>4 DEF TypeOK
<1> QED
  BY <1>1, <1>2 DEF Sampling

LEMMA NextDepth == DepthInv /\ [Next]_vars => DepthInv'
<1> SUFFICES ASSUME TypeOK, DepthLedger, [Next]_vars PROVE DepthInv'
  BY DEF DepthInv
<1> DEFINE D == IF rnote = "depth" THEN 1 ELSE 0
<1>0. /\ Cardinality(Producer) \in Nat /\ Cap \in Nat
      /\ Width \in Nat /\ Width > 2 * (Cap + Cardinality(Producer) + 1)
      /\ Len(chan) \in 0 .. Cap /\ D \in 0 .. 1
      /\ Cardinality(Pending) \in 0 .. Cardinality(Producer)
      /\ Signed(depth) = Len(chan) + D - Cardinality(Pending)
  <2>1. Cardinality(Producer) \in Nat
    BY QueueDepthAssumption, FS_CardinalityType
  <2>2. Len(chan) \in 0 .. Cap
    BY QueueDepthAssumption DEF TypeOK
  <2>3. Signed(depth) = Len(chan) + D - Cardinality(Pending)
    BY DEF DepthLedger, Pending
  <2> QED
    BY <2>1, <2>2, <2>3, QueueDepthAssumption, PendingBounded
<1>000. Width \in Nat /\ Width > 2
  BY <1>0
<1>00. \A p \in Producer : Len(Batch[p]) \in Nat /\ Batch[p] \in Seq(Type)
  BY QueueDepthAssumption
<1>1. ASSUME NEW p \in Producer, Send(p) PROVE DepthInv'
  <2>1. Cardinality(Pending') = Cardinality(Pending) + 1
    BY <1>1, PendingSend DEF Send
  <2>2. Batch[p][sent[p] + 1] \in Type
    <3>1. sent[p] \in Nat /\ sent[p] < Len(Batch[p])
      BY <1>1 DEF Send, TypeOK
    <3>2. sent[p] + 1 \in 1 .. Len(Batch[p])
      BY <1>00, <3>1
    <3> QED
      BY <1>00, <3>2
  <2>3. chan' \in Seq(Type) /\ Len(chan') = Len(chan) + 1 /\ Len(chan') <= Cap
    BY <1>0, <1>1, <2>2 DEF Send, TypeOK
  <2>4. TypeOK'
    <3>1. /\ sent' \in [Producer -> Nat]
          /\ \A q \in Producer : sent'[q] <= Len(Batch[q])
          /\ note' \in [Producer -> {"none", "depth", "group"}]
          /\ \A q \in Producer : note'[q] # "none" => sent'[q] > 0
      <4>1. /\ sent \in [Producer -> Nat] /\ sent' = [sent EXCEPT ![p] = @ + 1]
            /\ note \in [Producer -> {"none", "depth", "group"}]
            /\ note' = [note EXCEPT ![p] = "depth"]
            /\ sent[p] < Len(Batch[p])
            /\ \A q \in Producer : sent[q] <= Len(Batch[q])
            /\ \A q \in Producer : note[q] # "none" => sent[q] > 0
        BY <1>1 DEF Send, TypeOK
      <4>2. /\ sent' \in [Producer -> Nat]
            /\ note' \in [Producer -> {"none", "depth", "group"}]
        BY <4>1
      <4>3. \A q \in Producer : sent'[q] <= Len(Batch[q])
        BY <1>00, <4>1
      <4>4. \A q \in Producer : note'[q] # "none" => sent'[q] > 0
        BY <4>1
      <4> QED
        BY <4>2, <4>3, <4>4
    <3>2. UNCHANGED <<rnote, rkey, depth, queued, sample, left, over>>
      BY <1>1 DEF Send
    <3> QED
      BY <2>3, <3>1, <3>2 DEF TypeOK
  <2>5. DepthLedger'
    <3>1. depth' = depth /\ rnote' = rnote
      BY <1>1 DEF Send
    <3> QED
      BY <1>0, <2>1, <2>3, <3>1 DEF DepthLedger, Pending
  <2> QED
    BY <2>4, <2>5 DEF DepthInv
<1>2. ASSUME NEW p \in Producer, NoteDepth(p) PROVE DepthInv'
  <2>1. Cardinality(Pending') = Cardinality(Pending) - 1 /\ Cardinality(Pending) > 0
    BY <1>2, PendingNoted DEF NoteDepth
  <2>2. Up(depth) \in 0 .. Width - 1 /\ Signed(Up(depth)) = Signed(depth) + 1
    <3>1. depth \in 0 .. Width - 1
      BY DEF TypeOK
    <3>2. 2 * (Signed(depth) + 1) < Width
      BY <1>0, <2>1
    <3> QED
      BY <3>1, <3>2, UpSigned
  <2>3. TypeOK'
    BY <1>2, <2>2 DEF NoteDepth, TypeOK
  <2>4. DepthLedger'
    <3>1. Signed(depth') = Signed(depth) + 1 /\ chan' = chan /\ rnote' = rnote
      BY <1>2, <2>2 DEF NoteDepth
    <3> QED
      BY <1>0, <2>1, <3>1 DEF DepthLedger, Pending
  <2> QED
    BY <2>3, <2>4 DEF DepthInv
<1>3. ASSUME NEW p \in Producer, NoteGroup(p) PROVE DepthInv'
  <2>1. Pending' = Pending
    BY <1>3, PendingGroup DEF NoteGroup
  <2>2. \A t \in Type : Up(queued[t]) \in 0 .. Width - 1
    <3>1. \A t \in Type : queued[t] \in 0 .. Width - 1
      BY DEF TypeOK
    <3> QED
      BY <1>000, <3>1 DEF Up
  <2>3. TypeOK'
    BY <1>3, <2>2 DEF NoteGroup, TypeOK
  <2>4. DepthLedger'
    BY <1>3, <2>1 DEF NoteGroup, DepthLedger, Pending, Signed
  <2> QED
    BY <2>3, <2>4 DEF DepthInv
<1>4. CASE Recv
  <2>1. Pending' = Pending
    BY <1>4, PendingSame DEF Recv
  <2>2. /\ Len(chan') = Len(chan) - 1 /\ Len(chan) >= 1
        /\ rkey' \in Type /\ chan' \in Seq(Type)
    BY <1>4, HeadTail DEF Recv
  <2>3. TypeOK'
    <3>1. /\ rnote' = "depth"
          /\ UNCHANGED <<sent, note, depth, queued, sample, left, over>>
      BY <1>4 DEF Recv
    <3>2. Len(chan') <= Cap
      BY <1>0, <2>2
    <3> QED
      BY <2>2, <3>1, <3>2 DEF TypeOK
  <2>4. DepthLedger'
    <3>1. D = 0 /\ rnote' = "depth" /\ Signed(depth') = Signed(depth)
      BY <1>4 DEF Recv
    <3> QED
      BY <1>0, <2>1, <2>2, <3>1 DEF DepthLedger, Pending
  <2> QED
    BY <2>3, <2>4 DEF DepthInv
<1>5. CASE UnnoteDepth
  <2>1. Pending' = Pending
    BY <1>5, PendingSame DEF UnnoteDepth
  <2>2. Down(depth) \in 0 .. Width - 1 /\ Signed(Down(depth)) = Signed(depth) - 1
    <3>1. depth \in 0 .. Width - 1
      BY DEF TypeOK
    <3>2. 2 * (Signed(depth) - 1) >= 0 - Width
      BY <1>0, <1>5 DEF UnnoteDepth
    <3> QED
      BY <3>1, <3>2, DownSigned
  <2>3. TypeOK'
    BY <1>5, <2>2 DEF UnnoteDepth, TypeOK
  <2>4. DepthLedger'
    <3>1. Signed(depth') = Signed(depth) - 1 /\ chan' = chan /\ D = 1 /\ rnote' = "group"
      BY <1>5, <2>2 DEF UnnoteDepth
    <3> QED
      BY <1>0, <2>1, <3>1 DEF DepthLedger, Pending
  <2> QED
    BY <2>3, <2>4 DEF DepthInv
<1>6. CASE UnnoteGroup
  <2>1. Pending' = Pending
    BY <1>6, PendingSame DEF UnnoteGroup
  <2>2. \A t \in Type : Down(queued[t]) \in 0 .. Width - 1
    <3>1. \A t \in Type : queued[t] \in 0 .. Width - 1
      BY DEF TypeOK
    <3> QED
      BY <1>000, <3>1 DEF Down
  <2>3. TypeOK'
    BY <1>6, <2>2 DEF UnnoteGroup, TypeOK
  <2>4. DepthLedger'
    BY <1>6, <2>1 DEF UnnoteGroup, DepthLedger, Pending, Signed
  <2> QED
    BY <2>3, <2>4 DEF DepthInv
<1>7. CASE Sampling
  <2>1. UNCHANGED <<chan, sent, note, rnote, rkey, depth, queued>>
    BY <1>7 DEF Sampling, SampleDepth, SampleQueued, LastSample
  <2>2. Pending' = Pending
    BY <2>1, PendingSame
  <2>3. TypeOK'
    BY <1>7, <2>1, SampleTypes DEF TypeOK
  <2>4. DepthLedger'
    BY <2>1, <2>2 DEF DepthLedger, Pending, Signed
  <2> QED
    BY <2>3, <2>4 DEF DepthInv
<1>8. CASE UNCHANGED vars
  <2>1. UNCHANGED <<chan, sent, note, rnote, rkey, depth, queued, sample, left, over>>
    BY <1>8 DEF vars
  <2>2. TypeOK'
    BY <2>1 DEF TypeOK
  <2>3. DepthLedger'
    BY <2>1 DEF DepthLedger, Signed, Noting
  <2> QED
    BY <2>2, <2>3 DEF DepthInv
<1> QED
  BY <1>1, <1>2, <1>3, <1>4, <1>5, <1>6, <1>7, <1>8 DEF Next, Producing, Receiving

(* Whatever the order of sends, receives, notes and samples, the depth is  *)
(* the length of the channel but for the notes still to be taken.          *)
THEOREM DepthExact == Spec => []DepthLedger
<1>1. DepthInv => DepthLedger
  BY DEF DepthInv
<1> QED
  BY <1>1, InitDepth, NextDepth, PTL DEF Spec

-----------------------------------------------------------------------------
(* The counts of the types.                                                *)
InChan(t)  == {i \in DOMAIN chan : chan[i] = t}
Unnoted(t) == {p \in Noting({"depth", "group"}) : Batch[p][sent[p]] = t}
Received(t) == IF rnote # "none" /\ rkey = t THEN 1 ELSE 0

GroupInv == DepthInv /\ QueuedLedger

LEMMA InChanBounded ==
  ASSUME TypeOK, NEW t \in Type
  PROVE  IsFiniteSet(InChan(t)) /\ Cardinality(InChan(t)) \in 0 .. Len(chan)
<1>1. Len(chan) \in Nat /\ DOMAIN chan = 1 .. Len(chan)
  BY DEF TypeOK
<1>2. IsFiniteSet(1 .. Len(chan)) /\ Cardinality(1 .. Len(chan)) = Len(chan)
  <2> DEFINE n == Len(chan)
  <2>1. n \in Int /\ n \in Nat /\ 1 \in Int
    BY <1>1
  <2> HIDE DEF n
  <2>2. IsFiniteSet(1 .. n) /\ Cardinality(1 .. n) = IF 1 > n THEN 0 ELSE n - 1 + 1
    BY <2>1, FS_Interval
  <2>3. (IF 1 > n THEN 0 ELSE n - 1 + 1) = n
    BY <2>1
  <2> QED
    BY <2>2, <2>3 DEF n
<1>3. InChan(t) \in SUBSET (1 .. Len(chan))
  BY <1>1 DEF InChan
<1>4. IsFiniteSet(InChan(t)) /\ Cardinality(InChan(t)) <= Len(chan)
  BY <1>2, <1>3, FS_Subset
<1> QED
  BY <1>1, <1>4, FS_CardinalityType

LEMMA UnnotedBounded ==
  ASSUME NEW t \in Type
  PROVE  IsFiniteSet(Unnoted(t)) /\ Cardinality(Unnoted(t)) \in 0 .. Cardinality(Producer)
<1>1. Unnoted(t) \subseteq Producer
  BY DEF Unnoted, Noting
<1> QED
  BY <1>1, QueueDepthAssumption, FS_Subset, FS_CardinalityType

(* The other envelopes move up when the head leaves the channel.           *)
LEMMA InChanTail ==
  ASSUME TypeOK, chan # <<>>, chan' = Tail(chan), NEW t \in Type
  PROVE  Cardinality(InChan(t)') = Cardinality(InChan(t)) - (IF Head(chan) = t THEN 1 ELSE 0)
<1> DEFINE A == InChan(t)'
           B == InChan(t) \ {1}
           f == [i \in A |-> i + 1]
<1>1. /\ Len(chan) \in Nat \ {0} /\ Len(chan') = Len(chan) - 1
      /\ DOMAIN chan = 1 .. Len(chan) /\ DOMAIN chan' = 1 .. Len(chan')
      /\ \A i \in 1 .. Len(chan') : chan'[i] = chan[i + 1]
      /\ Head(chan) = chan[1]
  BY DEF TypeOK
<1>2. \A i \in A : i \in Nat /\ i + 1 \in B
  BY <1>1 DEF InChan
<1>3. \A j \in B : j - 1 \in A /\ (j - 1) + 1 = j
  BY <1>1 DEF InChan
<1>4. f \in Bijection(A, B)
  <2>1. f \in [A -> B]
    BY <1>2
  <2>2. \A i, j \in A : f[i] = f[j] => i = j
    BY <1>2
  <2>3. \A j \in B : \E i \in A : f[i] = j
    BY <1>3
  <2> HIDE DEF f, A, B
  <2> QED
    BY <2>1, <2>2, <2>3 DEF Bijection, Injection, Surjection, IsInjective
<1>5. ExistsBijection(A, B)
  BY <1>4 DEF ExistsBijection
<1>6. ExistsBijection(B, A)
  BY <1>5, Fun_ExistsBijSymmetric
<1>7. IsFiniteSet(InChan(t)) /\ Cardinality(InChan(t)) \in Nat
  BY InChanBounded
<1>8. /\ IsFiniteSet(B)
      /\ Cardinality(B) = IF 1 \in InChan(t) THEN Cardinality(InChan(t)) - 1
                          ELSE Cardinality(InChan(t))
  BY <1>7, FS_RemoveElement
<1>9. Cardinality(A) = Cardinality(B)
  BY <1>6, <1>8, FS_Bijection
<1>10. 1 \in InChan(t) <=> Head(chan) = t
  BY <1>1 DEF InChan
<1> QED
  BY <1>7, <1>8, <1>9, <1>10

(* A word that stands for m stands for m + 1, or m - 1, after the note.    *)
LEMMA WordUp ==
  ASSUME NEW n \in 0 .. Width - 1, NEW m \in Int, Signed(n) = m,
         m < Cap + Cardinality(Producer) + 1
  PROVE  Up(n) \in 0 .. Width - 1 /\ Signed(Up(n)) = m + 1
<1>1. Cardinality(Producer) \in Nat
  BY QueueDepthAssumption, FS_CardinalityType
<1>2. 2 * (Signed(n) + 1) < Width
  BY <1>1, QueueDepthAssumption
<1> QED
  BY <1>2, UpSigned

LEMMA WordDown ==
  ASSUME NEW n \in 0 .. Width - 1, NEW m \in Int, Signed(n) = m,
         0 - Cardinality(Producer) - 1 <= m
  PROVE  Down(n) \in 0 .. Width - 1 /\ Signed(Down(n)) = m - 1
<1>1. Cardinality(Producer) \in Nat
  BY QueueDepthAssumption, FS_CardinalityType
<1>2. 2 * (Signed(n) - 1) >= 0 - Width
  BY <1>1, QueueDepthAssumption
<1> QED
  BY <1>2, DownSigned

LEMMA NextGroup ==
  ASSUME GroupInv, [Next]_vars
  PROVE  QueuedLedger'
<1>0. TypeOK
  BY DEF GroupInv, DepthInv
<1> SUFFICES ASSUME NEW t \in Type
             PROVE  Signed(queued'[t]) = Cardinality(InChan(t)') + Received(t)'
                                           - Cardinality(Unnoted(t)')
  BY DEF QueuedLedger, InChan, Received, Unnoted, Noting
<1> DEFINE A == Cardinality(InChan(t))
           U == Cardinality(Unnoted(t))
<1>1. /\ Signed(queued[t]) = A + Received(t) - U /\ queued[t] \in 0 .. Width - 1
      /\ A \in 0 .. Len(chan) /\ Len(chan) \in 0 .. Cap
      /\ U \in 0 .. Cardinality(Producer) /\ Cardinality(Producer) \in Nat
      /\ Received(t) \in 0 .. 1
  <2>1. Signed(queued[t]) = A + Received(t) - U
    BY DEF GroupInv, QueuedLedger, InChan, Received, Unnoted, Noting
  <2>2. queued[t] \in 0 .. Width - 1 /\ Len(chan) \in 0 .. Cap
    BY <1>0, QueueDepthAssumption DEF TypeOK
  <2>3. Cardinality(Producer) \in Nat
    BY QueueDepthAssumption, FS_CardinalityType
  <2> QED
    BY <1>0, <2>1, <2>2, <2>3, InChanBounded, UnnotedBounded DEF Received
<1> HIDE DEF A, U
<1>2. ASSUME NEW p \in Producer, Send(p)
      PROVE  Signed(queued'[t]) = Cardinality(InChan(t)') + Received(t)'
                                    - Cardinality(Unnoted(t)')
  <2> DEFINE x == Batch[p][sent[p] + 1]
  <2>1. /\ chan' = Append(chan, x) /\ sent' = [sent EXCEPT ![p] = @ + 1]
        /\ note' = [note EXCEPT ![p] = "depth"] /\ note[p] = "none"
        /\ UNCHANGED <<rnote, rkey, queued>>
    BY <1>2 DEF Send
  <2> HIDE DEF x
  <2>2. /\ Len(chan) \in Nat /\ chan \in Seq(Type)
        /\ sent \in [Producer -> Nat] /\ note \in [Producer -> {"none", "depth", "group"}]
    BY <1>0 DEF TypeOK
  <2>3. /\ DOMAIN chan = 1 .. Len(chan) /\ DOMAIN chan' = 1 .. Len(chan) + 1
        /\ chan'[Len(chan) + 1] = x
        /\ \A i \in 1 .. Len(chan) : chan'[i] = chan[i]
    BY <2>1, <2>2
  <2>4. p \notin Unnoted(t)
    BY <2>1 DEF Unnoted, Noting
  <2>5. Received(t)' = Received(t)
    BY <2>1 DEF Received
  <2>6. CASE x = t
    <3>1. InChan(t)' = InChan(t) \cup {Len(chan) + 1} /\ Len(chan) + 1 \notin InChan(t)
      BY <2>2, <2>3, <2>6 DEF InChan
    <3>2. Unnoted(t)' = Unnoted(t) \cup {p}
      BY <2>1, <2>2, <2>6 DEF Unnoted, Noting, x
    <3>3. Cardinality(InChan(t)') = A + 1
      BY <1>0, <3>1, InChanBounded, FS_AddElement DEF A
    <3>4. Cardinality(Unnoted(t)') = U + 1
      BY <2>4, <3>2, UnnotedBounded, FS_AddElement DEF U
    <3> QED
      BY <1>1, <2>1, <2>5, <3>3, <3>4
  <2>7. CASE x # t
    <3>1. InChan(t)' = InChan(t)
      BY <2>2, <2>3, <2>7 DEF InChan
    <3>2. Unnoted(t)' = Unnoted(t)
      BY <2>1, <2>2, <2>7 DEF Unnoted, Noting, x
    <3> QED
      BY <1>1, <2>1, <2>5, <3>1, <3>2 DEF A, U
  <2> QED
    BY <2>6, <2>7
<1>3. ASSUME NEW p \in Producer, NoteDepth(p)
      PROVE  Signed(queued'[t]) = Cardinality(InChan(t)') + Received(t)'
                                    - Cardinality(Unnoted(t)')
  <2>1. InChan(t)' = InChan(t) /\ Unnoted(t)' = Unnoted(t) /\ Received(t)' = Received(t)
    BY <1>0, <1>3 DEF NoteDepth, InChan, Unnoted, Noting, Received, TypeOK
  <2> QED
    BY <1>1, <1>3, <2>1 DEF NoteDepth, A, U
<1>4. ASSUME NEW p \in Producer, NoteGroup(p)
      PROVE  Signed(queued'[t]) = Cardinality(InChan(t)') + Received(t)'
                                    - Cardinality(Unnoted(t)')
  <2>1. /\ note[p] = "group" /\ note' = [note EXCEPT ![p] = "none"]
        /\ queued' = [queued EXCEPT ![Batch[p][sent[p]]] = Up(@)]
        /\ UNCHANGED <<chan, sent, rnote, rkey>>
    BY <1>4 DEF NoteGroup
  <2>2. InChan(t)' = InChan(t) /\ Received(t)' = Received(t)
    BY <2>1 DEF InChan, Received
  <2>3. CASE Batch[p][sent[p]] = t
    <3>1. Unnoted(t)' = Unnoted(t) \ {p} /\ p \in Unnoted(t)
      BY <1>0, <2>1, <2>3 DEF Unnoted, Noting, TypeOK
    <3>2. Cardinality(Unnoted(t)') = U - 1
      BY <3>1, UnnotedBounded, FS_RemoveElement DEF U
    <3>3. queued'[t] = Up(queued[t])
      BY <1>0, <2>1, <2>3 DEF TypeOK
    <3>4. U # 0
      BY <3>1, UnnotedBounded, FS_EmptySet DEF U
    <3>5. Signed(Up(queued[t])) = A + Received(t) - U + 1
      <4>1. A + Received(t) - U \in Int /\ A + Received(t) - U < Cap + Cardinality(Producer) + 1
        BY <1>1, <3>4, QueueDepthAssumption
      <4> QED
        BY <1>1, <4>1, WordUp
    <3> QED
      BY <1>1, <2>2, <3>2, <3>3, <3>5 DEF A
  <2>4. CASE Batch[p][sent[p]] # t
    <3>1. Unnoted(t)' = Unnoted(t)
      BY <1>0, <2>1, <2>4 DEF Unnoted, Noting, TypeOK
    <3>2. queued'[t] = queued[t]
      BY <1>0, <2>1, <2>4 DEF TypeOK
    <3> QED
      BY <1>1, <2>2, <3>1, <3>2 DEF A, U
  <2> QED
    BY <2>3, <2>4
<1>5. CASE Recv
  <2>1. /\ rnote = "none" /\ rnote' = "depth" /\ rkey' = Head(chan)
        /\ chan # <<>> /\ chan' = Tail(chan) /\ UNCHANGED <<sent, note, queued>>
    BY <1>5 DEF Recv
  <2>2. Unnoted(t)' = Unnoted(t)
    BY <2>1 DEF Unnoted, Noting
  <2>3. Cardinality(InChan(t)') = A - (IF Head(chan) = t THEN 1 ELSE 0)
    BY <1>0, <2>1, InChanTail DEF A
  <2>4. Received(t) = 0 /\ Received(t)' = IF Head(chan) = t THEN 1 ELSE 0
    BY <2>1 DEF Received
  <2> QED
    BY <1>1, <2>1, <2>2, <2>3, <2>4 DEF U
<1>6. CASE UnnoteDepth
  <2>1. InChan(t)' = InChan(t) /\ Unnoted(t)' = Unnoted(t) /\ Received(t)' = Received(t)
    BY <1>6 DEF UnnoteDepth, InChan, Unnoted, Noting, Received
  <2> QED
    BY <1>1, <1>6, <2>1 DEF UnnoteDepth, A, U
<1>7. CASE UnnoteGroup
  <2>1. /\ rnote = "group" /\ rnote' = "none"
        /\ queued' = [queued EXCEPT ![rkey] = Down(@)]
        /\ UNCHANGED <<chan, sent, note, rkey>>
    BY <1>7 DEF UnnoteGroup
  <2>2. InChan(t)' = InChan(t) /\ Unnoted(t)' = Unnoted(t) /\ Received(t)' = 0
    BY <2>1 DEF InChan, Unnoted, Noting, Received
  <2>3. CASE rkey = t
    <3>1. queued'[t] = Down(queued[t]) /\ Received(t) = 1
      BY <1>0, <2>1, <2>3 DEF TypeOK, Received
    <3>2. Signed(Down(queued[t])) = A + Received(t) - U - 1
      <4>1. A + Received(t) - U \in Int /\ 0 - Cardinality(Producer) - 1 <= A + Received(t) - U
        BY <1>1
      <4> QED
        BY <1>1, <4>1, WordDown
    <3> QED
      BY <1>1, <2>2, <3>1, <3>2 DEF A, U
  <2>4. CASE rkey # t
    <3>1. queued'[t] = queued[t] /\ Received(t) = 0
      BY <1>0, <2>1, <2>4 DEF TypeOK, Received
    <3> QED
      BY <1>1, <2>2, <3>1 DEF A, U
  <2> QED
    BY <2>3, <2>4
<1>8. CASE Sampling \/ UNCHANGED vars
  <2>1. UNCHANGED <<chan, sent, note, rnote, rkey, queued>>
    BY <1>8 DEF Sampling, SampleDepth, SampleQueued, LastSample, vars
  <2>2. InChan(t)' = InChan(t) /\ Unnoted(t)' = Unnoted(t) /\ Received(t)' = Received(t)
    BY <2>1 DEF InChan, Unnoted, Noting, Received
  <2> QED
    BY <1>1, <2>1, <2>2 DEF A, U
<1> QED
  BY <1>2, <1>3, <1>4, <1>5, <1>6, <1>7, <1>8 DEF Next, Producing, Receiving

LEMMA InitGroup == Init => QueuedLedger
<1> SUFFICES ASSUME Init, NEW t \in Type
             PROVE  Signed(queued[t]) = Cardinality(InChan(t)) + Received(t)
                                          - Cardinality(Unnoted(t))
  BY DEF QueuedLedger, InChan, Received, Unnoted, Noting
<1>1. InChan(t) = {} /\ Unnoted(t) = {} /\ Received(t) = 0 /\ queued[t] = 0
  BY DEF Init, InChan, Unnoted, Noting, Received
<1>2. Signed(0) = 0
  BY QueueDepthAssumption, FS_CardinalityType DEF Signed
<1> QED
  BY <1>1, <1>2, FS_EmptySet

(* The queued count of every type is the number of its envelopes in the    *)
(* channel, but for the notes still to be taken by senders and dispatcher. *)
THEOREM QueuedExact == Spec => []QueuedLedger
<1>1. Init => GroupInv
  BY InitDepth, InitGroup DEF GroupInv
<1>2. GroupInv /\ [Next]_vars => GroupInv'
  BY NextDepth, NextGroup DEF GroupInv
<1>3. GroupInv => QueuedLedger
  BY DEF GroupInv
<1> QED
  BY <1>1, <1>2, <1>3, PTL DEF Spec
-----------------------------------------------------------------------------
(* The last sample.  When the run is over everything was sent, received    *)
(* and noted by the dispatcher, and only detached senders have notes left. *)

RunOver ==
  over => /\ chan = <<>> /\ rnote = "none"
          /\ \A p \in Producer : sent[p] = Len(Batch[p])
          /\ Noting({"depth", "group"}) \subseteq Detached

OverInv == GroupInv /\ RunOver /\ FinalSampleShort

(* Then each counter is at most zero, and short by some detached senders.  *)
LEMMA OverCounts ==
  ASSUME GroupInv, chan = <<>>, rnote = "none",
         Noting({"depth", "group"}) \subseteq Detached
  PROVE  Short(depth) /\ \A t \in Type : Short(queued[t])
<1>1. IsFiniteSet(Detached) /\ Cardinality(Detached) \in Nat
  BY QueueDepthAssumption, FS_Subset, FS_CardinalityType
<1>2. \A S \in SUBSET Detached : Cardinality(S) \in 0 .. Cardinality(Detached)
  BY <1>1, FS_Subset, FS_CardinalityType
<1>3. Len(chan) = 0 /\ DOMAIN chan = {}
  OBVIOUS
<1>4. Short(depth)
  <2>1. Noting({"depth"}) \subseteq Detached
    BY DEF Noting
  <2>2. Signed(depth) = 0 - Cardinality(Noting({"depth"}))
    <3>1. Signed(depth) = 0 + 0 - Cardinality(Noting({"depth"}))
      BY <1>3 DEF GroupInv, DepthInv, DepthLedger
    <3> QED
      BY <1>2, <2>1, <3>1
  <2> QED
    BY <1>1, <1>2, <2>1, <2>2 DEF Short
<1>5. ASSUME NEW t \in Type PROVE Short(queued[t])
  <2>1. Unnoted(t) \subseteq Detached
    BY DEF Unnoted
  <2>2. InChan(t) = {} /\ Received(t) = 0
    BY <1>3 DEF InChan, Received
  <2>3. Signed(queued[t]) = Cardinality(InChan(t)) + Received(t) - Cardinality(Unnoted(t))
    BY DEF GroupInv, QueuedLedger, InChan, Received, Unnoted, Noting
  <2>4. Signed(queued[t]) = 0 - Cardinality(Unnoted(t))
    BY <1>2, <2>1, <2>2, <2>3, FS_EmptySet
  <2> QED
    BY <1>1, <1>2, <2>1, <2>4 DEF Short
<1> QED
  BY <1>4, <1>5

LEMMA NextOver ==
  ASSUME OverInv, [Next]_vars PROVE RunOver' /\ FinalSampleShort'
<1>0. TypeOK /\ GroupInv
  BY DEF OverInv, GroupInv, DepthInv
<1>1. ASSUME NEW p \in Producer, Producing(p) PROVE RunOver' /\ FinalSampleShort'
  <2>1. over' = over /\ rnote' = rnote /\ sample' = sample /\ left' = left
    BY <1>1 DEF Producing, Send, NoteDepth, NoteGroup
  <2>2. CASE ~over
    BY <2>1, <2>2 DEF RunOver, FinalSampleShort
  <2>3. CASE over
    <3>1. sent[p] = Len(Batch[p]) /\ Len(Batch[p]) \in Nat
      BY <2>3, QueueDepthAssumption DEF OverInv, RunOver
    <3>2. ~Send(p)
      BY <3>1 DEF Send
    <3>3. /\ chan' = chan /\ sent' = sent
          /\ \A q \in Producer : note'[q] \in {"depth", "group"} => note[q] \in {"depth", "group"}
      BY <1>0, <1>1, <3>2 DEF Producing, NoteDepth, NoteGroup, TypeOK
    <3>4. RunOver'
      BY <2>1, <2>3, <3>3 DEF OverInv, RunOver, Noting
    <3>5. FinalSampleShort'
      BY <2>1 DEF OverInv, FinalSampleShort, Short, Signed
    <3> QED
      BY <3>4, <3>5
  <2> QED
    BY <2>2, <2>3
<1>2. CASE Receiving
  <2>1. ~over /\ over' = over
    BY <1>2 DEF Receiving, Recv, UnnoteDepth, UnnoteGroup, OverInv, RunOver
  <2> QED
    BY <2>1 DEF RunOver, FinalSampleShort
<1>3. CASE SampleDepth
  BY <1>3 DEF SampleDepth, RunOver, FinalSampleShort
<1>4. CASE SampleQueued
  <2>1. PICK t \in left : /\ sample' = [sample EXCEPT !.queued[t] = queued[t]]
                          /\ left' = left \ {t}
                          /\ UNCHANGED <<chan, sent, note, rnote, rkey, depth, queued, over>>
    BY <1>4 DEF SampleQueued
  <2>2. RunOver'
    BY <2>1 DEF OverInv, RunOver, Noting
  <2>3. CASE over
    <3>1. Short(queued[t])
      BY <1>0, <2>1, <2>3, OverCounts DEF OverInv, RunOver, TypeOK
    <3>2. /\ sample.queued \in [Type -> 0 .. Width - 1] /\ t \in Type
          /\ sample = [depth |-> sample.depth, queued |-> sample.queued]
      BY <1>0 DEF TypeOK
    <3>3. sample' = [depth  |-> sample.depth,
                     queued |-> [sample.queued EXCEPT ![t] = queued[t]]]
      BY <2>1, <3>2
    <3>4. \A r \in Type \ left' : Short(sample'.queued[r])
      <4> SUFFICES ASSUME NEW r \in Type \ left' PROVE Short(sample'.queued[r])
        OBVIOUS
      <4>1. CASE r = t
        BY <3>1, <3>2, <3>3, <4>1
      <4>2. CASE r # t
        <5>1. r \in Type \ left /\ sample'.queued[r] = sample.queued[r]
          BY <2>1, <3>2, <3>3, <4>2
        <5> QED
          BY <2>3, <5>1 DEF OverInv, FinalSampleShort
      <4> QED
        BY <4>1, <4>2
    <3>5. Short(sample'.depth)
      BY <2>3, <3>3 DEF OverInv, FinalSampleShort
    <3> QED
      BY <2>2, <3>4, <3>5 DEF FinalSampleShort, Short, Signed
  <2> QED
    BY <2>1, <2>2, <2>3 DEF FinalSampleShort
<1>5. CASE LastSample
  <2>1. /\ chan = <<>> /\ rnote = "none" /\ over' = TRUE
        /\ \A p \in Producer : sent[p] = Len(Batch[p])
        /\ \A p \in Producer \ Detached : note[p] = "none"
        /\ sample' = [sample EXCEPT !.depth = depth] /\ left' = Type
        /\ UNCHANGED <<chan, sent, note, rnote>>
    BY <1>5 DEF LastSample
  <2>2. Noting({"depth", "group"}) \subseteq Detached
    BY <2>1 DEF Noting
  <2>3. Short(depth)
    BY <1>0, <2>1, <2>2, OverCounts
  <2>4. sample'.depth = depth
    BY <1>0, <2>1 DEF TypeOK
  <2>5. RunOver'
    BY <2>1, <2>2 DEF RunOver, Noting
  <2>6. FinalSampleShort'
    BY <2>1, <2>3, <2>4 DEF FinalSampleShort, Short, Signed
  <2> QED
    BY <2>5, <2>6
<1>6. CASE UNCHANGED vars
  BY <1>6 DEF vars, OverInv, RunOver, FinalSampleShort, Short, Signed, Noting
<1> QED
  BY <1>1, <1>2, <1>3, <1>4, <1>5, <1>6 DEF Next, Sampling

(* The sample a run ends with never shows an envelope that is not there,   *)
(* and each count in it is short by at most the number of the senders that *)
(* the run does not wait for: it is exact where there are none.            *)
THEOREM LastSampleShort == Spec => []FinalSampleShort
<1>1. Init => OverInv
  <2>1. Init => over = FALSE
    BY DEF Init
  <2> QED
    BY <2>1, InitDepth, InitGroup DEF OverInv, GroupInv, RunOver, FinalSampleShort
<1>2. OverInv /\ [Next]_vars => OverInv'
  BY NextDepth, NextGroup, NextOver DEF OverInv, GroupInv
<1>3. OverInv => FinalSampleShort
  BY DEF OverInv
<1> QED
  BY <1>1, <1>2, <1>3, PTL DEF Spec
=============================================================================
