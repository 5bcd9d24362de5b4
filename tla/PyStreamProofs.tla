---------------------------- MODULE PyStreamProofs ----------------------------
(***************************************************************************)
(* Proofs about PyStream: its types and what holds once the engine thread  *)
(* has exited, for every set of pieces and every capacity.                 *)
(***************************************************************************)
EXTENDS PyStream, FiniteSetTheorems, TLAPS

At == {"seed", "queued", "settled"} \cup Running
Stages == {"none", "flushed", "queued", "sending", "admit", "put", "slot", "attach", "send",
           "consume", "mark", "settled", "dropped"}

Types ==
  /\ gil \in Piece \cup {None} /\ borrowed \in Piece \cup {None}
  /\ dlock \in Group \cup {None} /\ hand \in Piece \cup Group \cup {None}
  /\ at \in [Piece -> At] /\ out \in [Piece -> SUBSET Piece] /\ stage \in [Group -> Stages]
  /\ slot \in SUBSET Piece /\ orphan \in SUBSET Piece /\ failed \in SUBSET Piece
  /\ rows \in SUBSET Piece /\ free \in Nat
  /\ queue \in Seq(Piece \cup Group) /\ Len(queue) <= Capacity
  /\ eng \in {"loop", "drain", "cancel", "end", "over", "outcome", "exited"}
  /\ shutdown \in BOOLEAN /\ rxOpen \in BOOLEAN /\ early \in BOOLEAN
  /\ chan \in Seq(Group) /\ Len(chan) <= Stream
  /\ con \in {"train", "recv", "join", "stop", "done"}
  /\ window \in SUBSET Group /\ yielded \in Seq(Group)

(* Who holds a lock is where its holder must be.                           *)
Locks ==
  /\ \A p \in Piece : /\ at[p] = "wrap" <=> borrowed = p
                      /\ at[p] = "push" => gil = p
                      /\ gil = p => at[p] \in {"push", "wrap"}
  /\ \A g \in Group : stage[g] \in {"put", "mark"} <=> dlock = g

(* A sequence has an element; it has every element once.                   *)
Has(s, x) == \E i \in 1..Len(s) : s[i] = x
OneEach(s) == \A i, j \in 1..Len(s) : s[i] = s[j] => i = j

(* The queue holds what is queued, each once, and not what was received.   *)
InQueue(x) == Has(queue, x)
Distinct == OneEach(queue)
Queued ==
  /\ Distinct /\ ~InQueue(hand)
  /\ \A p \in Piece : InQueue(p) \/ hand = p => at[p] = "queued"
  /\ \A g \in Group : InQueue(g) \/ hand = g <=> stage[g] = "queued"

(* A piece is in one place: not pushed yet, buffered, in a group a thread  *)
(* carries, or in a group that was emitted.                                *)
Unpushed(p) == at[p] \in {"seed", "queued", "spawned", "push"}
Carries(q) == at[q] \in {"wrap", "emit"}
Staged(g) == stage[g] # "none"
Parted ==
  /\ \A p \in Piece : Unpushed(p) => /\ p \notin rows
                                     /\ \A q \in Piece : Carries(q) => p \notin out[q]
                                     /\ \A g \in Group : Staged(g) => p \notin g
  /\ \A q \in Piece : Carries(q) =>
       /\ q \in out[q] /\ out[q] \cap rows = {}
       /\ \A r \in Piece \ {q} : Carries(r) => out[q] \cap out[r] = {}
       /\ \A g \in Group : Staged(g) => out[q] \cap g = {}
  /\ \A g \in Group : Staged(g) =>
       /\ g \cap rows = {}
       /\ \A h \in Group \ {g} : Staged(h) => g \cap h = {}
  /\ \A q \in Piece : at[q] = "blocked" =>
       /\ q \in out[q] /\ stage[out[q]] = "sending"
       /\ \A r \in Piece \ {q} : at[r] = "blocked" => out[q] # out[r]
  /\ \A g \in Group : stage[g] = "sending" => \E q \in Piece : at[q] = "blocked" /\ out[q] = g

(* Once the run has ended, only threads it did not wait for still move.    *)
Phases ==
  /\ \A p \in orphan : at[p] \in Running \cup {"settled"}
  /\ eng = "end" \/ Closed =>
       /\ hand = None
       /\ \A p \in Piece : at[p] = "settled" \/ p \in orphan
       /\ \A g \in Group : stage[g] \in {"none", "settled", "dropped", "sending", "queued"}
  /\ Closed => queue = <<>>
  /\ eng = "exited" => \A p \in Piece : at[p] \notin Running

(* Every permit is free, with a piece's task, or with a group's.           *)
Kept == {g \in Group : stage[g] \in {"admit", "put", "slot", "attach", "send", "consume", "mark"}}
Ledger ==
  /\ free + Cardinality(slot) + Cardinality(Kept) = Permits
  /\ \A p \in Piece : /\ at[p] = "spawned" => p \in slot
                      /\ p \in slot => at[p] \in Running

StreamInv == Types /\ Locks /\ Queued /\ Parted /\ Phases /\ Ledger

(* What became of every piece and every group, while no shutdown is asked. *)
Sent(g) == stage[g] \in {"consume", "mark", "settled"}
InChan(g) == Has(chan, g)
Given(g) == Has(yielded, g)

Ends ==
  /\ early = shutdown /\ (rxOpen <=> con \in {"train", "recv"}) /\ (shutdown => ~rxOpen)
  /\ ~shutdown => /\ eng \notin {"drain", "cancel"} /\ orphan = {}
                  /\ \A g \in Group : stage[g] # "dropped"
                  /\ eng # "loop" => rows = {} /\ \A g \in Group : stage[g] \in {"none", "settled"}
                  /\ ~rxOpen => Closed /\ chan = <<>>
                  /\ con = "done" => window = {}
Placed(p) ==
  \/ p \in rows
  \/ \E q \in Piece : Carries(q) /\ p \in out[q]
  \/ \E g \in Group : Staged(g) /\ p \in g
Pieces ==
  ~shutdown => \A p \in Piece :
    /\ p \in failed => at[p] = "settled"
    /\ at[p] = "fail" \/ p \in failed => ~Placed(p)
    /\ at[p] \in {"wrap", "emit", "blocked", "back", "settled"} /\ p \notin failed => Placed(p)
Delivered ==
  ~shutdown =>
    /\ OneEach(chan) /\ OneEach(yielded)
    /\ \A g \in Group : /\ Sent(g) <=> InChan(g) \/ g \in window \/ Given(g)
                        /\ ~(InChan(g) /\ g \in window) /\ ~(InChan(g) /\ Given(g))
                        /\ ~(g \in window /\ Given(g))
FlowInv == StreamInv /\ Ends /\ Pieces /\ Delivered

-----------------------------------------------------------------------------
(* The pieces and the groups that exist.                                   *)
LEMMA Names ==
  /\ IsFiniteSet(Piece) /\ IsFiniteSet(Group)
  /\ None \notin Piece /\ None \notin Group /\ \A g \in Group : g \notin Piece
  /\ \A g \in Group : g \subseteq Piece /\ g # {}
  /\ \A A \in SUBSET Piece : A # {} => A \in Group
  /\ {Capacity, Stream, Permits, GroupRows} \subseteq Nat \ {0}
  <1>1. IsFiniteSet(Group)
    BY StreamAssumption, FS_SUBSET, FS_Subset DEF Group
  <1> QED BY <1>1, StreamAssumption DEF Group

(* What the operations on sequences without repetition do.                 *)
LEMMA SeqAppends ==
  ASSUME NEW S, NEW s \in Seq(S), NEW x \in S, OneEach(s), ~Has(s, x)
  PROVE  OneEach(Append(s, x)) /\ \A y : Has(Append(s, x), y) <=> Has(s, y) \/ y = x
  <1> DEFINE t == Append(s, x)
  <1>1. /\ Len(s) \in Nat /\ Len(t) = Len(s) + 1 /\ t[Len(s) + 1] = x
        /\ \A i \in 1..Len(s) : t[i] = s[i]
    OBVIOUS
  <1>2. 1..Len(t) = 1..Len(s) \cup {Len(s) + 1}
    BY <1>1
  <1> HIDE DEF t
  <1>3. OneEach(t) /\ \A y : Has(t, y) <=> Has(s, y) \/ y = x
    BY <1>1, <1>2 DEF OneEach, Has
  <1> QED BY <1>3 DEF t

LEMMA SeqTails ==
  ASSUME NEW S, NEW s \in Seq(S), OneEach(s), s # <<>>
  PROVE  OneEach(Tail(s)) /\ \A y : Has(Tail(s), y) <=> Has(s, y) /\ y # Head(s)
  <1> DEFINE t == Tail(s)
  <1>1. /\ Len(s) \in Nat \ {0} /\ Len(t) = Len(s) - 1 /\ Head(s) = s[1]
        /\ \A i \in 1..Len(t) : t[i] = s[i + 1]
    OBVIOUS
  <1> HIDE DEF t
  <1>2. OneEach(t)
    <2> SUFFICES ASSUME NEW i \in 1..Len(t), NEW j \in 1..Len(t), t[i] = t[j]
                 PROVE  i = j
      BY DEF OneEach
    <2>1. i + 1 \in 1..Len(s) /\ j + 1 \in 1..Len(s) /\ s[i + 1] = s[j + 1]
      BY <1>1
    <2>2. i + 1 = j + 1
      BY <2>1 DEF OneEach
    <2> QED BY <1>1, <2>2
  <1>3. ASSUME NEW y, NEW i \in 1..Len(t), t[i] = y
        PROVE  Has(s, y) /\ y # Head(s)
    <2>1. i + 1 \in 1..Len(s) /\ s[i + 1] = y /\ i + 1 # 1 /\ 1 \in 1..Len(s)
      BY <1>1, <1>3
    <2> QED BY <1>1, <2>1 DEF Has, OneEach
  <1>4. ASSUME NEW y, NEW i \in 1..Len(s), s[i] = y, y # Head(s)
        PROVE  \E j \in 1..Len(t) : t[j] = y
    <2>1. i - 1 \in 1..Len(t) /\ t[i - 1] = y
      BY <1>1, <1>4
    <2> QED BY <2>1
  <1>5. OneEach(t) /\ \A y : Has(t, y) <=> Has(s, y) /\ y # Head(s)
    BY <1>2, <1>3, <1>4 DEF Has
  <1> QED BY <1>5 DEF t

LEMMA SeqJoins ==
  ASSUME NEW S, NEW s \in Seq(S), NEW t \in Seq(S), OneEach(s), OneEach(t),
         \A y : ~(Has(s, y) /\ Has(t, y))
  PROVE  OneEach(s \o t) /\ \A y : Has(s \o t, y) <=> Has(s, y) \/ Has(t, y)
  <1> DEFINE u == s \o t
  <1>1. /\ Len(s) \in Nat /\ Len(t) \in Nat /\ Len(u) = Len(s) + Len(t)
        /\ \A i \in 1..Len(u) : u[i] = IF i <= Len(s) THEN s[i] ELSE t[i - Len(s)]
    OBVIOUS
  <1> HIDE DEF u
  <1>2. OneEach(u)
    <2> SUFFICES ASSUME NEW i \in 1..Len(u), NEW j \in 1..Len(u), u[i] = u[j]
                 PROVE  i = j
      BY DEF OneEach
    <2>1. CASE i <= Len(s) /\ j <= Len(s)
      BY <1>1, <2>1 DEF OneEach
    <2>2. CASE i > Len(s) /\ j > Len(s)
      <3>1. i - Len(s) \in 1..Len(t) /\ j - Len(s) \in 1..Len(t)
            /\ t[i - Len(s)] = t[j - Len(s)]
        BY <1>1, <2>2
      <3>2. i - Len(s) = j - Len(s)
        BY <3>1 DEF OneEach
      <3> QED BY <1>1, <3>2
    <2>3. CASE i <= Len(s) /\ j > Len(s)
      <3>1. i \in 1..Len(s) /\ j - Len(s) \in 1..Len(t) /\ s[i] = t[j - Len(s)]
        BY <1>1, <2>3
      <3> QED BY <3>1 DEF Has
    <2>4. CASE i > Len(s) /\ j <= Len(s)
      <3>1. j \in 1..Len(s) /\ i - Len(s) \in 1..Len(t) /\ s[j] = t[i - Len(s)]
        BY <1>1, <2>4
      <3> QED BY <3>1 DEF Has
    <2> QED BY <1>1, <2>1, <2>2, <2>3, <2>4
  <1>3. ASSUME NEW y PROVE Has(u, y) <=> Has(s, y) \/ Has(t, y)
    <2>1. ASSUME NEW i \in 1..Len(u), u[i] = y PROVE Has(s, y) \/ Has(t, y)
      <3>1. CASE i <= Len(s)
        BY <1>1, <2>1, <3>1 DEF Has
      <3>2. CASE i > Len(s)
        <4>1. i - Len(s) \in 1..Len(t) /\ t[i - Len(s)] = y
          BY <1>1, <2>1, <3>2
        <4> QED BY <4>1 DEF Has
      <3> QED BY <1>1, <3>1, <3>2
    <2>2. ASSUME NEW i \in 1..Len(s), s[i] = y PROVE Has(u, y)
      <3>1. i \in 1..Len(u) /\ u[i] = y
        BY <1>1, <2>2
      <3> QED BY <3>1 DEF Has
    <2>3. ASSUME NEW i \in 1..Len(t), t[i] = y PROVE Has(u, y)
      <3>1. Len(s) + i \in 1..Len(u) /\ u[Len(s) + i] = y
        BY <1>1, <2>3
      <3> QED BY <3>1 DEF Has
    <2> QED BY <2>1, <2>2, <2>3 DEF Has
  <1>4. OneEach(u) /\ \A y : Has(u, y) <=> Has(s, y) \/ Has(t, y)
    BY <1>2, <1>3
  <1> QED BY <1>4 DEF u

(* SetToSeq lists the elements of a finite set, each once.                 *)
LEMMA Listed ==
  ASSUME NEW S, IsFiniteSet(S)
  PROVE  /\ SetToSeq(S) \in Seq(S)
         /\ OneEach(SetToSeq(S)) /\ \A x : Has(SetToSeq(S), x) <=> x \in S
  <1> DEFINE n == Cardinality(S)
  <1>1. n \in Nat /\ ExistsBijection(1..n, S)
    BY FS_CardinalityType
  <1>2. \E f \in [1..n -> S] : IsInjective(f)
    BY <1>1 DEF ExistsBijection, Bijection, Injection
  <1>3. SetToSeq(S) \in [1..n -> S] /\ IsInjective(SetToSeq(S))
    BY <1>2 DEF SetToSeq
  <1> HIDE DEF n
  <1>4. SetToSeq(S) \in Surjection(1..n, S)
    <2>1. Cardinality(1..n) = Cardinality(S)
      BY <1>1, FS_Interval DEF n
    <2>2. SetToSeq(S) \in Injection(1..n, S)
      BY <1>3 DEF Injection
    <2> QED BY <2>1, <2>2, FS_Injection
  <1>5. SetToSeq(S) \in Seq(S) /\ Len(SetToSeq(S)) = n
    BY <1>1, <1>3
  <1> QED BY <1>3, <1>4, <1>5 DEF Surjection, IsInjective, OneEach, Has

-----------------------------------------------------------------------------
(* The outcomes of the steps that have several.                            *)
CancelThread(p) ==
  /\ eng = "cancel" /\ at[p] \in Running
  /\ orphan' = orphan \cup {p}
  /\ UNCHANGED <<gil, at, slot, failed, out, rows, borrowed, stage, queue,
                 hand, free, dlock, eng, shutdown, chan, rxOpen, con, early,
                 window, yielded>>

CancelEarly(p) ==
  /\ eng = "cancel" /\ at[p] = "spawned" /\ p \notin orphan
  /\ at' = [at EXCEPT ![p] = "settled"]
  /\ slot' = slot \ {p} /\ free' = free + 1
  /\ UNCHANGED <<gil, orphan, failed, out, rows, borrowed, stage, queue,
                 hand, dlock, eng, shutdown, chan, rxOpen, con, early, window,
                 yielded>>

PushRaises(p) ==
  /\ at[p] = "push" /\ gil = p /\ borrowed # None
  /\ at' = [at EXCEPT ![p] = "fail"] /\ gil' = None
  /\ UNCHANGED <<slot, orphan, failed, out, rows, borrowed, stage, queue,
                 hand, free, dlock, eng, shutdown, chan, rxOpen, con, early,
                 window, yielded>>

PushFills(p) ==
  /\ at[p] = "push" /\ gil = p /\ borrowed = None
  /\ at' = [at EXCEPT ![p] = "wrap"] /\ borrowed' = p
  /\ rows' = {} /\ out' = [out EXCEPT ![p] = rows \cup {p}]
  /\ UNCHANGED <<gil, slot, orphan, failed, stage, queue, hand, free, dlock,
                 eng, shutdown, chan, rxOpen, con, early, window, yielded>>

PushJoins(p) ==
  /\ at[p] = "push" /\ gil = p /\ borrowed = None
  /\ at' = [at EXCEPT ![p] = "back"] /\ gil' = None
  /\ rows' = rows \cup {p}
  /\ UNCHANGED <<slot, orphan, failed, out, borrowed, stage, queue, hand,
                 free, dlock, eng, shutdown, chan, rxOpen, con, early, window,
                 yielded>>

EmitLate(p) ==
  /\ at[p] = "emit" /\ Closed /\ at' = [at EXCEPT ![p] = "fail"]
  /\ UNCHANGED <<gil, slot, orphan, failed, out, rows, borrowed, stage,
                 queue, hand, free, dlock, eng, shutdown, chan, rxOpen, con,
                 early, window, yielded>>

EmitFits(p) ==
  /\ at[p] = "emit" /\ ~Closed /\ Room /\ at' = [at EXCEPT ![p] = "back"]
  /\ queue' = Append(queue, out[p]) /\ stage' = [stage EXCEPT ![out[p]] = "queued"]
  /\ UNCHANGED <<gil, slot, orphan, failed, out, rows, borrowed, hand, free,
                 dlock, eng, shutdown, chan, rxOpen, con, early, window,
                 yielded>>

EmitWaits(p) ==
  /\ at[p] = "emit" /\ ~Closed /\ at' = [at EXCEPT ![p] = "blocked"]
  /\ stage' = [stage EXCEPT ![out[p]] = "sending"]
  /\ slot' = slot \ {p} /\ free' = IF p \in slot THEN free + 1 ELSE free
  /\ UNCHANGED <<gil, orphan, failed, out, rows, borrowed, queue, hand,
                 dlock, eng, shutdown, chan, rxOpen, con, early, window,
                 yielded>>

UnblockLate(p) ==
  /\ at[p] = "blocked" /\ Closed /\ at' = [at EXCEPT ![p] = "fail"]
  /\ stage' = [stage EXCEPT ![out[p]] = "dropped"]
  /\ UNCHANGED <<gil, slot, orphan, failed, out, rows, borrowed, queue, hand,
                 free, dlock, eng, shutdown, chan, rxOpen, con, early, window,
                 yielded>>

UnblockFits(p) ==
  /\ at[p] = "blocked" /\ ~Closed /\ Room /\ at' = [at EXCEPT ![p] = "back"]
  /\ queue' = Append(queue, out[p]) /\ stage' = [stage EXCEPT ![out[p]] = "queued"]
  /\ UNCHANGED <<gil, slot, orphan, failed, out, rows, borrowed, hand, free,
                 dlock, eng, shutdown, chan, rxOpen, con, early, window,
                 yielded>>

Admit(g) ==
  /\ hand = g /\ hand # None /\ free > 0
  /\ hand' = None /\ free' = free - 1
  /\ stage' = [stage EXCEPT ![g] = "admit"]
  /\ UNCHANGED <<gil, at, slot, orphan, failed, out, rows, borrowed, queue,
                 dlock, eng, shutdown, chan, rxOpen, con, early, window,
                 yielded>>

Spawn(p) ==
  /\ hand = p /\ hand # None /\ free > 0
  /\ hand' = None /\ free' = free - 1
  /\ at' = [at EXCEPT ![p] = "spawned"] /\ slot' = slot \cup {p}
  /\ UNCHANGED <<gil, orphan, failed, out, rows, borrowed, stage, queue,
                 dlock, eng, shutdown, chan, rxOpen, con, early, window,
                 yielded>>

DropPiece(p) ==
  /\ eng \in {"drain", "cancel"} /\ queue # <<>> /\ p = Head(queue)
  /\ queue' = Tail(queue) /\ at' = [at EXCEPT ![p] = "settled"]
  /\ UNCHANGED <<gil, slot, orphan, failed, out, rows, borrowed, stage, hand,
                 free, dlock, eng, shutdown, chan, rxOpen, con, early, window,
                 yielded>>

DropGroup(g) ==
  /\ eng \in {"drain", "cancel"} /\ queue # <<>> /\ g = Head(queue)
  /\ queue' = Tail(queue) /\ stage' = [stage EXCEPT ![g] = "dropped"]
  /\ UNCHANGED <<gil, at, slot, orphan, failed, out, rows, borrowed, hand,
                 free, dlock, eng, shutdown, chan, rxOpen, con, early, window,
                 yielded>>

Put(g) ==
  /\ stage[g] = "put" /\ gil = None
  /\ dlock' = None /\ stage' = [stage EXCEPT ![g] = "slot"]
  /\ UNCHANGED <<gil, at, slot, orphan, failed, out, rows, borrowed, queue,
                 hand, free, eng, shutdown, chan, rxOpen, con, early, window,
                 yielded>>

Mark(g) ==
  /\ stage[g] = "mark" /\ gil = None
  /\ dlock' = None /\ free' = free + 1
  /\ stage' = [stage EXCEPT ![g] = "settled"]
  /\ UNCHANGED <<gil, at, slot, orphan, failed, out, rows, borrowed, queue,
                 hand, eng, shutdown, chan, rxOpen, con, early, window,
                 yielded>>

GetSlot(g) ==
  /\ stage[g] = "slot" /\ stage' = [stage EXCEPT ![g] = "attach"]
  /\ UNCHANGED <<gil, at, slot, orphan, failed, out, rows, borrowed, queue,
                 hand, free, dlock, eng, shutdown, chan, rxOpen, con, early,
                 window, yielded>>

LoseSlot(g) ==
  /\ stage[g] = "slot" /\ eng = "cancel"
  /\ stage' = [stage EXCEPT ![g] = "dropped"] /\ free' = free + 1
  /\ UNCHANGED <<gil, at, slot, orphan, failed, out, rows, borrowed, queue,
                 hand, dlock, eng, shutdown, chan, rxOpen, con, early, window,
                 yielded>>

LEMMA CancelCases ==
  ASSUME StreamInv, NEW p \in Piece, Cancel(p)
  PROVE  CancelThread(p) \/ CancelEarly(p)
  BY DEF Cancel, CancelThread, CancelEarly, StreamInv, Types, Goto, Stage, worker, router,
     dispatch, handle, consumer

LEMMA PushCases ==
  ASSUME StreamInv, NEW p \in Piece, Push(p)
  PROVE  PushRaises(p) \/ PushFills(p) \/ PushJoins(p)
  BY Names DEF Push, PushRaises, PushFills, PushJoins, StreamInv, Types, Goto, Stage,
     worker, router, dispatch, handle, consumer

LEMMA EmitCases ==
  ASSUME StreamInv, NEW p \in Piece, Emit(p)
  PROVE  EmitLate(p) \/ EmitFits(p) \/ EmitWaits(p)
  <1> USE DEF Goto, Stage, worker, router, dispatch, handle, consumer
  <1>1. CASE Closed
    BY <1>1 DEF Emit, EmitLate
  <1>2. CASE ~Closed /\ Room
    BY <1>2 DEF Emit, EmitFits
  <1>3. CASE ~Closed /\ ~Room
    BY <1>3 DEF Emit, EmitWaits
  <1> QED BY <1>1, <1>2, <1>3

LEMMA UnblockCases ==
  ASSUME StreamInv, NEW p \in Piece, Unblock(p)
  PROVE  UnblockLate(p) \/ UnblockFits(p)
  BY DEF Unblock, UnblockLate, UnblockFits, StreamInv, Types, Goto, Stage, worker, router,
     dispatch, handle, consumer

LEMMA DispatchCases ==
  ASSUME StreamInv, Dispatch
  PROVE  (\E p \in Piece : Spawn(p)) \/ (\E g \in Group : Admit(g))
  <1>1. hand \in Piece \cup Group
    BY DEF Dispatch, StreamInv, Types
  <1>2. CASE hand \in Piece
    <2>1. Spawn(hand)
      BY <1>2 DEF Dispatch, Spawn, Goto, router, handle, consumer
    <2> QED BY <1>2, <2>1
  <1>3. CASE hand \notin Piece
    <2>1. Admit(hand)
      BY <1>3 DEF Dispatch, Admit, Stage, router, handle, consumer
    <2> QED BY <1>1, <1>3, <2>1
  <1> QED BY <1>2, <1>3

LEMMA DrainCases ==
  ASSUME StreamInv, DrainOne
  PROVE  (\E p \in Piece : DropPiece(p)) \/ (\E g \in Group : DropGroup(g))
  <1>1. Head(queue) \in Piece \cup Group
    BY DEF DrainOne, StreamInv, Types
  <1>2. CASE Head(queue) \in Piece
    <2>1. DropPiece(Head(queue))
      BY <1>2 DEF DrainOne, DropPiece, Goto, router, handle, consumer
    <2> QED BY <1>2, <2>1
  <1>3. CASE Head(queue) \notin Piece
    <2>1. DropGroup(Head(queue))
      BY <1>3 DEF DrainOne, DropGroup, Stage, router, handle, consumer
    <2> QED BY <1>1, <1>3, <2>1
  <1> QED BY <1>2, <1>3

LEMMA CallCases ==
  ASSUME StreamInv, NEW g \in Group, CallDataset(g)
  PROVE  Put(g) \/ Mark(g)
  BY DEF CallDataset, Put, Mark, StreamInv, Types, Goto, Stage, worker, router, dispatch,
     handle, consumer

LEMMA SlotCases ==
  ASSUME StreamInv, NEW g \in Group, TakeSlot(g)
  PROVE  GetSlot(g) \/ LoseSlot(g)
  BY DEF TakeSlot, GetSlot, LoseSlot, StreamInv, Types, Goto, Stage, worker, router,
     dispatch, handle, consumer

(* Every step, taken apart.                                                *)
PieceStep(p) ==
  \/ Feed(p) \/ CancelThread(p) \/ CancelEarly(p) \/ Enter(p) \/ PushRaises(p)
  \/ PushFills(p) \/ PushJoins(p) \/ Wrap(p) \/ EmitLate(p) \/ EmitFits(p) \/ EmitWaits(p)
  \/ UnblockLate(p) \/ UnblockFits(p) \/ Return(p) \/ LoseLock(p) \/ TakeLock(p)
  \/ Spawn(p) \/ DropPiece(p)
GroupStep(g) ==
  \/ FeedGroup(g) \/ CancelGroup(g) \/ LockDataset(g) \/ Put(g) \/ Mark(g) \/ GetSlot(g)
  \/ LoseSlot(g) \/ Attach(g) \/ Collect(g) \/ Admit(g) \/ DropGroup(g)
EngineStage == Observe \/ EndRun \/ Grace \/ SetOutcome \/ DropRuntime
Training == NextItem \/ StreamClosed \/ Join \/ Close

LEMMA StepCases ==
  ASSUME StreamInv, [Next]_vars
  PROVE  \/ Recv \/ Flush \/ DropEngine \/ EngineStage \/ Receive \/ Finish \/ Training
         \/ UNCHANGED vars
         \/ \E p \in Piece : PieceStep(p)
         \/ \E g \in Group : GroupStep(g)
  <1>1. ASSUME NEW p \in Piece, Feed(p) \/ Cancel(p) \/ Thread(p) \/ LoseLock(p) \/ TakeLock(p)
        PROVE  PieceStep(p)
    BY <1>1, CancelCases, PushCases, EmitCases, UnblockCases DEF Thread, PieceStep
  <1>2. ASSUME NEW g \in Group, FeedGroup(g) \/ CancelGroup(g) \/ Sink(g)
        PROVE  GroupStep(g)
    BY <1>2, CallCases, SlotCases DEF Sink, GroupStep
  <1>3. Dispatch \/ DrainOne => (\E p \in Piece : PieceStep(p)) \/ (\E g \in Group : GroupStep(g))
    BY DispatchCases, DrainCases DEF PieceStep, GroupStep
  <1> QED BY <1>1, <1>2, <1>3
       DEF Next, Engine, Reading, Threads, Regain, Sinks, EngineStage, Training

-----------------------------------------------------------------------------
(* Types.                                                                  *)
LEMMA CarriedIsGroup ==
  ASSUME StreamInv, NEW p \in Piece, at[p] \in {"wrap", "emit", "blocked"}
  PROVE  out[p] \in Group
  BY Names DEF StreamInv, Types, Parted, Carries

LEMMA PieceTypes ==
  ASSUME StreamInv, NEW p \in Piece, PieceStep(p)
  PROVE  Types'
  <1> USE Names DEF Types, Goto, Stage, At, Stages, Running, worker, router, dispatch,
          handle, consumer
  <1>1. Types
    BY DEF StreamInv
  <1>2. CASE Feed(p)
    BY <1>1, <1>2 DEF Feed, Room
  <1>3. CASE CancelThread(p)
    BY <1>1, <1>3 DEF CancelThread
  <1>4. CASE CancelEarly(p)
    BY <1>1, <1>4 DEF CancelEarly
  <1>5. CASE Enter(p)
    BY <1>1, <1>5 DEF Enter
  <1>6. CASE PushRaises(p)
    BY <1>1, <1>6 DEF PushRaises
  <1>7. CASE PushFills(p)
    BY <1>1, <1>7 DEF PushFills
  <1>8. CASE PushJoins(p)
    BY <1>1, <1>8 DEF PushJoins
  <1>9. CASE Wrap(p)
    BY <1>1, <1>9 DEF Wrap
  <1>10. CASE EmitLate(p)
    BY <1>1, <1>10 DEF EmitLate
  <1>11. CASE EmitFits(p)
    BY <1>1, <1>11, CarriedIsGroup DEF EmitFits, Room
  <1>12. CASE EmitWaits(p)
    BY <1>1, <1>12, CarriedIsGroup DEF EmitWaits, Room
  <1>13. CASE UnblockLate(p)
    BY <1>1, <1>13, CarriedIsGroup DEF UnblockLate, Room
  <1>14. CASE UnblockFits(p)
    BY <1>1, <1>14, CarriedIsGroup DEF UnblockFits, Room
  <1>15. CASE Return(p)
    BY <1>1, <1>15 DEF Return
  <1>16. CASE LoseLock(p)
    BY <1>1, <1>16 DEF LoseLock
  <1>17. CASE TakeLock(p)
    BY <1>1, <1>17 DEF TakeLock
  <1>18. CASE Spawn(p)
    BY <1>1, <1>18 DEF Spawn
  <1>19. CASE DropPiece(p)
    BY <1>1, <1>19 DEF DropPiece
  <1> QED BY <1>2, <1>3, <1>4, <1>5, <1>6, <1>7, <1>8, <1>9, <1>10, <1>11, <1>12, <1>13,
             <1>14, <1>15, <1>16, <1>17, <1>18, <1>19 DEF PieceStep

LEMMA GroupTypes ==
  ASSUME StreamInv, NEW g \in Group, GroupStep(g)
  PROVE  Types'
  <1> USE Names DEF Types, Goto, Stage, At, Stages, Running, worker, router, dispatch,
          handle, consumer
  <1>1. Types
    BY DEF StreamInv
  <1>2. CASE FeedGroup(g)
    BY <1>1, <1>2 DEF FeedGroup, Room
  <1>3. CASE CancelGroup(g)
    BY <1>1, <1>3 DEF CancelGroup
  <1>4. CASE LockDataset(g)
    BY <1>1, <1>4 DEF LockDataset
  <1>5. CASE Put(g)
    BY <1>1, <1>5 DEF Put
  <1>6. CASE Mark(g)
    BY <1>1, <1>6 DEF Mark
  <1>7. CASE GetSlot(g)
    BY <1>1, <1>7 DEF GetSlot
  <1>8. CASE LoseSlot(g)
    BY <1>1, <1>8 DEF LoseSlot
  <1>9. CASE Attach(g)
    BY <1>1, <1>9 DEF Attach
  <1>10. CASE Collect(g)
    BY <1>1, <1>10 DEF Collect
  <1>11. CASE Admit(g)
    BY <1>1, <1>11 DEF Admit
  <1>12. CASE DropGroup(g)
    BY <1>1, <1>12 DEF DropGroup
  <1> QED BY <1>2, <1>3, <1>4, <1>5, <1>6, <1>7, <1>8, <1>9, <1>10, <1>11, <1>12 DEF GroupStep

LEMMA NextTypes ==
  ASSUME StreamInv, [Next]_vars
  PROVE  Types'
  <1> USE Names DEF Types, Goto, Stage, At, Stages, Running, worker, router, dispatch,
          handle, consumer
  <1>1. Types
    BY DEF StreamInv
  <1>2. CASE Recv
    BY <1>1, <1>2 DEF Recv
  <1>3. CASE Flush
    BY <1>1, <1>3 DEF Flush
  <1>4. CASE DropEngine
    BY <1>1, <1>4 DEF DropEngine
  <1>5. CASE EngineStage
    BY <1>1, <1>5 DEF EngineStage, EngineStep, Observe, EndRun, Grace, SetOutcome, DropRuntime
  <1>6. CASE Receive
    <2>1. /\ chan # <<>> /\ chan' = Tail(chan) /\ con' = "train" /\ gil = None
          /\ UNCHANGED <<gil, worker, router, stage, dispatch, dlock, eng, shutdown, rxOpen, early>>
      BY <1>6 DEF Receive
    <2>2. Head(chan) \in Group /\ chan' \in Seq(Group) /\ Len(chan') <= Stream
      BY <1>1, <2>1
    <2>3. window' \in SUBSET Group /\ yielded' \in Seq(Group)
      <3> DEFINE all == window \cup {Head(chan)}
      <3>1. all \in SUBSET Group
        BY <1>1, <2>2
      <3>2. \/ window' = all /\ yielded' = yielded
            \/ \E g \in all : window' = all \ {g} /\ yielded' = Append(yielded, g)
        BY <1>6 DEF Receive
      <3>3. ASSUME NEW h \in all, window' = all \ {h}, yielded' = Append(yielded, h)
            PROVE  window' \in SUBSET Group /\ yielded' \in Seq(Group)
        BY <1>1, <3>1, <3>3
      <3>4. window' = all /\ yielded' = yielded => window' \in SUBSET Group /\ yielded' \in Seq(Group)
        BY <1>1, <3>1
      <3> HIDE DEF all
      <3> QED BY <3>2, <3>3, <3>4
    <2> QED BY <1>1, <2>1, <2>2, <2>3
  <1>7. CASE Finish
    <2>1. IsFiniteSet(window)
      BY <1>1, FS_Subset
    <2>2. SetToSeq(window) \in Seq(Group)
      BY <1>1, <2>1, Listed
    <2> QED BY <1>1, <1>7, <2>2 DEF Finish
  <1>8. CASE Training
    <2>1. CASE NextItem \/ Join
      BY <1>1, <2>1 DEF NextItem, Join
    <2>2. CASE StreamClosed
      BY <1>1, <2>2 DEF StreamClosed
    <2>3. CASE Close
      <3>1. /\ shutdown' = TRUE /\ rxOpen' = FALSE /\ chan' = <<>> /\ con' = "join" /\ early' = TRUE
            /\ UNCHANGED <<gil, worker, router, stage, dispatch, dlock, eng, window, yielded>>
        BY <2>3 DEF Close
      <3>2. chan' \in Seq(Group) /\ Len(chan') <= Stream
        BY <3>1
      <3> QED BY <1>1, <3>1, <3>2
    <2> QED BY <1>8, <2>1, <2>2, <2>3 DEF Training
  <1>9. CASE UNCHANGED vars
    BY <1>1, <1>9 DEF vars
  <1> QED BY StepCases, PieceTypes, GroupTypes, <1>2, <1>3, <1>4, <1>5, <1>6, <1>7, <1>8, <1>9

(* What leaves the queue or the dispatcher's hand was queued.              *)
LEMMA FromQueue ==
  ASSUME StreamInv
  PROVE  /\ queue # <<>> => InQueue(Head(queue))
         /\ ~InQueue(None)
         /\ \A p \in Piece : Spawn(p) \/ DropPiece(p) => at[p] = "queued"
         /\ \A g \in Group : Admit(g) \/ DropGroup(g) => stage[g] = "queued"
  <1>1. ASSUME queue # <<>> PROVE InQueue(Head(queue))
    <2>1. Len(queue) \in Nat /\ Len(queue) # 0 /\ Head(queue) = queue[1]
      BY <1>1 DEF StreamInv, Types
    <2>2. 1 \in 1..Len(queue)
      BY <2>1
    <2> QED BY <2>1, <2>2 DEF InQueue, Has
  <1>2. ~InQueue(None)
    <2>1. \A i \in 1..Len(queue) : queue[i] \in Piece \cup Group
      BY DEF StreamInv, Types
    <2> QED BY <2>1, Names DEF InQueue, Has
  <1> QED BY <1>1, <1>2 DEF StreamInv, Queued, Spawn, DropPiece, Admit, DropGroup

LEMMA NotYetStaged ==
  ASSUME StreamInv, NEW p \in Piece, at[p] = "emit"
  PROVE  out[p] \in Group /\ stage[out[p]] = "none"
  <1>1. out[p] \in Group /\ p \in out[p]
    BY CarriedIsGroup DEF StreamInv, Parted, Carries
  <1>2. Staged(out[p]) => out[p] \cap out[p] = {}
    BY <1>1 DEF StreamInv, Parted, Carries
  <1> QED BY <1>1, <1>2 DEF Staged

(* A step that only takes pieces and groups further parts them as before.  *)
LEMMA StillParted ==
  ASSUME StreamInv, rows' = rows, out' = out,
         \A p \in Piece : /\ Unpushed(p)' => Unpushed(p)
                          /\ Carries(p)' => Carries(p)
                          /\ at'[p] = "blocked" <=> at[p] = "blocked",
         \A g \in Group : /\ Staged(g)' => Staged(g)
                          /\ stage'[g] = "sending" <=> stage[g] = "sending"
  PROVE  Parted'
  <1>1. \A p \in Piece : Unpushed(p)' => /\ p \notin rows'
                                         /\ \A q \in Piece : Carries(q)' => p \notin out'[q]
                                         /\ \A g \in Group : Staged(g)' => p \notin g
    BY DEF StreamInv, Parted
  <1>2. \A q \in Piece : Carries(q)' =>
         /\ q \in out'[q] /\ out'[q] \cap rows' = {}
         /\ \A r \in Piece \ {q} : Carries(r)' => out'[q] \cap out'[r] = {}
         /\ \A g \in Group : Staged(g)' => out'[q] \cap g = {}
    BY DEF StreamInv, Parted
  <1>3. \A g \in Group : Staged(g)' =>
         /\ g \cap rows' = {}
         /\ \A h \in Group \ {g} : Staged(h)' => g \cap h = {}
    BY DEF StreamInv, Parted
  <1>4. /\ \A q \in Piece : at'[q] = "blocked" =>
             /\ q \in out'[q] /\ stage'[out'[q]] = "sending"
             /\ \A r \in Piece \ {q} : at'[r] = "blocked" => out'[q] # out'[r]
        /\ \A g \in Group : stage'[g] = "sending" => \E q \in Piece : at'[q] = "blocked" /\ out'[q] = g
    <2>1. \A q \in Piece : at[q] = "blocked" => out[q] \in Group
      BY CarriedIsGroup
    <2> QED BY <2>1 DEF StreamInv, Parted
  <1> QED BY <1>1, <1>2, <1>3, <1>4 DEF Parted

-----------------------------------------------------------------------------
(* Locks.                                                                  *)
LEMMA PieceLocks ==
  ASSUME StreamInv, NEW p \in Piece, PieceStep(p)
  PROVE  Locks'
  <1> USE Names DEF Locks, Types, Goto, Stage, worker, router, dispatch, handle, consumer
  <1>1. Types /\ Locks /\ Parted /\ Queued
    BY DEF StreamInv
  <1>2. CASE Feed(p)
    BY <1>1, <1>2 DEF Feed
  <1>3. CASE CancelThread(p)
    BY <1>1, <1>3 DEF CancelThread
  <1>4. CASE CancelEarly(p)
    BY <1>1, <1>4 DEF CancelEarly
  <1>5. CASE Enter(p)
    BY <1>1, <1>5 DEF Enter
  <1>6. CASE PushRaises(p)
    BY <1>1, <1>6 DEF PushRaises
  <1>7. CASE PushFills(p)
    BY <1>1, <1>7 DEF PushFills
  <1>8. CASE PushJoins(p)
    BY <1>1, <1>8 DEF PushJoins
  <1>9. CASE Wrap(p)
    BY <1>1, <1>9 DEF Wrap
  <1>10. CASE EmitLate(p)
    BY <1>1, <1>10 DEF EmitLate
  <1>11. CASE EmitFits(p)
    BY <1>1, <1>11, NotYetStaged DEF EmitFits
  <1>12. CASE EmitWaits(p)
    BY <1>1, <1>12, NotYetStaged DEF EmitWaits
  <1>13. CASE UnblockLate(p)
    BY <1>1, <1>13, CarriedIsGroup DEF UnblockLate, Parted
  <1>14. CASE UnblockFits(p)
    BY <1>1, <1>14, CarriedIsGroup DEF UnblockFits, Parted
  <1>15. CASE Return(p)
    BY <1>1, <1>15 DEF Return
  <1>16. CASE LoseLock(p)
    BY <1>1, <1>16 DEF LoseLock
  <1>17. CASE TakeLock(p)
    BY <1>1, <1>17 DEF TakeLock
  <1>18. CASE Spawn(p)
    BY <1>1, <1>18, FromQueue DEF Spawn
  <1>19. CASE DropPiece(p)
    BY <1>1, <1>19, FromQueue DEF DropPiece
  <1> QED BY <1>2, <1>3, <1>4, <1>5, <1>6, <1>7, <1>8, <1>9, <1>10, <1>11, <1>12, <1>13,
             <1>14, <1>15, <1>16, <1>17, <1>18, <1>19 DEF PieceStep

LEMMA GroupLocks ==
  ASSUME StreamInv, NEW g \in Group, GroupStep(g)
  PROVE  Locks'
  <1> USE Names DEF Locks, Types, Goto, Stage, worker, router, dispatch, handle, consumer
  <1>1. Types /\ Locks /\ Parted /\ Queued
    BY DEF StreamInv
  <1>2. CASE FeedGroup(g)
    BY <1>1, <1>2 DEF FeedGroup
  <1>3. CASE CancelGroup(g)
    BY <1>1, <1>3 DEF CancelGroup
  <1>4. CASE LockDataset(g)
    BY <1>1, <1>4 DEF LockDataset
  <1>5. CASE Put(g)
    BY <1>1, <1>5 DEF Put
  <1>6. CASE Mark(g)
    BY <1>1, <1>6 DEF Mark
  <1>7. CASE GetSlot(g)
    BY <1>1, <1>7 DEF GetSlot
  <1>8. CASE LoseSlot(g)
    BY <1>1, <1>8 DEF LoseSlot
  <1>9. CASE Attach(g)
    BY <1>1, <1>9 DEF Attach
  <1>10. CASE Collect(g)
    BY <1>1, <1>10 DEF Collect
  <1>11. CASE Admit(g)
    BY <1>1, <1>11, FromQueue DEF Admit
  <1>12. CASE DropGroup(g)
    BY <1>1, <1>12, FromQueue DEF DropGroup
  <1> QED BY <1>2, <1>3, <1>4, <1>5, <1>6, <1>7, <1>8, <1>9, <1>10, <1>11, <1>12 DEF GroupStep

LEMMA NextLocks ==
  ASSUME StreamInv, [Next]_vars
  PROVE  Locks'
  <1> USE Names DEF Locks, Types, Goto, Stage, worker, router, dispatch, handle, consumer
  <1>1. Types /\ Locks /\ Parted /\ Queued
    BY DEF StreamInv
  <1>2. CASE Recv
    BY <1>1, <1>2 DEF Recv
  <1>3. CASE Flush
    BY <1>1, <1>3 DEF Flush, Parted, Staged
  <1>4. CASE DropEngine
    BY <1>1, <1>4 DEF DropEngine, Queued, InQueue, Has
  <1>5. CASE EngineStage
    BY <1>1, <1>5 DEF EngineStage, EngineStep, Observe, EndRun, Grace, SetOutcome, DropRuntime
  <1>6. CASE Receive
    BY <1>1, <1>6 DEF Receive
  <1>7. CASE Finish
    BY <1>1, <1>7 DEF Finish
  <1>8. CASE Training
    BY <1>1, <1>8 DEF Training, NextItem, StreamClosed, Join, Close
  <1>9. CASE UNCHANGED vars
    BY <1>1, <1>9 DEF vars
  <1> QED BY StepCases, PieceLocks, GroupLocks, <1>2, <1>3, <1>4, <1>5, <1>6, <1>7, <1>8, <1>9

-----------------------------------------------------------------------------
(* The queue.                                                              *)
LEMMA Appends ==
  ASSUME Types, Distinct, NEW x \in Piece \cup Group, ~InQueue(x), queue' = Append(queue, x)
  PROVE  Distinct' /\ \A y : InQueue(y)' <=> InQueue(y) \/ y = x
  BY SeqAppends DEF Types, Distinct, InQueue

LEMMA Receives ==
  ASSUME Types, Distinct, queue # <<>>, queue' = Tail(queue)
  PROVE  Distinct' /\ \A y : InQueue(y)' <=> InQueue(y) /\ y # Head(queue)
  BY SeqTails DEF Types, Distinct, InQueue

LEMMA PieceQueued ==
  ASSUME StreamInv, NEW p \in Piece, PieceStep(p)
  PROVE  Queued'
  <1> USE Names DEF Queued, Types, Goto, Stage, worker, router, dispatch, handle, consumer
  <1>1. Types /\ Distinct /\ Queued /\ Parted /\ Phases
    BY DEF StreamInv, Queued
  <1>2. CASE Feed(p)
    <2>1. Distinct' /\ \A y : InQueue(y)' <=> InQueue(y) \/ y = p
      BY <1>1, <1>2, Appends DEF Feed
    <2> QED BY <1>1, <1>2, <2>1 DEF Feed
  <1>3. CASE CancelThread(p)
    <2>1. Distinct' /\ \A y : InQueue(y)' <=> InQueue(y)
      BY <1>1, <1>3 DEF CancelThread, InQueue, Distinct
    <2> QED BY <1>1, <1>3, <2>1 DEF CancelThread
  <1>4. CASE CancelEarly(p)
    <2>1. Distinct' /\ \A y : InQueue(y)' <=> InQueue(y)
      BY <1>1, <1>4 DEF CancelEarly, InQueue, Distinct
    <2> QED BY <1>1, <1>4, <2>1 DEF CancelEarly
  <1>5. CASE Enter(p)
    <2>1. Distinct' /\ \A y : InQueue(y)' <=> InQueue(y)
      BY <1>1, <1>5 DEF Enter, InQueue, Distinct
    <2> QED BY <1>1, <1>5, <2>1 DEF Enter
  <1>6. CASE PushRaises(p)
    <2>1. Distinct' /\ \A y : InQueue(y)' <=> InQueue(y)
      BY <1>1, <1>6 DEF PushRaises, InQueue, Distinct
    <2> QED BY <1>1, <1>6, <2>1 DEF PushRaises
  <1>7. CASE PushFills(p)
    <2>1. Distinct' /\ \A y : InQueue(y)' <=> InQueue(y)
      BY <1>1, <1>7 DEF PushFills, InQueue, Distinct
    <2> QED BY <1>1, <1>7, <2>1 DEF PushFills
  <1>8. CASE PushJoins(p)
    <2>1. Distinct' /\ \A y : InQueue(y)' <=> InQueue(y)
      BY <1>1, <1>8 DEF PushJoins, InQueue, Distinct
    <2> QED BY <1>1, <1>8, <2>1 DEF PushJoins
  <1>9. CASE Wrap(p)
    <2>1. Distinct' /\ \A y : InQueue(y)' <=> InQueue(y)
      BY <1>1, <1>9 DEF Wrap, InQueue, Distinct
    <2> QED BY <1>1, <1>9, <2>1 DEF Wrap
  <1>10. CASE EmitLate(p)
    <2>1. Distinct' /\ \A y : InQueue(y)' <=> InQueue(y)
      BY <1>1, <1>10 DEF EmitLate, InQueue, Distinct
    <2> QED BY <1>1, <1>10, <2>1 DEF EmitLate
  <1>11. CASE EmitFits(p)
    <2>1. Distinct' /\ \A y : InQueue(y)' <=> InQueue(y) \/ y = out[p]
      BY <1>1, <1>11, Appends, NotYetStaged DEF EmitFits
    <2> QED BY <1>1, <1>11, <2>1, NotYetStaged DEF EmitFits
  <1>12. CASE EmitWaits(p)
    <2>1. Distinct' /\ \A y : InQueue(y)' <=> InQueue(y)
      BY <1>1, <1>12 DEF EmitWaits, InQueue, Distinct
    <2> QED BY <1>1, <1>12, <2>1, NotYetStaged DEF EmitWaits
  <1>13. CASE UnblockLate(p)
    <2>1. Distinct' /\ \A y : InQueue(y)' <=> InQueue(y)
      BY <1>1, <1>13 DEF UnblockLate, Parted, InQueue, Distinct
    <2> QED BY <1>1, <1>13, <2>1, CarriedIsGroup DEF UnblockLate, Parted
  <1>14. CASE UnblockFits(p)
    <2>1. Distinct' /\ \A y : InQueue(y)' <=> InQueue(y) \/ y = out[p]
      BY <1>1, <1>14, Appends, CarriedIsGroup DEF UnblockFits, Parted
    <2> QED BY <1>1, <1>14, <2>1, CarriedIsGroup DEF UnblockFits, Parted
  <1>15. CASE Return(p)
    <2>1. Distinct' /\ \A y : InQueue(y)' <=> InQueue(y)
      BY <1>1, <1>15 DEF Return, InQueue, Distinct
    <2> QED BY <1>1, <1>15, <2>1 DEF Return
  <1>16. CASE LoseLock(p)
    <2>1. Distinct' /\ \A y : InQueue(y)' <=> InQueue(y)
      BY <1>1, <1>16 DEF LoseLock, InQueue, Distinct
    <2> QED BY <1>1, <1>16, <2>1 DEF LoseLock
  <1>17. CASE TakeLock(p)
    <2>1. Distinct' /\ \A y : InQueue(y)' <=> InQueue(y)
      BY <1>1, <1>17 DEF TakeLock, InQueue, Distinct
    <2> QED BY <1>1, <1>17, <2>1 DEF TakeLock
  <1>18. CASE Spawn(p)
    <2>1. Distinct' /\ \A y : InQueue(y)' <=> InQueue(y)
      BY <1>1, <1>18 DEF Spawn, InQueue, Distinct
    <2> QED BY <1>1, <1>18, <2>1, FromQueue DEF Spawn
  <1>19. CASE DropPiece(p)
    <2>1. Distinct' /\ \A y : InQueue(y)' <=> InQueue(y) /\ y # Head(queue)
      BY <1>1, <1>19, Receives DEF DropPiece
    <2> QED BY <1>1, <1>19, <2>1, FromQueue DEF DropPiece
  <1> QED BY <1>2, <1>3, <1>4, <1>5, <1>6, <1>7, <1>8, <1>9, <1>10, <1>11, <1>12, <1>13,
             <1>14, <1>15, <1>16, <1>17, <1>18, <1>19 DEF PieceStep

LEMMA GroupQueued ==
  ASSUME StreamInv, NEW g \in Group, GroupStep(g)
  PROVE  Queued'
  <1> USE Names DEF Queued, Types, Goto, Stage, worker, router, dispatch, handle, consumer
  <1>1. Types /\ Distinct /\ Queued /\ Parted /\ Phases
    BY DEF StreamInv, Queued
  <1>2. CASE FeedGroup(g)
    <2>1. Distinct' /\ \A y : InQueue(y)' <=> InQueue(y) \/ y = g
      BY <1>1, <1>2, Appends DEF FeedGroup
    <2> QED BY <1>1, <1>2, <2>1 DEF FeedGroup
  <1>3. CASE CancelGroup(g)
    <2>1. Distinct' /\ \A y : InQueue(y)' <=> InQueue(y)
      BY <1>1, <1>3 DEF CancelGroup, InQueue, Distinct
    <2> QED BY <1>1, <1>3, <2>1 DEF CancelGroup
  <1>4. CASE LockDataset(g)
    <2>1. Distinct' /\ \A y : InQueue(y)' <=> InQueue(y)
      BY <1>1, <1>4 DEF LockDataset, InQueue, Distinct
    <2> QED BY <1>1, <1>4, <2>1 DEF LockDataset
  <1>5. CASE Put(g)
    <2>1. Distinct' /\ \A y : InQueue(y)' <=> InQueue(y)
      BY <1>1, <1>5 DEF Put, InQueue, Distinct
    <2> QED BY <1>1, <1>5, <2>1 DEF Put
  <1>6. CASE Mark(g)
    <2>1. Distinct' /\ \A y : InQueue(y)' <=> InQueue(y)
      BY <1>1, <1>6 DEF Mark, InQueue, Distinct
    <2> QED BY <1>1, <1>6, <2>1 DEF Mark
  <1>7. CASE GetSlot(g)
    <2>1. Distinct' /\ \A y : InQueue(y)' <=> InQueue(y)
      BY <1>1, <1>7 DEF GetSlot, InQueue, Distinct
    <2> QED BY <1>1, <1>7, <2>1 DEF GetSlot
  <1>8. CASE LoseSlot(g)
    <2>1. Distinct' /\ \A y : InQueue(y)' <=> InQueue(y)
      BY <1>1, <1>8 DEF LoseSlot, InQueue, Distinct
    <2> QED BY <1>1, <1>8, <2>1 DEF LoseSlot
  <1>9. CASE Attach(g)
    <2>1. Distinct' /\ \A y : InQueue(y)' <=> InQueue(y)
      BY <1>1, <1>9 DEF Attach, InQueue, Distinct
    <2> QED BY <1>1, <1>9, <2>1 DEF Attach
  <1>10. CASE Collect(g)
    <2>1. Distinct' /\ \A y : InQueue(y)' <=> InQueue(y)
      BY <1>1, <1>10 DEF Collect, InQueue, Distinct
    <2> QED BY <1>1, <1>10, <2>1 DEF Collect
  <1>11. CASE Admit(g)
    <2>1. Distinct' /\ \A y : InQueue(y)' <=> InQueue(y)
      BY <1>1, <1>11 DEF Admit, InQueue, Distinct
    <2> QED BY <1>1, <1>11, <2>1, FromQueue DEF Admit
  <1>12. CASE DropGroup(g)
    <2>1. Distinct' /\ \A y : InQueue(y)' <=> InQueue(y) /\ y # Head(queue)
      BY <1>1, <1>12, Receives DEF DropGroup
    <2> QED BY <1>1, <1>12, <2>1, FromQueue DEF DropGroup
  <1> QED BY <1>2, <1>3, <1>4, <1>5, <1>6, <1>7, <1>8, <1>9, <1>10, <1>11, <1>12 DEF GroupStep

LEMMA NextQueued ==
  ASSUME StreamInv, [Next]_vars
  PROVE  Queued'
  <1> USE Names DEF Queued, Types, Goto, Stage, worker, router, dispatch, handle, consumer
  <1>1. Types /\ Distinct /\ Queued /\ Parted /\ Phases
    BY DEF StreamInv, Queued
  <1>2. CASE Recv
    <2>1. Distinct' /\ \A y : InQueue(y)' <=> InQueue(y) /\ y # Head(queue)
      BY <1>1, <1>2, Receives DEF Recv
    <2> QED BY <1>1, <1>2, <2>1, FromQueue DEF Recv
  <1>3. CASE Flush
    <2>1. Distinct' /\ \A y : InQueue(y)' <=> InQueue(y)
      BY <1>1, <1>3 DEF Flush, Parted, Staged, InQueue, Distinct
    <2> QED BY <1>1, <1>3, <2>1 DEF Flush, Parted, Staged
  <1>4. CASE DropEngine
    <2>1. Distinct' /\ \A y : ~InQueue(y)'
      BY <1>4 DEF DropEngine, InQueue, Has, Distinct, OneEach
    <2>2. DOMAIN queue = 1..Len(queue) /\ hand = None
      BY <1>1, <1>4 DEF DropEngine, Phases
    <2> QED BY <1>1, <1>4, <2>1, <2>2 DEF DropEngine, InQueue, Has
  <1>5. CASE EngineStage
    <2>1. Distinct' /\ \A y : InQueue(y)' <=> InQueue(y)
      BY <1>1, <1>5 DEF EngineStage, EngineStep, Observe, EndRun, Grace, SetOutcome,
         DropRuntime, InQueue, Distinct
    <2> QED BY <1>1, <1>5, <2>1 DEF EngineStage, EngineStep, Observe, EndRun, Grace,
               SetOutcome, DropRuntime
  <1>6. CASE Receive
    <2>1. Distinct' /\ \A y : InQueue(y)' <=> InQueue(y)
      BY <1>1, <1>6 DEF Receive, InQueue, Distinct
    <2> QED BY <1>1, <1>6, <2>1 DEF Receive
  <1>7. CASE Finish
    <2>1. Distinct' /\ \A y : InQueue(y)' <=> InQueue(y)
      BY <1>1, <1>7 DEF Finish, InQueue, Distinct
    <2> QED BY <1>1, <1>7, <2>1 DEF Finish
  <1>8. CASE Training
    <2>1. Distinct' /\ \A y : InQueue(y)' <=> InQueue(y)
      BY <1>1, <1>8 DEF Training, NextItem, StreamClosed, Join, Close, InQueue, Distinct
    <2> QED BY <1>1, <1>8, <2>1 DEF Training, NextItem, StreamClosed, Join, Close
  <1>9. CASE UNCHANGED vars
    BY <1>1, <1>9 DEF vars, InQueue, Distinct
  <1> QED BY StepCases, PieceQueued, GroupQueued, <1>2, <1>3, <1>4, <1>5, <1>6, <1>7, <1>8, <1>9

-----------------------------------------------------------------------------
(* The pieces.                                                             *)
LEMMA PieceParted ==
  ASSUME StreamInv, NEW p \in Piece, PieceStep(p)
  PROVE  Parted'
  <1> USE Names DEF Parted, Carries, Staged, Unpushed, Types, Goto, Stage, worker, router,
          dispatch, handle, consumer
  <1>1. Types /\ Parted /\ Queued /\ Phases
    BY DEF StreamInv
  <1>2. CASE Feed(p)
    BY <1>1, <1>2, StillParted DEF Feed
  <1>3. CASE CancelThread(p)
    BY <1>1, <1>3, StillParted DEF CancelThread
  <1>4. CASE CancelEarly(p)
    BY <1>1, <1>4, StillParted DEF CancelEarly
  <1>5. CASE Enter(p)
    BY <1>1, <1>5, StillParted DEF Enter
  <1>6. CASE PushRaises(p)
    BY <1>1, <1>6, StillParted DEF PushRaises
  <1>7. CASE PushFills(p)
    BY <1>1, <1>7 DEF PushFills
  <1>8. CASE PushJoins(p)
    BY <1>1, <1>8 DEF PushJoins
  <1>9. CASE Wrap(p)
    BY <1>1, <1>9, StillParted DEF Wrap
  <1>10. CASE EmitLate(p)
    BY <1>1, <1>10, StillParted DEF EmitLate
  <1>11. CASE EmitFits(p)
    BY <1>1, <1>11, NotYetStaged DEF EmitFits
  <1>12. CASE EmitWaits(p)
    BY <1>1, <1>12, NotYetStaged DEF EmitWaits
  <1>13. CASE UnblockLate(p)
    BY <1>1, <1>13, CarriedIsGroup DEF UnblockLate
  <1>14. CASE UnblockFits(p)
    BY <1>1, <1>14, CarriedIsGroup DEF UnblockFits
  <1>15. CASE Return(p)
    BY <1>1, <1>15, StillParted DEF Return
  <1>16. CASE LoseLock(p)
    BY <1>1, <1>16, StillParted DEF LoseLock
  <1>17. CASE TakeLock(p)
    BY <1>1, <1>17, StillParted DEF TakeLock
  <1>18. CASE Spawn(p)
    <2>1. at[p] = "queued"
      BY <1>18, FromQueue
    <2> QED BY <1>1, <1>18, <2>1, StillParted DEF Spawn
  <1>19. CASE DropPiece(p)
    <2>1. at[p] = "queued"
      BY <1>19, FromQueue
    <2> QED BY <1>1, <1>19, <2>1, StillParted DEF DropPiece
  <1> QED BY <1>2, <1>3, <1>4, <1>5, <1>6, <1>7, <1>8, <1>9, <1>10, <1>11, <1>12, <1>13,
             <1>14, <1>15, <1>16, <1>17, <1>18, <1>19 DEF PieceStep

LEMMA GroupParted ==
  ASSUME StreamInv, NEW g \in Group, GroupStep(g)
  PROVE  Parted'
  <1> USE Names DEF Parted, Carries, Staged, Unpushed, Types, Goto, Stage, worker, router,
          dispatch, handle, consumer
  <1>1. Types /\ Parted /\ Queued /\ Phases
    BY DEF StreamInv
  <1>2. CASE FeedGroup(g)
    BY <1>1, <1>2, StillParted DEF FeedGroup
  <1>3. CASE CancelGroup(g)
    BY <1>1, <1>3, StillParted DEF CancelGroup
  <1>4. CASE LockDataset(g)
    BY <1>1, <1>4, StillParted DEF LockDataset
  <1>5. CASE Put(g)
    BY <1>1, <1>5, StillParted DEF Put
  <1>6. CASE Mark(g)
    BY <1>1, <1>6, StillParted DEF Mark
  <1>7. CASE GetSlot(g)
    BY <1>1, <1>7, StillParted DEF GetSlot
  <1>8. CASE LoseSlot(g)
    BY <1>1, <1>8, StillParted DEF LoseSlot
  <1>9. CASE Attach(g)
    BY <1>1, <1>9, StillParted DEF Attach
  <1>10. CASE Collect(g)
    BY <1>1, <1>10, StillParted DEF Collect
  <1>11. CASE Admit(g)
    <2>1. stage[g] = "queued"
      BY <1>11, FromQueue
    <2> QED BY <1>1, <1>11, <2>1, StillParted DEF Admit
  <1>12. CASE DropGroup(g)
    <2>1. stage[g] = "queued"
      BY <1>12, FromQueue
    <2> QED BY <1>1, <1>12, <2>1, StillParted DEF DropGroup
  <1> QED BY <1>2, <1>3, <1>4, <1>5, <1>6, <1>7, <1>8, <1>9, <1>10, <1>11, <1>12 DEF GroupStep

LEMMA NextParted ==
  ASSUME StreamInv, [Next]_vars
  PROVE  Parted'
  <1> USE Names DEF Parted, Carries, Staged, Unpushed, Types, Goto, Stage, worker, router,
          dispatch, handle, consumer
  <1>1. Types /\ Parted /\ Queued /\ Phases
    BY DEF StreamInv
  <1>2. CASE Recv
    BY <1>1, <1>2, StillParted DEF Recv
  <1>3. CASE Flush
    BY <1>1, <1>3 DEF Flush
  <1>4. CASE DropEngine
    <2>1. \A g \in Group : stage'[g] # stage[g] => stage[g] = "queued" /\ stage'[g] = "dropped"
      <3>1. DOMAIN queue = 1..Len(queue)
        BY <1>1
      <3> QED BY <1>1, <1>4, <3>1 DEF DropEngine, Queued, InQueue, Has
    <2> QED BY <1>1, <1>4, <2>1, StillParted DEF DropEngine
  <1>5. CASE EngineStage
    BY <1>1, <1>5, StillParted DEF EngineStage, EngineStep, Observe, EndRun, Grace,
       SetOutcome, DropRuntime
  <1>6. CASE Receive
    BY <1>1, <1>6, StillParted DEF Receive
  <1>7. CASE Finish
    BY <1>1, <1>7, StillParted DEF Finish
  <1>8. CASE Training
    BY <1>1, <1>8, StillParted DEF Training, NextItem, StreamClosed, Join, Close
  <1>9. CASE UNCHANGED vars
    BY <1>1, <1>9 DEF vars
  <1> QED BY StepCases, PieceParted, GroupParted, <1>2, <1>3, <1>4, <1>5, <1>6, <1>7, <1>8, <1>9

-----------------------------------------------------------------------------
(* The phases of the engine.                                               *)
LEMMA PiecePhases ==
  ASSUME StreamInv, NEW p \in Piece, PieceStep(p)
  PROVE  Phases'
  <1> USE Names DEF Phases, Closed, Running, Types, Goto, Stage, worker, router, dispatch,
          handle, consumer
  <1>1. Types /\ Phases /\ Queued
    BY DEF StreamInv
  <1>2. CASE Feed(p)
    BY <1>1, <1>2 DEF Feed
  <1>3. CASE CancelThread(p)
    BY <1>1, <1>3 DEF CancelThread
  <1>4. CASE CancelEarly(p)
    BY <1>1, <1>4 DEF CancelEarly
  <1>5. CASE Enter(p)
    BY <1>1, <1>5 DEF Enter
  <1>6. CASE PushRaises(p)
    BY <1>1, <1>6 DEF PushRaises
  <1>7. CASE PushFills(p)
    BY <1>1, <1>7 DEF PushFills
  <1>8. CASE PushJoins(p)
    BY <1>1, <1>8 DEF PushJoins
  <1>9. CASE Wrap(p)
    BY <1>1, <1>9 DEF Wrap
  <1>10. CASE EmitLate(p)
    BY <1>1, <1>10 DEF EmitLate
  <1>11. CASE EmitFits(p)
    BY <1>1, <1>11, NotYetStaged DEF EmitFits
  <1>12. CASE EmitWaits(p)
    BY <1>1, <1>12, NotYetStaged DEF EmitWaits
  <1>13. CASE UnblockLate(p)
    BY <1>1, <1>13, CarriedIsGroup DEF UnblockLate
  <1>14. CASE UnblockFits(p)
    BY <1>1, <1>14, CarriedIsGroup DEF UnblockFits
  <1>15. CASE Return(p)
    BY <1>1, <1>15 DEF Return
  <1>16. CASE LoseLock(p)
    BY <1>1, <1>16 DEF LoseLock
  <1>17. CASE TakeLock(p)
    BY <1>1, <1>17 DEF TakeLock
  <1>18. CASE Spawn(p)
    <2>1. at[p] = "queued"
      BY <1>18, FromQueue
    <2> QED BY <1>1, <1>18, <2>1 DEF Spawn
  <1>19. CASE DropPiece(p)
    <2>1. at[p] = "queued"
      BY <1>19, FromQueue
    <2> QED BY <1>1, <1>19, <2>1 DEF DropPiece
  <1> QED BY <1>2, <1>3, <1>4, <1>5, <1>6, <1>7, <1>8, <1>9, <1>10, <1>11, <1>12, <1>13,
             <1>14, <1>15, <1>16, <1>17, <1>18, <1>19 DEF PieceStep

LEMMA GroupPhases ==
  ASSUME StreamInv, NEW g \in Group, GroupStep(g)
  PROVE  Phases'
  <1> USE Names DEF Phases, Closed, Running, Types, Goto, Stage, worker, router, dispatch,
          handle, consumer
  <1>1. Types /\ Phases /\ Queued
    BY DEF StreamInv
  <1>2. CASE FeedGroup(g)
    BY <1>1, <1>2 DEF FeedGroup
  <1>3. CASE CancelGroup(g)
    BY <1>1, <1>3 DEF CancelGroup
  <1>4. CASE LockDataset(g)
    BY <1>1, <1>4 DEF LockDataset
  <1>5. CASE Put(g)
    BY <1>1, <1>5 DEF Put
  <1>6. CASE Mark(g)
    BY <1>1, <1>6 DEF Mark
  <1>7. CASE GetSlot(g)
    BY <1>1, <1>7 DEF GetSlot
  <1>8. CASE LoseSlot(g)
    BY <1>1, <1>8 DEF LoseSlot
  <1>9. CASE Attach(g)
    BY <1>1, <1>9 DEF Attach
  <1>10. CASE Collect(g)
    BY <1>1, <1>10 DEF Collect
  <1>11. CASE Admit(g)
    <2>1. stage[g] = "queued"
      BY <1>11, FromQueue
    <2> QED BY <1>1, <1>11, <2>1 DEF Admit
  <1>12. CASE DropGroup(g)
    <2>1. stage[g] = "queued"
      BY <1>12, FromQueue
    <2> QED BY <1>1, <1>12, <2>1 DEF DropGroup
  <1> QED BY <1>2, <1>3, <1>4, <1>5, <1>6, <1>7, <1>8, <1>9, <1>10, <1>11, <1>12 DEF GroupStep

LEMMA NextPhases ==
  ASSUME StreamInv, [Next]_vars
  PROVE  Phases'
  <1> USE Names DEF Phases, Closed, Running, Types, Goto, Stage, worker, router, dispatch,
          handle, consumer
  <1>1. Types /\ Phases /\ Queued
    BY DEF StreamInv
  <1>2. CASE Recv
    BY <1>1, <1>2 DEF Recv
  <1>3. CASE Flush
    BY <1>1, <1>3 DEF Flush
  <1>4. CASE DropEngine
    <2>1. DOMAIN queue = 1..Len(queue)
      BY <1>1
    <2>2. hand = None /\ \A g \in Group : stage[g] = "queued" => \E i \in DOMAIN queue : queue[i] = g
      <3>1. hand = None
        BY <1>1, <1>4 DEF DropEngine
      <3>2. \A g \in Group : stage[g] = "queued" => InQueue(g)
        BY <1>1, <3>1 DEF Queued
      <3> QED BY <2>1, <3>1, <3>2 DEF InQueue, Has
    <2>3. stage' = [g \in Group |-> IF \E i \in DOMAIN queue : queue[i] = g THEN "dropped" ELSE stage[g]]
      BY <1>4 DEF DropEngine
    <2>4. \A g \in Group : stage[g] \in {"none", "settled", "dropped", "sending", "queued"}
      BY <1>1, <1>4 DEF DropEngine
    <2>5. \A g \in Group : stage'[g] \in {"none", "settled", "dropped", "sending"}
      BY <2>2, <2>3, <2>4
    <2> QED BY <1>1, <1>4, <2>2, <2>5 DEF DropEngine
  <1>5. CASE EngineStage
    <2> USE DEF EngineStep
    <2>1. CASE Observe \/ Grace \/ SetOutcome
      BY <1>1, <2>1 DEF Observe, Grace, SetOutcome
    <2>2. CASE EndRun
      <3>1. /\ hand = None /\ \A p \in Piece \ orphan : at[p] = "settled"
            /\ \A g \in Group : stage[g] \in {"none", "settled", "dropped"}
        BY <2>2 DEF EndRun, Quiet, LiveTasks
      <3> QED BY <1>1, <2>2, <3>1 DEF EndRun
    <2>3. CASE DropRuntime
      BY <1>1, <2>3 DEF DropRuntime
    <2> QED BY <1>5, <2>1, <2>2, <2>3 DEF EngineStage
  <1>6. CASE Receive
    BY <1>1, <1>6 DEF Receive
  <1>7. CASE Finish
    BY <1>1, <1>7 DEF Finish
  <1>8. CASE Training
    BY <1>1, <1>8 DEF Training, NextItem, StreamClosed, Join, Close
  <1>9. CASE UNCHANGED vars
    BY <1>1, <1>9 DEF vars
  <1> QED BY StepCases, PiecePhases, GroupPhases, <1>2, <1>3, <1>4, <1>5, <1>6, <1>7, <1>8, <1>9

-----------------------------------------------------------------------------
(* The permits.                                                            *)
Books == free + Cardinality(slot) + Cardinality(Kept) = Permits
Slots == \A p \in Piece : /\ at[p] = "spawned" => p \in slot
                          /\ p \in slot => at[p] \in Running

(* One permit moves between the free ones and a set of holders.            *)
Moves(H, new, x) == \/ x \notin H /\ new = H \cup {x} /\ free' = free - 1
                    \/ x \in H /\ new = H \ {x} /\ free' = free + 1

LEMMA BooksBalance ==
  ASSUME Types, Books,
         \/ free' = free /\ slot' = slot /\ Kept' = Kept
         \/ Kept' = Kept /\ \E p : Moves(slot, slot', p)
         \/ slot' = slot /\ \E g : Moves(Kept, Kept', g)
  PROVE  Books'
  <1>1. IsFiniteSet(slot) /\ IsFiniteSet(Kept)
    <2>1. Kept \in SUBSET Group /\ slot \in SUBSET Piece
      BY DEF Kept, Types
    <2> QED BY <2>1, Names, FS_Subset
  <1>2. Cardinality(slot) \in Nat /\ Cardinality(Kept) \in Nat /\ free \in Nat /\ Permits \in Nat
    BY <1>1, FS_CardinalityType, Names DEF Types
  <1>3. CASE free' = free /\ slot' = slot /\ Kept' = Kept
    BY <1>3 DEF Books
  <1>4. ASSUME NEW p, Kept' = Kept, Moves(slot, slot', p)
        PROVE  Books'
    <2>1. \/ Cardinality(slot') = Cardinality(slot) + 1 /\ free' = free - 1
          \/ Cardinality(slot') = Cardinality(slot) - 1 /\ free' = free + 1
      BY <1>1, <1>4, FS_AddElement, FS_RemoveElement DEF Moves
    <2> QED BY <1>2, <1>4, <2>1 DEF Books
  <1>5. ASSUME NEW g, slot' = slot, Moves(Kept, Kept', g)
        PROVE  Books'
    <2>1. \/ Cardinality(Kept') = Cardinality(Kept) + 1 /\ free' = free - 1
          \/ Cardinality(Kept') = Cardinality(Kept) - 1 /\ free' = free + 1
      BY <1>1, <1>5, FS_AddElement, FS_RemoveElement DEF Moves
    <2> QED BY <1>2, <1>5, <2>1 DEF Books
  <1> QED BY <1>3, <1>4, <1>5

LEMMA PieceLedger ==
  ASSUME StreamInv, NEW p \in Piece, PieceStep(p)
  PROVE  Books' /\ Slots'
  <1> USE Names DEF Types, Goto, Stage, worker, router, dispatch, handle, consumer
  <1>1. Types /\ Books /\ Slots /\ Parted /\ Phases
    BY DEF StreamInv, Ledger, Books, Slots
  <1>2. CASE Feed(p)
    <2>1. Kept' = Kept /\ free' = free /\ slot' = slot
      BY <1>1, <1>2 DEF Kept, Slots, Feed
    <2>2. Slots'
      BY <1>1, <1>2 DEF Slots, Running, Feed
    <2> QED BY <1>1, <2>1, <2>2, BooksBalance
  <1>3. CASE CancelThread(p)
    <2>1. Kept' = Kept /\ free' = free /\ slot' = slot
      BY <1>1, <1>3 DEF Kept, Slots, CancelThread
    <2>2. Slots'
      BY <1>1, <1>3 DEF Slots, Running, CancelThread
    <2> QED BY <1>1, <2>1, <2>2, BooksBalance
  <1>4. CASE CancelEarly(p)
    <2>1. Kept' = Kept /\ Moves(slot, slot', p)
      BY <1>1, <1>4 DEF Kept, Slots, Moves, CancelEarly
    <2>2. Slots'
      BY <1>1, <1>4 DEF Slots, Running, CancelEarly
    <2> QED BY <1>1, <2>1, <2>2, BooksBalance
  <1>5. CASE Enter(p)
    <2>1. Kept' = Kept /\ free' = free /\ slot' = slot
      BY <1>1, <1>5 DEF Kept, Slots, Enter
    <2>2. Slots'
      BY <1>1, <1>5 DEF Slots, Running, Enter
    <2> QED BY <1>1, <2>1, <2>2, BooksBalance
  <1>6. CASE PushRaises(p)
    <2>1. Kept' = Kept /\ free' = free /\ slot' = slot
      BY <1>1, <1>6 DEF Kept, Slots, PushRaises
    <2>2. Slots'
      BY <1>1, <1>6 DEF Slots, Running, PushRaises
    <2> QED BY <1>1, <2>1, <2>2, BooksBalance
  <1>7. CASE PushFills(p)
    <2>1. Kept' = Kept /\ free' = free /\ slot' = slot
      BY <1>1, <1>7 DEF Kept, Slots, PushFills
    <2>2. Slots'
      BY <1>1, <1>7 DEF Slots, Running, PushFills
    <2> QED BY <1>1, <2>1, <2>2, BooksBalance
  <1>8. CASE PushJoins(p)
    <2>1. Kept' = Kept /\ free' = free /\ slot' = slot
      BY <1>1, <1>8 DEF Kept, Slots, PushJoins
    <2>2. Slots'
      BY <1>1, <1>8 DEF Slots, Running, PushJoins
    <2> QED BY <1>1, <2>1, <2>2, BooksBalance
  <1>9. CASE Wrap(p)
    <2>1. Kept' = Kept /\ free' = free /\ slot' = slot
      BY <1>1, <1>9 DEF Kept, Slots, Wrap
    <2>2. Slots'
      BY <1>1, <1>9 DEF Slots, Running, Wrap
    <2> QED BY <1>1, <2>1, <2>2, BooksBalance
  <1>10. CASE EmitLate(p)
    <2>1. Kept' = Kept /\ free' = free /\ slot' = slot
      BY <1>1, <1>10 DEF Kept, Slots, EmitLate
    <2>2. Slots'
      BY <1>1, <1>10 DEF Slots, Running, EmitLate
    <2> QED BY <1>1, <2>1, <2>2, BooksBalance
  <1>11. CASE EmitFits(p)
    <2>1. out[p] \in Group /\ stage[out[p]] = "none"
      BY <1>11, NotYetStaged DEF EmitFits
    <2>2. Kept' = Kept /\ free' = free /\ slot' = slot
      BY <1>1, <1>11, <2>1 DEF Kept, Slots, EmitFits
    <2>3. Slots'
      BY <1>1, <1>11, <2>1 DEF Slots, Running, EmitFits
    <2> QED BY <1>1, <2>2, <2>3, BooksBalance
  <1>12. CASE EmitWaits(p)
    <2>1. out[p] \in Group /\ stage[out[p]] = "none"
      BY <1>12, NotYetStaged DEF EmitWaits
    <2>2. Kept' = Kept /\ (Moves(slot, slot', p) \/ (free' = free /\ slot' = slot))
      BY <1>1, <1>12, <2>1 DEF Kept, Slots, Moves, EmitWaits
    <2>3. Slots'
      BY <1>1, <1>12, <2>1 DEF Slots, Running, EmitWaits
    <2> QED BY <1>1, <2>2, <2>3, BooksBalance
  <1>13. CASE UnblockLate(p)
    <2>1. out[p] \in Group /\ stage[out[p]] = "sending"
      BY <1>13, <1>1, CarriedIsGroup DEF Parted, UnblockLate
    <2>2. Kept' = Kept /\ free' = free /\ slot' = slot
      BY <1>1, <1>13, <2>1 DEF Kept, Slots, UnblockLate
    <2>3. Slots'
      BY <1>1, <1>13, <2>1 DEF Slots, Running, UnblockLate
    <2> QED BY <1>1, <2>2, <2>3, BooksBalance
  <1>14. CASE UnblockFits(p)
    <2>1. out[p] \in Group /\ stage[out[p]] = "sending"
      BY <1>14, <1>1, CarriedIsGroup DEF Parted, UnblockFits
    <2>2. Kept' = Kept /\ free' = free /\ slot' = slot
      BY <1>1, <1>14, <2>1 DEF Kept, Slots, UnblockFits
    <2>3. Slots'
      BY <1>1, <1>14, <2>1 DEF Slots, Running, UnblockFits
    <2> QED BY <1>1, <2>2, <2>3, BooksBalance
  <1>15. CASE Return(p)
    <2>1. Kept' = Kept /\ (Moves(slot, slot', p) \/ (free' = free /\ slot' = slot))
      BY <1>1, <1>15 DEF Kept, Slots, Moves, Return
    <2>2. Slots'
      BY <1>1, <1>15 DEF Slots, Running, Return
    <2> QED BY <1>1, <2>1, <2>2, BooksBalance
  <1>16. CASE LoseLock(p)
    <2>1. Kept' = Kept /\ free' = free /\ slot' = slot
      BY <1>1, <1>16 DEF Kept, Slots, LoseLock
    <2>2. Slots'
      BY <1>1, <1>16 DEF Slots, Running, LoseLock
    <2> QED BY <1>1, <2>1, <2>2, BooksBalance
  <1>17. CASE TakeLock(p)
    <2>1. Kept' = Kept /\ free' = free /\ slot' = slot
      BY <1>1, <1>17 DEF Kept, Slots, TakeLock
    <2>2. Slots'
      BY <1>1, <1>17 DEF Slots, Running, TakeLock
    <2> QED BY <1>1, <2>1, <2>2, BooksBalance
  <1>18. CASE Spawn(p)
    <2>1. at[p] = "queued"
      BY <1>18, FromQueue
    <2>2. Kept' = Kept /\ Moves(slot, slot', p)
      BY <1>1, <1>18, <2>1 DEF Kept, Slots, Running, Moves, Spawn
    <2>3. Slots'
      BY <1>1, <1>18, <2>1 DEF Slots, Running, Spawn
    <2> QED BY <1>1, <2>2, <2>3, BooksBalance
  <1>19. CASE DropPiece(p)
    <2>1. at[p] = "queued"
      BY <1>19, FromQueue
    <2>2. Kept' = Kept /\ free' = free /\ slot' = slot
      BY <1>1, <1>19, <2>1 DEF Kept, Slots, DropPiece
    <2>3. Slots'
      BY <1>1, <1>19, <2>1 DEF Slots, Running, DropPiece
    <2> QED BY <1>1, <2>2, <2>3, BooksBalance
  <1> QED BY <1>2, <1>3, <1>4, <1>5, <1>6, <1>7, <1>8, <1>9, <1>10, <1>11, <1>12, <1>13,
             <1>14, <1>15, <1>16, <1>17, <1>18, <1>19 DEF PieceStep

LEMMA GroupLedger ==
  ASSUME StreamInv, NEW g \in Group, GroupStep(g)
  PROVE  Books' /\ Slots'
  <1> USE Names DEF Types, Goto, Stage, worker, router, dispatch, handle, consumer
  <1>1. Types /\ Books /\ Slots /\ Parted /\ Phases
    BY DEF StreamInv, Ledger, Books, Slots
  <1>2. CASE FeedGroup(g)
    <2>1. Kept' = Kept /\ free' = free /\ slot' = slot
      BY <1>1, <1>2 DEF Kept, Slots, FeedGroup
    <2>2. Slots'
      BY <1>1, <1>2 DEF Slots, Running, FeedGroup
    <2> QED BY <1>1, <2>1, <2>2, BooksBalance
  <1>3. CASE CancelGroup(g)
    <2>1. slot' = slot /\ Moves(Kept, Kept', g)
      BY <1>1, <1>3 DEF Kept, Slots, Moves, CancelGroup
    <2>2. Slots'
      BY <1>1, <1>3 DEF Slots, Running, CancelGroup
    <2> QED BY <1>1, <2>1, <2>2, BooksBalance
  <1>4. CASE LockDataset(g)
    <2>1. Kept' = Kept /\ free' = free /\ slot' = slot
      BY <1>1, <1>4 DEF Kept, Slots, LockDataset
    <2>2. Slots'
      BY <1>1, <1>4 DEF Slots, Running, LockDataset
    <2> QED BY <1>1, <2>1, <2>2, BooksBalance
  <1>5. CASE Put(g)
    <2>1. Kept' = Kept /\ free' = free /\ slot' = slot
      BY <1>1, <1>5 DEF Kept, Slots, Put
    <2>2. Slots'
      BY <1>1, <1>5 DEF Slots, Running, Put
    <2> QED BY <1>1, <2>1, <2>2, BooksBalance
  <1>6. CASE Mark(g)
    <2>1. slot' = slot /\ Moves(Kept, Kept', g)
      BY <1>1, <1>6 DEF Kept, Slots, Moves, Mark
    <2>2. Slots'
      BY <1>1, <1>6 DEF Slots, Running, Mark
    <2> QED BY <1>1, <2>1, <2>2, BooksBalance
  <1>7. CASE GetSlot(g)
    <2>1. Kept' = Kept /\ free' = free /\ slot' = slot
      BY <1>1, <1>7 DEF Kept, Slots, GetSlot
    <2>2. Slots'
      BY <1>1, <1>7 DEF Slots, Running, GetSlot
    <2> QED BY <1>1, <2>1, <2>2, BooksBalance
  <1>8. CASE LoseSlot(g)
    <2>1. slot' = slot /\ Moves(Kept, Kept', g)
      BY <1>1, <1>8 DEF Kept, Slots, Moves, LoseSlot
    <2>2. Slots'
      BY <1>1, <1>8 DEF Slots, Running, LoseSlot
    <2> QED BY <1>1, <2>1, <2>2, BooksBalance
  <1>9. CASE Attach(g)
    <2>1. Kept' = Kept /\ free' = free /\ slot' = slot
      BY <1>1, <1>9 DEF Kept, Slots, Attach
    <2>2. Slots'
      BY <1>1, <1>9 DEF Slots, Running, Attach
    <2> QED BY <1>1, <2>1, <2>2, BooksBalance
  <1>10. CASE Collect(g)
    <2>1. Kept' = Kept /\ free' = free /\ slot' = slot
      BY <1>1, <1>10 DEF Kept, Slots, Collect
    <2>2. Slots'
      BY <1>1, <1>10 DEF Slots, Running, Collect
    <2> QED BY <1>1, <2>1, <2>2, BooksBalance
  <1>11. CASE Admit(g)
    <2>1. stage[g] = "queued"
      BY <1>11, FromQueue
    <2>2. slot' = slot /\ Moves(Kept, Kept', g)
      BY <1>1, <1>11, <2>1 DEF Kept, Slots, Moves, Admit
    <2>3. Slots'
      BY <1>1, <1>11, <2>1 DEF Slots, Running, Admit
    <2> QED BY <1>1, <2>2, <2>3, BooksBalance
  <1>12. CASE DropGroup(g)
    <2>1. stage[g] = "queued"
      BY <1>12, FromQueue
    <2>2. Kept' = Kept /\ free' = free /\ slot' = slot
      BY <1>1, <1>12, <2>1 DEF Kept, Slots, DropGroup
    <2>3. Slots'
      BY <1>1, <1>12, <2>1 DEF Slots, Running, DropGroup
    <2> QED BY <1>1, <2>2, <2>3, BooksBalance
  <1> QED BY <1>2, <1>3, <1>4, <1>5, <1>6, <1>7, <1>8, <1>9, <1>10, <1>11, <1>12 DEF GroupStep

LEMMA NextLedger ==
  ASSUME StreamInv, [Next]_vars
  PROVE  Books' /\ Slots'
  <1> USE Names DEF Types, Goto, Stage, worker, router, dispatch, handle, consumer
  <1>1. Types /\ Books /\ Slots /\ Parted /\ Phases
    BY DEF StreamInv, Ledger, Books, Slots
  <1>2. CASE Recv
    <2>1. Kept' = Kept /\ free' = free /\ slot' = slot
      BY <1>1, <1>2 DEF Kept, Slots, Recv
    <2>2. Slots'
      BY <1>1, <1>2 DEF Slots, Running, Recv
    <2> QED BY <1>1, <2>1, <2>2, BooksBalance
  <1>3. CASE Flush
    <2>1. rows \in Group /\ stage[rows] = "none"
      BY <1>3, <1>1, Names DEF Flush, Parted, Staged
    <2>2. Kept' = Kept /\ free' = free /\ slot' = slot
      BY <1>1, <1>3, <2>1 DEF Kept, Slots, Flush
    <2>3. Slots'
      BY <1>1, <1>3, <2>1 DEF Slots, Running, Flush
    <2> QED BY <1>1, <2>2, <2>3, BooksBalance
  <1>4. CASE DropEngine
    <2>1. \A g \in Group : stage[g] \in {"none", "settled", "dropped", "sending", "queued"}
      BY <1>4, <1>1 DEF DropEngine, Phases
    <2>2. Kept' = Kept /\ free' = free /\ slot' = slot
      BY <1>1, <1>4, <2>1 DEF Kept, Slots, DropEngine
    <2>3. Slots'
      BY <1>1, <1>4, <2>1 DEF Slots, Running, DropEngine
    <2> QED BY <1>1, <2>2, <2>3, BooksBalance
  <1>5. CASE EngineStage
    <2>1. Kept' = Kept /\ free' = free /\ slot' = slot
      BY <1>1, <1>5 DEF Kept, Slots, EngineStage, EngineStep, Observe, EndRun, Grace,
         SetOutcome, DropRuntime
    <2>2. Slots'
      BY <1>1, <1>5 DEF Slots, Running, EngineStage, EngineStep, Observe, EndRun, Grace,
         SetOutcome, DropRuntime
    <2> QED BY <1>1, <2>1, <2>2, BooksBalance
  <1>6. CASE Receive
    <2>1. Kept' = Kept /\ free' = free /\ slot' = slot
      BY <1>1, <1>6 DEF Kept, Slots, Receive
    <2>2. Slots'
      BY <1>1, <1>6 DEF Slots, Running, Receive
    <2> QED BY <1>1, <2>1, <2>2, BooksBalance
  <1>7. CASE Finish
    <2>1. Kept' = Kept /\ free' = free /\ slot' = slot
      BY <1>1, <1>7 DEF Kept, Slots, Finish
    <2>2. Slots'
      BY <1>1, <1>7 DEF Slots, Running, Finish
    <2> QED BY <1>1, <2>1, <2>2, BooksBalance
  <1>8. CASE Training
    <2>1. Kept' = Kept /\ free' = free /\ slot' = slot
      BY <1>1, <1>8 DEF Kept, Slots, Training, NextItem, StreamClosed, Join, Close
    <2>2. Slots'
      BY <1>1, <1>8 DEF Slots, Running, Training, NextItem, StreamClosed, Join, Close
    <2> QED BY <1>1, <2>1, <2>2, BooksBalance
  <1>9. CASE UNCHANGED vars
    BY <1>1, <1>9 DEF vars, Books, Kept, Slots
  <1> QED BY StepCases, PieceLedger, GroupLedger, <1>2, <1>3, <1>4, <1>5, <1>6, <1>7, <1>8, <1>9

-----------------------------------------------------------------------------
LEMMA InitStreams ==
  ASSUME Init
  PROVE  StreamInv
  <1>1. Types
    <2>1. queue \in Seq(Piece \cup Group) /\ Len(queue) <= Capacity
      BY Names DEF Init
    <2>2. chan \in Seq(Group) /\ Len(chan) <= Stream /\ yielded \in Seq(Group)
      BY Names DEF Init
    <2>3. free \in Nat
      BY Names DEF Init
    <2> QED BY <2>1, <2>2, <2>3 DEF Init, Types, At, Stages
  <1>2. Locks
    BY Names DEF Init, Locks
  <1>3. Queued
    <2>1. Len(queue) = 0
      BY DEF Init
    <2> QED BY <2>1, Names DEF Init, Queued, Distinct, OneEach, InQueue, Has
  <1>4. Parted
    BY DEF Init, Parted, Unpushed, Carries, Staged
  <1>5. Phases
    BY DEF Init, Phases, Closed
  <1>6. Ledger
    <2>1. Kept = {} /\ slot = {} /\ free = Permits
      BY DEF Init, Kept
    <2> QED BY <2>1, FS_EmptySet, Names DEF Init, Ledger
  <1> QED BY <1>1, <1>2, <1>3, <1>4, <1>5, <1>6 DEF StreamInv

LEMMA NextStreams ==
  ASSUME StreamInv, [Next]_vars
  PROVE  StreamInv'
  <1>1. Ledger'
    BY NextLedger DEF Ledger, Books, Slots
  <1> QED BY <1>1, NextTypes, NextLocks, NextQueued, NextParted, NextPhases DEF StreamInv

(* Locks, queue and permits of a stream stay consistent in every step.     *)
THEOREM Streams == Spec => []StreamInv
  <1>1. Init => StreamInv
    BY InitStreams
  <1>2. StreamInv /\ [Next]_vars => StreamInv'
    BY NextStreams
  <1> QED BY <1>1, <1>2, PTL DEF Spec

(* TypeOK, for every set of pieces and every capacity: neither the queue   *)
(* nor the channel is ever overfull, and there are never more permits than *)
(* the engine has (Emitter::enqueue, CollectorSink, RunSlot).              *)
THEOREM StreamTypes == Spec => []TypeOK
  <1>1. StreamInv => TypeOK
    <2> SUFFICES ASSUME StreamInv PROVE TypeOK
      OBVIOUS
    <2>1. Types /\ free + Cardinality(slot) + Cardinality(Kept) = Permits
      BY DEF StreamInv, Ledger
    <2>2. Cardinality(slot) \in Nat /\ Cardinality(Kept) \in Nat
      <3>1. slot \in SUBSET Piece /\ Kept \in SUBSET Group
        BY <2>1 DEF Types, Kept
      <3> QED BY <3>1, Names, FS_Subset, FS_CardinalityType
    <2>3. free \in 0..Permits
      BY <2>1, <2>2, Names DEF Types
    <2> QED BY <2>1, <2>3 DEF Types, TypeOK, At
  <1> QED BY <1>1, Streams, PTL

(* CleanExit, for every set of pieces and every capacity: whatever was     *)
(* cancelled, and whenever the threads that the run did not wait for made  *)
(* their last emission, the engine thread exits with every permit back, no *)
(* lock held and no group half way (RunSlot, Emitter::enqueue,             *)
(* join_thread).                                                           *)
THEOREM ExitsClean == Spec => []CleanExit
  <1>1. StreamInv => CleanExit
    <2> SUFFICES ASSUME StreamInv, eng = "exited"
                 PROVE  /\ free = Permits /\ slot = {} /\ queue = <<>>
                        /\ {gil, borrowed, dlock, hand} = {None}
                        /\ \A p \in Piece : at[p] = "settled"
                        /\ \A g \in Group : stage[g] \in {"none", "settled", "dropped"}
      BY DEF CleanExit
    <2>1. Types /\ Locks /\ Queued /\ Parted /\ Phases /\ Ledger /\ Closed
      BY DEF StreamInv, Closed
    <2>2. \A p \in Piece : at[p] = "settled"
      BY <2>1 DEF Phases
    <2>3. hand = None /\ queue = <<>>
      BY <2>1 DEF Phases
    <2>4. slot = {}
      BY <2>1, <2>2 DEF Ledger, Running, Types
    <2>5. gil = None /\ borrowed = None
      BY <2>1, <2>2 DEF Locks, Types
    <2>6. \A g \in Group : stage[g] \in {"none", "settled", "dropped"}
      <3> TAKE g \in Group
      <3>1. stage[g] \in {"none", "settled", "dropped", "sending", "queued"}
        BY <2>1 DEF Phases
      <3>2. stage[g] # "sending"
        BY <2>1, <2>2 DEF Parted
      <3>3. stage[g] # "queued"
        <4>1. ~InQueue(g)
          BY <2>3 DEF InQueue, Has
        <4> QED BY <2>1, <2>3, <4>1, Names DEF Queued
      <3> QED BY <3>1, <3>2, <3>3
    <2>7. dlock = None
      BY <2>1, <2>6 DEF Locks, Types
    <2>8. Kept = {}
      BY <2>6 DEF Kept
    <2>9. free = Permits
      BY <2>1, <2>4, <2>8, FS_EmptySet, Names DEF Ledger, Types
    <2> QED BY <2>2, <2>3, <2>4, <2>5, <2>6, <2>7, <2>9
  <1> QED BY <1>1, Streams, PTL

-----------------------------------------------------------------------------
(* Delivery.  While no shutdown is asked, a run that has ended left nothing *)
(* undone.                                                                 *)
LEMMA Idle ==
  ASSUME FlowInv, ~shutdown, eng # "loop"
  PROVE  /\ \A p \in Piece : at[p] = "settled"
         /\ \A g \in Group : stage[g] \in {"none", "settled"}
         /\ rows = {}
  <1>1. /\ (eng = "end" \/ Closed) /\ orphan = {} /\ rows = {}
        /\ \A g \in Group : stage[g] \in {"none", "settled"}
    BY DEF FlowInv, StreamInv, Types, Ends, Closed
  <1> QED BY <1>1 DEF FlowInv, StreamInv, Phases

LEMMA PieceEnds ==
  ASSUME FlowInv, NEW p \in Piece, PieceStep(p)
  PROVE  Ends'
  <1> USE Names DEF Ends, Closed, Types, Goto, Stage, worker, router, dispatch, handle, consumer
  <1>1. StreamInv /\ Types /\ Ends /\ Phases /\ Queued
    BY DEF FlowInv, StreamInv
  <1>2. ~shutdown /\ eng # "loop" => /\ \A q \in Piece : at[q] = "settled"
                                      /\ \A h \in Group : stage[h] \in {"none", "settled"}
    BY Idle
  <1>3. CASE Feed(p)
    BY <1>1, <1>2, <1>3 DEF Feed
  <1>4. CASE CancelThread(p)
    BY <1>1, <1>2, <1>4 DEF CancelThread
  <1>5. CASE CancelEarly(p)
    BY <1>1, <1>2, <1>5 DEF CancelEarly
  <1>6. CASE Enter(p)
    BY <1>1, <1>2, <1>6 DEF Enter
  <1>7. CASE PushRaises(p)
    BY <1>1, <1>2, <1>7 DEF PushRaises
  <1>8. CASE PushFills(p)
    BY <1>1, <1>2, <1>8 DEF PushFills
  <1>9. CASE PushJoins(p)
    BY <1>1, <1>2, <1>9 DEF PushJoins
  <1>10. CASE Wrap(p)
    BY <1>1, <1>2, <1>10 DEF Wrap
  <1>11. CASE EmitLate(p)
    BY <1>1, <1>2, <1>11 DEF EmitLate
  <1>12. CASE EmitFits(p)
    BY <1>1, <1>2, <1>12, CarriedIsGroup DEF EmitFits
  <1>13. CASE EmitWaits(p)
    BY <1>1, <1>2, <1>13, CarriedIsGroup DEF EmitWaits
  <1>14. CASE UnblockLate(p)
    BY <1>1, <1>2, <1>14, CarriedIsGroup DEF UnblockLate
  <1>15. CASE UnblockFits(p)
    BY <1>1, <1>2, <1>15, CarriedIsGroup DEF UnblockFits
  <1>16. CASE Return(p)
    BY <1>1, <1>2, <1>16 DEF Return
  <1>17. CASE LoseLock(p)
    BY <1>1, <1>2, <1>17 DEF LoseLock
  <1>18. CASE TakeLock(p)
    BY <1>1, <1>2, <1>18 DEF TakeLock
  <1>19. CASE Spawn(p)
    <2>1. at[p] = "queued"
      BY <1>1, <1>19, FromQueue
    <2> QED BY <1>1, <1>2, <1>19, <2>1 DEF Spawn
  <1>20. CASE DropPiece(p)
    <2>1. at[p] = "queued"
      BY <1>1, <1>20, FromQueue
    <2> QED BY <1>1, <1>2, <1>20, <2>1 DEF DropPiece
  <1> QED BY <1>3, <1>4, <1>5, <1>6, <1>7, <1>8, <1>9, <1>10, <1>11, <1>12, <1>13, <1>14,
             <1>15, <1>16, <1>17, <1>18, <1>19, <1>20 DEF PieceStep

LEMMA GroupEnds ==
  ASSUME FlowInv, NEW g \in Group, GroupStep(g)
  PROVE  Ends'
  <1> USE Names DEF Ends, Closed, Types, Goto, Stage, worker, router, dispatch, handle, consumer
  <1>1. StreamInv /\ Types /\ Ends /\ Phases /\ Queued
    BY DEF FlowInv, StreamInv
  <1>2. ~shutdown /\ eng # "loop" => /\ \A q \in Piece : at[q] = "settled"
                                      /\ \A h \in Group : stage[h] \in {"none", "settled"}
    BY Idle
  <1>3. CASE FeedGroup(g)
    BY <1>1, <1>2, <1>3 DEF FeedGroup
  <1>4. CASE CancelGroup(g)
    BY <1>1, <1>2, <1>4 DEF CancelGroup
  <1>5. CASE LockDataset(g)
    BY <1>1, <1>2, <1>5 DEF LockDataset
  <1>6. CASE Put(g)
    BY <1>1, <1>2, <1>6 DEF Put
  <1>7. CASE Mark(g)
    BY <1>1, <1>2, <1>7 DEF Mark
  <1>8. CASE GetSlot(g)
    BY <1>1, <1>2, <1>8 DEF GetSlot
  <1>9. CASE LoseSlot(g)
    BY <1>1, <1>2, <1>9 DEF LoseSlot
  <1>10. CASE Attach(g)
    BY <1>1, <1>2, <1>10 DEF Attach
  <1>11. CASE Collect(g)
    BY <1>1, <1>2, <1>11 DEF Collect
  <1>12. CASE Admit(g)
    <2>1. stage[g] = "queued"
      BY <1>1, <1>12, FromQueue
    <2> QED BY <1>1, <1>2, <1>12, <2>1 DEF Admit
  <1>13. CASE DropGroup(g)
    <2>1. stage[g] = "queued"
      BY <1>1, <1>13, FromQueue
    <2> QED BY <1>1, <1>2, <1>13, <2>1 DEF DropGroup
  <1> QED BY <1>3, <1>4, <1>5, <1>6, <1>7, <1>8, <1>9, <1>10, <1>11, <1>12, <1>13 DEF GroupStep

LEMMA NextEnds ==
  ASSUME FlowInv, [Next]_vars
  PROVE  Ends'
  <1> USE Names DEF Ends, Closed, Types, Goto, Stage, worker, router, dispatch, handle, consumer
  <1>1. StreamInv /\ Types /\ Ends /\ Phases /\ Queued
    BY DEF FlowInv, StreamInv
  <1>2. ~shutdown /\ eng # "loop" => /\ \A q \in Piece : at[q] = "settled"
                                      /\ \A h \in Group : stage[h] \in {"none", "settled"}
    BY Idle
  <1>3. CASE Recv
    BY <1>1, <1>2, <1>3 DEF Recv
  <1>4. CASE Flush
    BY <1>1, <1>2, <1>4 DEF Flush
  <1>5. CASE DropEngine
    <2>1. DOMAIN queue = 1..Len(queue)
      BY <1>1
    <2>2. \A g \in Group : InQueue(g) => stage[g] = "queued"
      BY <1>1 DEF Queued
    <2>3. stage' = [g \in Group |-> IF InQueue(g) THEN "dropped" ELSE stage[g]]
      BY <1>5, <2>1 DEF DropEngine, InQueue, Has
    <2>4. ~shutdown => \A g \in Group : stage'[g] = stage[g]
      BY <1>2, <1>5, <2>2, <2>3 DEF DropEngine
    <2> QED BY <1>1, <1>2, <1>5, <2>4 DEF DropEngine
  <1>6. CASE EngineStage
    <2> USE DEF EngineStep
    <2>1. CASE Observe \/ Grace \/ SetOutcome \/ DropRuntime
      BY <1>1, <1>2, <2>1 DEF Observe, Grace, SetOutcome, DropRuntime
    <2>2. CASE EndRun
      <3>1. \A g \in Group : stage[g] \in {"none", "settled", "dropped"}
        BY <2>2 DEF EndRun, Quiet, LiveTasks
      <3> QED BY <1>1, <2>2, <3>1 DEF EndRun
    <2> QED BY <1>6, <2>1, <2>2 DEF EngineStage
  <1>7. CASE Receive
    <2>1. /\ rxOpen /\ con' = "train"
          /\ UNCHANGED <<worker, router, stage, eng, shutdown, rxOpen, early>>
      BY <1>1, <1>7 DEF Receive
    <2> QED BY <1>1, <2>1
  <1>8. CASE Finish
    BY <1>1, <1>2, <1>8 DEF Finish
  <1>9. CASE Training
    <2>1. CASE NextItem \/ Join
      BY <1>1, <2>1 DEF NextItem, Join
    <2>2. CASE StreamClosed
      BY <1>1, <2>2 DEF StreamClosed
    <2>3. CASE Close
      BY <1>1, <2>3 DEF Close
    <2> QED BY <1>9, <2>1, <2>2, <2>3 DEF Training
  <1>10. CASE UNCHANGED vars
    BY <1>1, <1>10 DEF vars
  <1> QED BY StepCases, PieceEnds, GroupEnds, <1>1, <1>2, <1>3, <1>4, <1>5, <1>6, <1>7,
             <1>8, <1>9, <1>10

LEMMA PlacedSame ==
  ASSUME rows' = rows, out' = out,
         \A q \in Piece : Carries(q)' <=> Carries(q), \A g \in Group : Staged(g)' <=> Staged(g)
  PROVE  \A q : Placed(q)' <=> Placed(q)
  BY DEF Placed

LEMMA PiecePieces ==
  ASSUME FlowInv, NEW p \in Piece, PieceStep(p)
  PROVE  Pieces'
  <1> USE Names DEF Pieces, Types, Goto, Stage, worker, router, dispatch, handle, consumer
  <1>1. StreamInv /\ Types /\ Pieces /\ Ends /\ Phases /\ Queued /\ Parted
    BY DEF FlowInv, StreamInv
  <1>2. ~shutdown /\ eng # "loop" => /\ \A q \in Piece : at[q] = "settled"
                                      /\ \A h \in Group : stage[h] \in {"none", "settled"}
    BY Idle
  <1>3. CASE Feed(p)
    <2>1. \A q : Placed(q)' <=> Placed(q)
      BY <1>1, <1>2, <1>3, PlacedSame DEF Carries, Staged, Feed
    <2> HIDE DEF Placed
    <2> QED BY <1>1, <1>2, <1>3, <2>1 DEF Feed
  <1>4. CASE CancelThread(p)
    <2>1. shutdown
      BY <1>1, <1>2, <1>4 DEF CancelThread, Ends
    <2> QED BY <1>1, <1>4, <2>1 DEF CancelThread
  <1>5. CASE CancelEarly(p)
    <2>1. shutdown
      BY <1>1, <1>2, <1>5 DEF CancelEarly, Ends
    <2> QED BY <1>1, <1>5, <2>1 DEF CancelEarly
  <1>6. CASE Enter(p)
    <2>1. \A q : Placed(q)' <=> Placed(q)
      BY <1>1, <1>2, <1>6, PlacedSame DEF Carries, Staged, Enter
    <2> HIDE DEF Placed
    <2> QED BY <1>1, <1>2, <1>6, <2>1 DEF Enter
  <1>7. CASE PushRaises(p)
    <2>1. \A q : Placed(q)' <=> Placed(q)
      BY <1>1, <1>7, PlacedSame DEF Carries, Staged, PushRaises
    <2>2. ~Placed(p)
      BY <1>1, <1>7 DEF Parted, Unpushed, PushRaises, Placed
    <2> QED BY <1>1, <1>7, <2>1, <2>2 DEF PushRaises
  <1>8. CASE PushFills(p)
    <2>1. ~Placed(p)
      BY <1>1, <1>8 DEF Parted, Unpushed, PushFills, Placed
    <2>2. ASSUME NEW q \in Piece PROVE Placed(q)' <=> Placed(q) \/ q = p
      <3>1. /\ rows' = {} /\ out'[p] = rows \cup {p} /\ at'[p] = "wrap" /\ at[p] = "push"
            /\ stage' = stage /\ \A r \in Piece \ {p} : out'[r] = out[r] /\ at'[r] = at[r]
        BY <1>1, <1>8 DEF PushFills
      <3>2. Carries(p)' /\ ~Carries(p) /\ \A r \in Piece \ {p} : Carries(r)' <=> Carries(r)
        BY <3>1 DEF Carries
      <3> QED BY <3>1, <3>2 DEF Placed, Staged
    <2> QED BY <1>1, <1>8, <2>1, <2>2 DEF PushFills
  <1>9. CASE PushJoins(p)
    <2>1. ~Placed(p)
      BY <1>1, <1>9 DEF Parted, Unpushed, PushJoins, Placed
    <2>2. ASSUME NEW q \in Piece PROVE Placed(q)' <=> Placed(q) \/ q = p
      BY <1>1, <1>9 DEF PushJoins, Placed, Carries, Staged
    <2> QED BY <1>1, <1>9, <2>1, <2>2 DEF PushJoins
  <1>10. CASE Wrap(p)
    <2>1. \A q : Placed(q)' <=> Placed(q)
      BY <1>1, <1>2, <1>10, PlacedSame DEF Carries, Staged, Wrap
    <2> HIDE DEF Placed
    <2> QED BY <1>1, <1>2, <1>10, <2>1 DEF Wrap
  <1>11. CASE EmitLate(p)
    <2>1. shutdown
      BY <1>1, <1>2, <1>11 DEF EmitLate, Closed
    <2> QED BY <1>1, <1>11, <2>1 DEF EmitLate
  <1>12. CASE EmitFits(p)
    <2>1. out[p] \in Group /\ stage[out[p]] = "none" /\ at[p] = "emit"
      BY <1>12, NotYetStaged, <1>1 DEF EmitFits
    <2>2. ASSUME NEW q \in Piece PROVE Placed(q)' <=> Placed(q)
      <3>1. Carries(p) /\ ~Carries(p)' /\ \A r \in Piece \ {p} : Carries(r)' <=> Carries(r)
        BY <1>1, <1>12, <2>1 DEF EmitFits, Carries
      <3>2. Staged(out[p])' /\ \A h \in Group \ {out[p]} : Staged(h)' <=> Staged(h)
        BY <1>1, <1>12, <2>1 DEF EmitFits, Staged
      <3>3. ~Staged(out[p]) /\ rows' = rows /\ out' = out
        BY <1>12, <2>1 DEF EmitFits, Staged
      <3>4. Placed(q) => Placed(q)'
        BY <2>1, <3>1, <3>2, <3>3 DEF Placed
      <3>5. Placed(q)' => Placed(q)
        BY <2>1, <3>1, <3>2, <3>3 DEF Placed
      <3> QED BY <3>4, <3>5
    <2> QED BY <1>1, <1>12, <2>1, <2>2 DEF EmitFits
  <1>13. CASE EmitWaits(p)
    <2>1. out[p] \in Group /\ stage[out[p]] = "none" /\ at[p] = "emit"
      BY <1>13, NotYetStaged, <1>1 DEF EmitWaits
    <2>2. ASSUME NEW q \in Piece PROVE Placed(q)' <=> Placed(q)
      <3>1. Carries(p) /\ ~Carries(p)' /\ \A r \in Piece \ {p} : Carries(r)' <=> Carries(r)
        BY <1>1, <1>13, <2>1 DEF EmitWaits, Carries
      <3>2. Staged(out[p])' /\ \A h \in Group \ {out[p]} : Staged(h)' <=> Staged(h)
        BY <1>1, <1>13, <2>1 DEF EmitWaits, Staged
      <3>3. ~Staged(out[p]) /\ rows' = rows /\ out' = out
        BY <1>13, <2>1 DEF EmitWaits, Staged
      <3>4. Placed(q) => Placed(q)'
        BY <2>1, <3>1, <3>2, <3>3 DEF Placed
      <3>5. Placed(q)' => Placed(q)
        BY <2>1, <3>1, <3>2, <3>3 DEF Placed
      <3> QED BY <3>4, <3>5
    <2> QED BY <1>1, <1>13, <2>1, <2>2 DEF EmitWaits
  <1>14. CASE UnblockLate(p)
    <2>1. shutdown
      BY <1>1, <1>2, <1>14 DEF UnblockLate, Closed
    <2> QED BY <1>1, <1>14, <2>1 DEF UnblockLate
  <1>15. CASE UnblockFits(p)
    <2>0. out[p] \in Group
      BY <1>1, <1>15, CarriedIsGroup DEF UnblockFits
    <2>1. \A q : Placed(q)' <=> Placed(q)
      BY <1>1, <1>2, <1>15, <2>0, PlacedSame DEF Carries, Staged, UnblockFits, Parted
    <2> HIDE DEF Placed
    <2> QED BY <1>1, <1>2, <1>15, <2>0, <2>1 DEF UnblockFits, Parted
  <1>16. CASE Return(p)
    <2>1. \A q : Placed(q)' <=> Placed(q)
      BY <1>1, <1>16, PlacedSame DEF Carries, Staged, Return
    <2>2. /\ at[p] \in {"back", "fail"} /\ at' = [at EXCEPT ![p] = "settled"] /\ shutdown' = shutdown
          /\ failed' = IF at[p] = "fail" THEN failed \cup {p} ELSE failed
      BY <1>16 DEF Return
    <2> QED BY <1>1, <2>1, <2>2
  <1>17. CASE LoseLock(p)
    <2>1. \A q : Placed(q)' <=> Placed(q)
      BY <1>1, <1>2, <1>17, PlacedSame DEF Carries, Staged, LoseLock
    <2> HIDE DEF Placed
    <2> QED BY <1>1, <1>2, <1>17, <2>1 DEF LoseLock
  <1>18. CASE TakeLock(p)
    <2>1. \A q : Placed(q)' <=> Placed(q)
      BY <1>1, <1>2, <1>18, PlacedSame DEF Carries, Staged, TakeLock
    <2> HIDE DEF Placed
    <2> QED BY <1>1, <1>2, <1>18, <2>1 DEF TakeLock
  <1>19. CASE Spawn(p)
    <2>0. at[p] = "queued"
      BY <1>1, <1>19, FromQueue
    <2>1. \A q : Placed(q)' <=> Placed(q)
      BY <1>1, <1>2, <1>19, <2>0, PlacedSame DEF Carries, Staged, Spawn
    <2> HIDE DEF Placed
    <2> QED BY <1>1, <1>2, <1>19, <2>0, <2>1 DEF Spawn
  <1>20. CASE DropPiece(p)
    <2>1. shutdown
      BY <1>1, <1>2, <1>20 DEF DropPiece, Ends
    <2> QED BY <1>1, <1>20, <2>1 DEF DropPiece
  <1> QED BY <1>3, <1>4, <1>5, <1>6, <1>7, <1>8, <1>9, <1>10, <1>11, <1>12, <1>13, <1>14,
             <1>15, <1>16, <1>17, <1>18, <1>19, <1>20 DEF PieceStep

LEMMA GroupPieces ==
  ASSUME FlowInv, NEW g \in Group, GroupStep(g)
  PROVE  Pieces'
  <1> USE Names DEF Pieces, Types, Goto, Stage, worker, router, dispatch, handle, consumer
  <1>1. StreamInv /\ Types /\ Pieces /\ Ends /\ Phases /\ Queued /\ Parted
    BY DEF FlowInv, StreamInv
  <1>2. ~shutdown /\ eng # "loop" => /\ \A q \in Piece : at[q] = "settled"
                                      /\ \A h \in Group : stage[h] \in {"none", "settled"}
    BY Idle
  <1>3. CASE FeedGroup(g)
    <2>1. \A q : Placed(q)' <=> Placed(q)
      BY <1>1, <1>2, <1>3, PlacedSame DEF Carries, Staged, FeedGroup
    <2> HIDE DEF Placed
    <2> QED BY <1>1, <1>2, <1>3, <2>1 DEF FeedGroup
  <1>4. CASE CancelGroup(g)
    <2>1. shutdown
      BY <1>1, <1>2, <1>4 DEF CancelGroup, Ends
    <2> QED BY <1>1, <1>4, <2>1 DEF CancelGroup
  <1>5. CASE LockDataset(g)
    <2>1. \A q : Placed(q)' <=> Placed(q)
      BY <1>1, <1>2, <1>5, PlacedSame DEF Carries, Staged, LockDataset
    <2> HIDE DEF Placed
    <2> QED BY <1>1, <1>2, <1>5, <2>1 DEF LockDataset
  <1>6. CASE Put(g)
    <2>1. \A q : Placed(q)' <=> Placed(q)
      BY <1>1, <1>2, <1>6, PlacedSame DEF Carries, Staged, Put
    <2> HIDE DEF Placed
    <2> QED BY <1>1, <1>2, <1>6, <2>1 DEF Put
  <1>7. CASE Mark(g)
    <2>1. \A q : Placed(q)' <=> Placed(q)
      BY <1>1, <1>2, <1>7, PlacedSame DEF Carries, Staged, Mark
    <2> HIDE DEF Placed
    <2> QED BY <1>1, <1>2, <1>7, <2>1 DEF Mark
  <1>8. CASE GetSlot(g)
    <2>1. \A q : Placed(q)' <=> Placed(q)
      BY <1>1, <1>2, <1>8, PlacedSame DEF Carries, Staged, GetSlot
    <2> HIDE DEF Placed
    <2> QED BY <1>1, <1>2, <1>8, <2>1 DEF GetSlot
  <1>9. CASE LoseSlot(g)
    <2>1. shutdown
      BY <1>1, <1>2, <1>9 DEF LoseSlot, Ends
    <2> QED BY <1>1, <1>9, <2>1 DEF LoseSlot
  <1>10. CASE Attach(g)
    <2>1. \A q : Placed(q)' <=> Placed(q)
      BY <1>1, <1>2, <1>10, PlacedSame DEF Carries, Staged, Attach
    <2> HIDE DEF Placed
    <2> QED BY <1>1, <1>2, <1>10, <2>1 DEF Attach
  <1>11. CASE Collect(g)
    <2>1. \A q : Placed(q)' <=> Placed(q)
      BY <1>1, <1>2, <1>11, PlacedSame DEF Carries, Staged, Collect
    <2> HIDE DEF Placed
    <2> QED BY <1>1, <1>2, <1>11, <2>1 DEF Collect
  <1>12. CASE Admit(g)
    <2>0. stage[g] = "queued"
      BY <1>1, <1>12, FromQueue
    <2>1. \A q : Placed(q)' <=> Placed(q)
      BY <1>1, <1>2, <1>12, <2>0, PlacedSame DEF Carries, Staged, Admit
    <2> HIDE DEF Placed
    <2> QED BY <1>1, <1>2, <1>12, <2>0, <2>1 DEF Admit
  <1>13. CASE DropGroup(g)
    <2>1. shutdown
      BY <1>1, <1>2, <1>13 DEF DropGroup, Ends
    <2> QED BY <1>1, <1>13, <2>1 DEF DropGroup
  <1> QED BY <1>3, <1>4, <1>5, <1>6, <1>7, <1>8, <1>9, <1>10, <1>11, <1>12, <1>13 DEF GroupStep

LEMMA NextPieces ==
  ASSUME FlowInv, [Next]_vars
  PROVE  Pieces'
  <1> USE Names DEF Pieces, Types, Goto, Stage, worker, router, dispatch, handle, consumer
  <1>1. StreamInv /\ Types /\ Pieces /\ Ends /\ Phases /\ Queued /\ Parted
    BY DEF FlowInv, StreamInv
  <1>2. ~shutdown /\ eng # "loop" => /\ \A q \in Piece : at[q] = "settled"
                                      /\ \A h \in Group : stage[h] \in {"none", "settled"}
    BY Idle
  <1>3. CASE Recv
    <2>1. \A q : Placed(q)' <=> Placed(q)
      BY <1>1, <1>2, <1>3, PlacedSame DEF Carries, Staged, Recv
    <2> HIDE DEF Placed
    <2> QED BY <1>1, <1>2, <1>3, <2>1 DEF Recv
  <1>4. CASE Flush
    <2>1. PICK a \in Group : a = rows /\ stage[a] = "none"
      BY <1>1, <1>4 DEF Flush, Parted, Staged
    <2>2. /\ at' = at /\ out' = out /\ rows' = {} /\ stage' = [stage EXCEPT ![a] = "flushed"]
          /\ shutdown' = shutdown /\ failed' = failed
      BY <1>4, <2>1 DEF Flush
    <2>3. Staged(a)' /\ ~Staged(a) /\ \A h \in Group \ {a} : Staged(h)' <=> Staged(h)
      BY <1>1, <2>1, <2>2 DEF Staged
    <2>4. \A r \in Piece : Carries(r)' <=> Carries(r)
      BY <2>2 DEF Carries
    <2>5. ASSUME NEW q \in Piece PROVE Placed(q)' <=> Placed(q)
      BY <2>1, <2>2, <2>3, <2>4 DEF Placed
    <2> QED BY <1>1, <2>2, <2>5
  <1>5. CASE DropEngine
    <2>1. \A g \in Group : Staged(g)' <=> Staged(g)
      <3>1. DOMAIN queue = 1..Len(queue)
        BY <1>1
      <3>2. \A g \in Group : InQueue(g) => stage[g] = "queued"
        BY <1>1 DEF Queued
      <3>3. stage' = [g \in Group |-> IF InQueue(g) THEN "dropped" ELSE stage[g]]
        BY <1>5, <3>1 DEF DropEngine, InQueue, Has
      <3> QED BY <3>2, <3>3 DEF Staged
    <2>2. \A q : Placed(q)' <=> Placed(q)
      BY <1>5, <2>1, PlacedSame DEF DropEngine, Carries
    <2> QED BY <1>1, <1>5, <2>2 DEF DropEngine
  <1>6. CASE EngineStage
    <2>1. \A q : Placed(q)' <=> Placed(q)
      BY <1>1, <1>2, <1>6, PlacedSame DEF Carries, Staged, EngineStage, EngineStep,
         Observe, EndRun, Grace, SetOutcome, DropRuntime
    <2> HIDE DEF Placed
    <2> QED BY <1>1, <1>2, <1>6, <2>1 DEF EngineStage, EngineStep, Observe, EndRun, Grace,
               SetOutcome, DropRuntime
  <1>7. CASE Receive
    <2>1. \A q : Placed(q)' <=> Placed(q)
      BY <1>1, <1>2, <1>7, PlacedSame DEF Carries, Staged, Receive
    <2> HIDE DEF Placed
    <2> QED BY <1>1, <1>2, <1>7, <2>1 DEF Receive
  <1>8. CASE Finish
    <2>1. \A q : Placed(q)' <=> Placed(q)
      BY <1>1, <1>2, <1>8, PlacedSame DEF Carries, Staged, Finish
    <2> HIDE DEF Placed
    <2> QED BY <1>1, <1>2, <1>8, <2>1 DEF Finish
  <1>9. CASE Training
    <2>1. \A q : Placed(q)' <=> Placed(q)
      BY <1>1, <1>2, <1>9, PlacedSame DEF Carries, Staged, Training, NextItem,
         StreamClosed, Join, Close
    <2> HIDE DEF Placed
    <2> QED BY <1>1, <1>2, <1>9, <2>1 DEF Training, NextItem, StreamClosed, Join, Close
  <1>10. CASE UNCHANGED vars
    BY <1>1, <1>10 DEF vars, Placed, Carries, Staged
  <1> QED BY StepCases, PiecePieces, GroupPieces, <1>1, <1>2, <1>3, <1>4, <1>5, <1>6, <1>7,
             <1>8, <1>9, <1>10

LEMMA DeliveredSame ==
  ASSUME Delivered, UNCHANGED <<chan, window, yielded>>, ~shutdown' => ~shutdown,
         ~shutdown' => \A g \in Group : Sent(g)' <=> Sent(g)
  PROVE  Delivered'
  <1>1. \A g : (InChan(g)' <=> InChan(g)) /\ (Given(g)' <=> Given(g))
    BY DEF InChan, Given
  <1> QED BY <1>1 DEF Delivered, OneEach

LEMMA PieceDelivered ==
  ASSUME FlowInv, NEW p \in Piece, PieceStep(p)
  PROVE  Delivered'
  <1> USE Names DEF Types, Goto, Stage, worker, router, dispatch, handle, consumer
  <1>1. StreamInv /\ Types /\ Delivered /\ Ends /\ Queued /\ Parted
    BY DEF FlowInv, StreamInv
  <1>2. ~shutdown /\ eng # "loop" => /\ \A q \in Piece : at[q] = "settled"
                                      /\ \A h \in Group : stage[h] \in {"none", "settled"}
    BY Idle
  <1>3. CASE Feed(p)
    BY <1>1, <1>3, DeliveredSame DEF Sent, Feed
  <1>4. CASE CancelThread(p)
    BY <1>1, <1>4, DeliveredSame DEF Sent, CancelThread
  <1>5. CASE CancelEarly(p)
    BY <1>1, <1>5, DeliveredSame DEF Sent, CancelEarly
  <1>6. CASE Enter(p)
    BY <1>1, <1>6, DeliveredSame DEF Sent, Enter
  <1>7. CASE PushRaises(p)
    BY <1>1, <1>7, DeliveredSame DEF Sent, PushRaises
  <1>8. CASE PushFills(p)
    BY <1>1, <1>8, DeliveredSame DEF Sent, PushFills
  <1>9. CASE PushJoins(p)
    BY <1>1, <1>9, DeliveredSame DEF Sent, PushJoins
  <1>10. CASE Wrap(p)
    BY <1>1, <1>10, DeliveredSame DEF Sent, Wrap
  <1>11. CASE EmitLate(p)
    BY <1>1, <1>11, DeliveredSame DEF Sent, EmitLate
  <1>12. CASE EmitFits(p)
    <2>1. out[p] \in Group /\ stage[out[p]] = "none"
      BY <1>1, <1>12, NotYetStaged DEF EmitFits
    <2> QED BY <1>1, <1>12, <2>1, DeliveredSame DEF Sent, EmitFits
  <1>13. CASE EmitWaits(p)
    <2>1. out[p] \in Group /\ stage[out[p]] = "none"
      BY <1>1, <1>13, NotYetStaged DEF EmitWaits
    <2> QED BY <1>1, <1>13, <2>1, DeliveredSame DEF Sent, EmitWaits
  <1>14. CASE UnblockLate(p)
    <2>1. out[p] \in Group /\ stage[out[p]] = "sending"
      BY <1>1, <1>14, CarriedIsGroup DEF UnblockLate, Parted
    <2> QED BY <1>1, <1>14, <2>1, DeliveredSame DEF Sent, UnblockLate
  <1>15. CASE UnblockFits(p)
    <2>1. out[p] \in Group /\ stage[out[p]] = "sending"
      BY <1>1, <1>15, CarriedIsGroup DEF UnblockFits, Parted
    <2> QED BY <1>1, <1>15, <2>1, DeliveredSame DEF Sent, UnblockFits
  <1>16. CASE Return(p)
    BY <1>1, <1>16, DeliveredSame DEF Sent, Return
  <1>17. CASE LoseLock(p)
    BY <1>1, <1>17, DeliveredSame DEF Sent, LoseLock
  <1>18. CASE TakeLock(p)
    BY <1>1, <1>18, DeliveredSame DEF Sent, TakeLock
  <1>19. CASE Spawn(p)
    BY <1>1, <1>19, DeliveredSame DEF Sent, Spawn
  <1>20. CASE DropPiece(p)
    BY <1>1, <1>20, DeliveredSame DEF Sent, DropPiece
  <1> QED BY <1>3, <1>4, <1>5, <1>6, <1>7, <1>8, <1>9, <1>10, <1>11, <1>12, <1>13, <1>14,
             <1>15, <1>16, <1>17, <1>18, <1>19, <1>20 DEF PieceStep

LEMMA GroupDelivered ==
  ASSUME FlowInv, NEW g \in Group, GroupStep(g)
  PROVE  Delivered'
  <1> USE Names DEF Types, Goto, Stage, worker, router, dispatch, handle, consumer
  <1>1. StreamInv /\ Types /\ Delivered /\ Ends /\ Queued /\ Parted
    BY DEF FlowInv, StreamInv
  <1>2. ~shutdown /\ eng # "loop" => /\ \A q \in Piece : at[q] = "settled"
                                      /\ \A h \in Group : stage[h] \in {"none", "settled"}
    BY Idle
  <1>3. CASE FeedGroup(g)
    BY <1>1, <1>3, DeliveredSame DEF Sent, FeedGroup
  <1>4. CASE CancelGroup(g)
    <2>1. shutdown' /\ UNCHANGED <<chan, window, yielded>>
      BY <1>1, <1>4 DEF Ends, CancelGroup
    <2> QED BY <1>1, <2>1, DeliveredSame
  <1>5. CASE LockDataset(g)
    BY <1>1, <1>5, DeliveredSame DEF Sent, LockDataset
  <1>6. CASE Put(g)
    BY <1>1, <1>6, DeliveredSame DEF Sent, Put
  <1>7. CASE Mark(g)
    BY <1>1, <1>7, DeliveredSame DEF Sent, Mark
  <1>8. CASE GetSlot(g)
    BY <1>1, <1>8, DeliveredSame DEF Sent, GetSlot
  <1>9. CASE LoseSlot(g)
    <2>1. shutdown' /\ UNCHANGED <<chan, window, yielded>>
      BY <1>1, <1>9 DEF Ends, LoseSlot
    <2> QED BY <1>1, <2>1, DeliveredSame
  <1>10. CASE Attach(g)
    BY <1>1, <1>10, DeliveredSame DEF Sent, Attach
  <1>11. CASE Collect(g)
    <2>1. /\ stage[g] = "send" /\ stage' = [stage EXCEPT ![g] = "consume"] /\ shutdown' = shutdown
          /\ chan' = IF rxOpen THEN Append(chan, g) ELSE chan
          /\ window' = window /\ yielded' = yielded
      BY <1>11 DEF Collect
    <2>2. CASE shutdown
      BY <2>1, <2>2 DEF Delivered
    <2>3. CASE ~shutdown
      <3>1. rxOpen
        BY <1>1, <1>2, <2>1, <2>3 DEF Ends, Closed
      <3>2. ~Sent(g) /\ ~InChan(g) /\ g \notin window /\ ~Given(g) /\ OneEach(chan)
        BY <1>1, <2>1, <2>3 DEF Delivered, Sent
      <3>3. OneEach(chan') /\ \A h : InChan(h)' <=> InChan(h) \/ h = g
        BY <1>1, <2>1, <3>1, <3>2, SeqAppends DEF InChan
      <3>4. \A h : Given(h)' <=> Given(h)
        BY <2>1 DEF Given
      <3>5. \A h \in Group : Sent(h)' <=> Sent(h) \/ h = g
        BY <1>1, <2>1 DEF Sent
      <3>6. OneEach(yielded')
        BY <1>1, <2>1, <2>3 DEF Delivered
      <3> HIDE DEF Types, Goto, Stage
      <3> QED BY <1>1, <2>1, <2>3, <3>2, <3>3, <3>4, <3>5, <3>6 DEF Delivered
    <2> QED BY <2>2, <2>3
  <1>12. CASE Admit(g)
    <2>1. stage[g] = "queued"
      BY <1>1, <1>12, FromQueue
    <2> QED BY <1>1, <1>12, <2>1, DeliveredSame DEF Sent, Admit
  <1>13. CASE DropGroup(g)
    <2>1. shutdown' /\ UNCHANGED <<chan, window, yielded>>
      BY <1>1, <1>13 DEF Ends, DropGroup
    <2> QED BY <1>1, <2>1, DeliveredSame
  <1> QED BY <1>3, <1>4, <1>5, <1>6, <1>7, <1>8, <1>9, <1>10, <1>11, <1>12, <1>13 DEF GroupStep

LEMMA NextDelivered ==
  ASSUME FlowInv, [Next]_vars
  PROVE  Delivered'
  <1> USE Names DEF Types, Goto, Stage, worker, router, dispatch, handle, consumer
  <1>1. StreamInv /\ Types /\ Delivered /\ Ends /\ Queued /\ Parted
    BY DEF FlowInv, StreamInv
  <1>2. ~shutdown /\ eng # "loop" => /\ \A q \in Piece : at[q] = "settled"
                                      /\ \A h \in Group : stage[h] \in {"none", "settled"}
    BY Idle
  <1>3. CASE Recv
    BY <1>1, <1>3, DeliveredSame DEF Sent, Recv
  <1>4. CASE Flush
    <2>1. rows \in Group
      BY <1>1, <1>4 DEF Flush
    <2>2. PICK a \in Group : a = rows /\ stage[a] = "none"
      BY <1>1, <2>1 DEF Parted, Staged
    <2> QED BY <1>1, <1>4, <2>2, DeliveredSame DEF Sent, Flush
  <1>5. CASE DropEngine
    <2>1. ~shutdown => \A g \in Group : stage'[g] = stage[g]
      <3>1. DOMAIN queue = 1..Len(queue)
        BY <1>1
      <3>2. \A g \in Group : InQueue(g) => stage[g] = "queued"
        BY <1>1 DEF Queued
      <3>3. stage' = [g \in Group |-> IF InQueue(g) THEN "dropped" ELSE stage[g]]
        BY <1>5, <3>1 DEF DropEngine, InQueue, Has
      <3> QED BY <1>2, <1>5, <3>2, <3>3 DEF DropEngine
    <2> QED BY <1>1, <1>5, <2>1, DeliveredSame DEF Sent, DropEngine
  <1>6. CASE EngineStage
    BY <1>1, <1>6, DeliveredSame DEF Sent, EngineStage, EngineStep, Observe, EndRun, Grace,
       SetOutcome, DropRuntime
  <1>7. CASE Receive
    <2>1. /\ chan # <<>> /\ chan' = Tail(chan) /\ stage' = stage /\ shutdown' = shutdown
      BY <1>7 DEF Receive
    <2>2. CASE shutdown
      BY <2>1, <2>2 DEF Delivered
    <2>3. CASE ~shutdown
      <3> DEFINE head == Head(chan)
                 all == window \cup {head}
      <3>1. OneEach(chan') /\ \A h : InChan(h)' <=> InChan(h) /\ h # head
        BY <1>1, <2>1, <2>3, SeqTails DEF Delivered, InChan
      <3>2. head \in Group /\ InChan(head)
        <4>1. Len(chan) \in Nat /\ Len(chan) # 0 /\ Head(chan) = chan[1] /\ chan[1] \in Group
          BY <1>1, <2>1
        <4>2. 1 \in 1..Len(chan)
          BY <4>1
        <4> QED BY <4>1, <4>2 DEF InChan, Has
      <3>3. ~Given(head) /\ OneEach(yielded)
        BY <1>1, <2>3, <3>2 DEF Delivered
      <3>4. \A h \in Group : Sent(h)' <=> Sent(h)
        BY <2>1 DEF Sent
      <3>5. \/ window' = all /\ yielded' = yielded
            \/ \E g \in all : window' = all \ {g} /\ yielded' = Append(yielded, g)
        BY <1>7 DEF Receive
      <3> HIDE DEF head
      <3>6. CASE window' = all /\ yielded' = yielded
        <4>1. \A h : Given(h)' <=> Given(h)
          BY <3>6 DEF Given
        <4>2. OneEach(yielded')
          BY <3>3, <3>6
        <4> HIDE DEF Types
        <4> QED BY <1>1, <2>3, <3>1, <3>2, <3>3, <3>4, <3>6, <4>1, <4>2 DEF Delivered
      <3>7. ASSUME NEW g \in all, window' = all \ {g}, yielded' = Append(yielded, g)
            PROVE  Delivered'
        <4>1. g \in Group /\ ~Given(g)
          BY <1>1, <2>3, <3>2, <3>3 DEF Delivered
        <4>2. OneEach(yielded') /\ \A h : Given(h)' <=> Given(h) \/ h = g
          BY <1>1, <3>3, <3>7, <4>1, SeqAppends DEF Given
        <4> HIDE DEF Types
        <4> QED BY <1>1, <2>3, <3>1, <3>2, <3>3, <3>4, <3>7, <4>1, <4>2 DEF Delivered
      <3> QED BY <3>5, <3>6, <3>7
    <2> QED BY <2>2, <2>3
  <1>8. CASE Finish
    <2>1. /\ con = "stop" /\ chan' = chan /\ stage' = stage /\ shutdown' = shutdown /\ window' = {}
          /\ yielded' = IF early THEN yielded ELSE yielded \o SetToSeq(window)
      BY <1>8 DEF Finish
    <2>2. CASE shutdown
      BY <2>1, <2>2 DEF Delivered
    <2>3. CASE ~shutdown
      <3>1. yielded' = yielded \o SetToSeq(window)
        BY <1>1, <2>1, <2>3 DEF Ends
      <3>2. IsFiniteSet(window)
        BY <1>1, FS_Subset
      <3>3. /\ SetToSeq(window) \in Seq(Group) /\ OneEach(SetToSeq(window))
            /\ \A h : Has(SetToSeq(window), h) <=> h \in window
        BY <1>1, <3>2, Listed
      <3>4. OneEach(yielded) /\ \A h : ~(Has(yielded, h) /\ h \in window)
        BY <1>1, <2>3 DEF Delivered, Given
      <3>5. OneEach(yielded') /\ \A h : Given(h)' <=> Given(h) \/ h \in window
        BY <1>1, <3>1, <3>3, <3>4, SeqJoins DEF Given
      <3>6. \A h : InChan(h)' <=> InChan(h)
        BY <2>1 DEF InChan
      <3>7. \A h \in Group : Sent(h)' <=> Sent(h)
        BY <2>1 DEF Sent
      <3>8. OneEach(chan')
        BY <1>1, <2>1, <2>3 DEF Delivered
      <3> HIDE DEF Types
      <3> QED BY <1>1, <2>1, <2>3, <3>5, <3>6, <3>7, <3>8 DEF Delivered
    <2> QED BY <2>2, <2>3
  <1>9. CASE Training
    <2>1. CASE NextItem \/ StreamClosed \/ Join
      BY <1>1, <2>1, DeliveredSame DEF NextItem, StreamClosed, Join, Sent
    <2>2. CASE Close
      BY <2>2 DEF Close, Delivered
    <2> QED BY <1>9, <2>1, <2>2 DEF Training
  <1>10. CASE UNCHANGED vars
    BY <1>1, <1>10, DeliveredSame DEF vars, Sent
  <1> QED BY StepCases, PieceDelivered, GroupDelivered, <1>1, <1>2, <1>3, <1>4, <1>5, <1>6,
             <1>7, <1>8, <1>9, <1>10

LEMMA InitFlows ==
  ASSUME Init
  PROVE  FlowInv
  <1>1. StreamInv
    BY InitStreams
  <1>2. Ends
    BY DEF Init, Ends
  <1>3. Pieces
    <2>1. \A p \in Piece : at[p] = "seed" /\ p \notin failed
      BY DEF Init
    <2> QED BY <2>1 DEF Pieces
  <1>4. Delivered
    <2>1. Len(chan) = 0 /\ Len(yielded) = 0 /\ window = {}
      BY DEF Init
    <2>2. \A g \in Group : ~Sent(g)
      BY DEF Init, Sent
    <2> QED BY <2>1, <2>2 DEF Delivered, OneEach, InChan, Given, Has
  <1> QED BY <1>1, <1>2, <1>3, <1>4 DEF FlowInv

LEMMA NextFlows ==
  ASSUME FlowInv, [Next]_vars
  PROVE  FlowInv'
  <1>1. StreamInv'
    BY NextStreams DEF FlowInv
  <1> QED BY <1>1, NextEnds, NextPieces, NextDelivered DEF FlowInv

(* When the iteration is over and was not left early, every piece that did *)
(* not fail is in exactly one of the groups handed on, and no other is.    *)
LEMMA OverDelivers ==
  ASSUME FlowInv, con = "done", ~early, NEW p \in Piece
  PROVE  /\ p \in failed => \A i \in 1..Len(yielded) : p \notin yielded[i]
         /\ p \notin failed => \E i \in 1..Len(yielded) : p \in yielded[i]
         /\ \A i, j \in 1..Len(yielded) : p \in yielded[i] /\ p \in yielded[j] => i = j
  <1>1. /\ StreamInv /\ Types /\ Parted /\ Ends /\ Pieces /\ Delivered /\ ~shutdown
        /\ Closed /\ chan = <<>> /\ window = {}
    BY DEF FlowInv, StreamInv, Ends
  <1>2. /\ \A q \in Piece : at[q] = "settled"
        /\ \A g \in Group : stage[g] \in {"none", "settled"}
        /\ rows = {}
    BY <1>1, Idle DEF Closed
  <1>3. \A g \in Group : Staged(g) <=> Given(g)
    <2>1. \A g \in Group : Staged(g) <=> Sent(g)
      BY <1>2 DEF Staged, Sent
    <2>2. \A g : ~InChan(g)
      BY <1>1 DEF InChan, Has
    <2> QED BY <1>1, <2>1, <2>2 DEF Delivered
  <1>4. \A i \in 1..Len(yielded) : yielded[i] \in Group /\ Staged(yielded[i])
    <2>1. \A i \in 1..Len(yielded) : yielded[i] \in Group
      BY <1>1 DEF Types
    <2> QED BY <1>3, <2>1 DEF Given, Has
  <1>5. Placed(p) <=> \E g \in Group : Staged(g) /\ p \in g
    BY <1>2 DEF Placed, Carries
  <1>6. ASSUME p \in failed PROVE \A i \in 1..Len(yielded) : p \notin yielded[i]
    BY <1>1, <1>4, <1>5, <1>6 DEF Pieces
  <1>7. ASSUME p \notin failed PROVE \E i \in 1..Len(yielded) : p \in yielded[i]
    <2>1. PICK g \in Group : Staged(g) /\ p \in g
      BY <1>1, <1>2, <1>5, <1>7 DEF Pieces
    <2> QED BY <1>3, <2>1 DEF Given, Has
  <1>8. ASSUME NEW i \in 1..Len(yielded), NEW j \in 1..Len(yielded),
               p \in yielded[i], p \in yielded[j]
        PROVE  i = j
    <2>1. yielded[i] = yielded[j]
      BY <1>1, <1>4, <1>8 DEF Parted
    <2> QED BY <1>1, <2>1 DEF Delivered, OneEach
  <1> QED BY <1>6, <1>7, <1>8

(* What became of every piece and group, in every step of a stream.        *)
THEOREM Flows == Spec => []FlowInv
  <1>1. Init => FlowInv
    BY InitFlows
  <1>2. FlowInv /\ [Next]_vars => FlowInv'
    BY NextFlows
  <1> QED BY <1>1, <1>2, PTL DEF Spec

(* StreamExact, for every set of pieces, every capacity, every size of a   *)
(* group and of the shuffle window: an iteration that is not left early is *)
(* handed every piece in exactly one group, but for the pieces whose task  *)
(* failed (RowAggregator, CollectorSink, StreamHandle.__next__).           *)
THEOREM DeliversOnce == Spec => []StreamExact
  <1>1. FlowInv => StreamExact
    <2> SUFFICES ASSUME FlowInv, con = "done", ~early, NEW p \in Piece
                 PROVE  Cardinality({i \in DOMAIN yielded : p \in yielded[i]})
                          = IF p \in failed THEN 0 ELSE 1
      BY DEF StreamExact
    <2> DEFINE I == {i \in DOMAIN yielded : p \in yielded[i]}
    <2>1. I = {i \in 1..Len(yielded) : p \in yielded[i]}
      BY DEF FlowInv, StreamInv, Types
    <2>2. CASE p \in failed
      <3>1. I = {}
        BY <2>1, <2>2, OverDelivers
      <3> QED BY <2>2, <3>1, FS_EmptySet
    <2>3. CASE p \notin failed
      <3>1. PICK i \in 1..Len(yielded) : p \in yielded[i]
        BY <2>3, OverDelivers
      <3>2. I = {i}
        BY <2>1, <3>1, OverDelivers
      <3> QED BY <2>3, <3>2, FS_Singleton
    <2> QED BY <2>2, <2>3
  <1> QED BY <1>1, Flows, PTL
=============================================================================
