------------------------------ MODULE PyStream ------------------------------
(***************************************************************************)
(* An engine run from Python and consumed as a stream.  Pieces are seeded; *)
(* their Python worker folds each into a RowBatch router on a blocking     *)
(* thread; full groups are emitted through the blocking Emitter into the   *)
(* bounded queue, materialized in a Python dataset, and forwarded by a     *)
(* CollectorSink over a bounded channel to the StreamHandle that the       *)
(* training loop iterates.                                                 *)
(*                                                                         *)
(* The interpreter lock is taken for each step that runs Python code; a    *)
(* thread inside a Python callable may lose it between two steps.          *)
(***************************************************************************)
EXTENDS Naturals, FiniteSets, Sequences, SequencesExt

CONSTANTS
  Piece,      \* seeded tasks, one row each
  GroupRows,  \* rows of a full group
  Capacity,   \* of the task queue
  Stream,     \* capacity of the channel to the consumer
  Permits,    \* the engine's concurrency
  Window,     \* size of the consumer's shuffle buffer
  None        \* nobody; a free lock

Group == (SUBSET Piece) \ {{}}

ASSUME StreamAssumption ==
  /\ IsFiniteSet(Piece) /\ None \notin Piece /\ \A g \in Group : g \notin Piece \cup {None}
  /\ {GroupRows, Capacity, Stream, Permits} \subseteq Nat \ {0} /\ Window \in Nat

VARIABLES
  gil,       \* the piece whose thread was left inside a Python callable, or None
  at,        \* where each piece's task and thread is
  slot,      \* pieces whose task holds a global permit
  orphan,    \* pieces whose process was dropped while its thread went on
  failed,    \* pieces whose worker returned an error
  rows,      \* RowAggregator: buffered pieces
  borrowed,  \* the piece whose call into the aggregator is in progress, or None
  out,       \* the full group each piece's call took from it
  stage,     \* where the task of each group is
  queue, hand, free,     \* the dispatcher: queue, received envelope, permits
  dlock,     \* the group whose call holds the dataset's lock, or None
  eng,       \* the engine thread
  shutdown, chan, rxOpen,  \* StreamHandle and its channel
  con, early,  \* the consumer; did it stop before the end?
  window, yielded          \* its shuffle buffer, and what it has handed on

worker   == <<at, slot, orphan, failed, out>>
router   == <<rows, borrowed>>
dispatch == <<queue, hand, free>>
handle   == <<shutdown, chan, rxOpen>>
consumer == <<con, early, window, yielded>>
vars == <<gil, worker, router, stage, dispatch, dlock, eng, handle, consumer>>

Closed == eng \in {"over", "outcome", "exited"}
Room == Len(queue) < Capacity
Running == {"spawned", "push", "wrap", "emit", "blocked", "back", "fail"}

Goto(p, s) == at' = [at EXCEPT ![p] = s]
Stage(g, s) == stage' = [stage EXCEPT ![g] = s]

Init ==
  /\ gil = None /\ borrowed = None /\ dlock = None /\ hand = None
  /\ at = [p \in Piece |-> "seed"] /\ out = [p \in Piece |-> {}]
  /\ slot = {} /\ orphan = {} /\ failed = {} /\ rows = {}
  /\ stage = [g \in Group |-> "none"]
  /\ queue = <<>> /\ free = Permits
  /\ eng = "loop" /\ shutdown = FALSE /\ chan = <<>> /\ rxOpen = TRUE
  /\ con = "train" /\ early = FALSE /\ window = {} /\ yielded = <<>>

-----------------------------------------------------------------------------
(* The engine as its tasks see it; Scheduler models it in full.            *)

Feed(p) ==
  /\ at[p] = "seed" /\ ~Closed /\ Room
  /\ queue' = Append(queue, p) /\ Goto(p, "queued")
  /\ UNCHANGED <<gil, slot, orphan, failed, out, router, stage, hand, free, dlock, eng, handle, consumer>>

(* A flushed group waits in a feeder of its own.                           *)
FeedGroup(g) ==
  /\ stage[g] = "flushed" /\ ~Closed /\ Room
  /\ queue' = Append(queue, g) /\ Stage(g, "queued")
  /\ UNCHANGED <<gil, worker, router, hand, free, dlock, eng, handle, consumer>>

(* The dispatcher receives, then waits for a permit without looking at     *)
(* anything else.                                                          *)
Recv ==
  /\ eng = "loop" /\ hand = None /\ queue # <<>>
  /\ hand' = Head(queue) /\ queue' = Tail(queue)
  /\ UNCHANGED <<gil, worker, router, stage, free, dlock, eng, handle, consumer>>

Dispatch ==
  /\ hand # None /\ free > 0
  /\ hand' = None /\ free' = free - 1
  /\ IF hand \in Piece
     THEN Goto(hand, "spawned") /\ slot' = slot \cup {hand} /\ UNCHANGED stage
     ELSE Stage(hand, "admit") /\ UNCHANGED <<at, slot>>
  /\ UNCHANGED <<gil, orphan, failed, out, router, queue, dlock, eng, handle, consumer>>

LiveTasks == {p \in Piece \ orphan : at[p] # "settled"}
               \cup {g \in Group : stage[g] \notin {"none", "settled", "dropped"}}
Quiet == hand = None /\ queue = <<>> /\ LiveTasks = {}

(* Fault: the groups of a flush are never emitted.                         *)
FlushNothing ==
  /\ eng = "loop" /\ Quiet /\ ~shutdown /\ gil = None /\ rows # {}
  /\ rows' = {} /\ UNCHANGED stage
  /\ UNCHANGED <<gil, worker, borrowed, dispatch, dlock, eng, handle, consumer>>

(* The flush hook, under the interpreter lock; a router that raises is     *)
(* passed over.                                                            *)
Flush ==
  /\ eng = "loop" /\ Quiet /\ ~shutdown /\ gil = None /\ rows # {}
  /\ rows' = {} /\ Stage(rows, "flushed")
  /\ UNCHANGED <<gil, worker, borrowed, dispatch, dlock, eng, handle, consumer>>

(* The run ends when nothing is in flight; with a shutdown, what is queued *)
(* is dropped first, and after the grace period what runs is cancelled.    *)
EngineStep(s) == eng' = s /\ UNCHANGED <<gil, worker, router, stage, dispatch, dlock, handle, consumer>>

Observe == eng = "loop" /\ hand = None /\ shutdown /\ EngineStep("drain")
Grace   == eng = "drain" /\ EngineStep("cancel")
EndRun  == /\ \/ eng = "loop" /\ ~shutdown /\ rows = {}
              \/ eng \in {"drain", "cancel"}
           /\ Quiet /\ EngineStep("end")

DrainOne ==
  /\ eng \in {"drain", "cancel"} /\ queue # <<>>
  /\ queue' = Tail(queue)
  /\ IF Head(queue) \in Piece
     THEN Goto(Head(queue), "settled") /\ UNCHANGED stage
     ELSE Stage(Head(queue), "dropped") /\ UNCHANGED at
  /\ UNCHANGED <<gil, slot, orphan, failed, out, router, hand, free, dlock, eng, handle, consumer>>

(* Cancelling drops process, if it was polled at all: a collector's send   *)
(* with it, but the thread of a Python worker runs on and keeps the        *)
(* permits that its emitter shares.                                        *)
Cancel(p) ==
  /\ eng = "cancel" /\ p \notin orphan /\ at[p] \in Running
  /\ \/ orphan' = orphan \cup {p} /\ UNCHANGED <<at, slot, free>>
     \/ at[p] = "spawned" /\ Goto(p, "settled")
        /\ slot' = slot \ {p} /\ free' = free + 1 /\ UNCHANGED orphan
  /\ UNCHANGED <<gil, failed, out, router, stage, queue, hand, dlock, eng, handle, consumer>>

CancelGroup(g) ==
  /\ eng = "cancel" /\ stage[g] \in {"attach", "send"}
  /\ Stage(g, "dropped") /\ free' = free + 1
  /\ UNCHANGED <<gil, worker, router, queue, hand, dlock, eng, handle, consumer>>

(* The engine thread: the queue's receiver and the sinks are dropped with  *)
(* the run, whatever a thread that was not waited for still put into the   *)
(* queue; then the outcome is set; then the runtime waits for the blocking *)
(* threads.                                                                *)
DropEngine ==
  /\ eng = "end" /\ eng' = "over" /\ queue' = <<>>
  /\ stage' = [g \in Group |-> IF \E i \in DOMAIN queue : queue[i] = g THEN "dropped" ELSE stage[g]]
  /\ UNCHANGED <<gil, worker, router, hand, free, dlock, handle, consumer>>
SetOutcome == eng = "over" /\ EngineStep("outcome")
DropRuntime == eng = "outcome" /\ (\A p \in Piece : at[p] \notin Running) /\ EngineStep("exited")

-----------------------------------------------------------------------------
(* PyWorker::process on its blocking thread, calling ctx.route.            *)

Enter(p) ==
  /\ at[p] = "spawned" /\ gil = None
  /\ gil' = p /\ Goto(p, "push")
  /\ UNCHANGED <<slot, orphan, failed, out, router, stage, dispatch, dlock, eng, handle, consumer>>

(* RowAggregator.push: a second call while one is in progress raises, and  *)
(* fails its task.  A full group is taken before it is wrapped.            *)
Push(p) ==
  /\ at[p] = "push" /\ gil = p
  /\ IF borrowed # None
     THEN Goto(p, "fail") /\ UNCHANGED <<router, out>>
     ELSE LET all == rows \cup {p}
          IN IF Cardinality(all) >= GroupRows
             THEN /\ Goto(p, "wrap") /\ borrowed' = p /\ rows' = {}
                  /\ out' = [out EXCEPT ![p] = all]
             ELSE Goto(p, "back") /\ rows' = all /\ UNCHANGED <<borrowed, out>>
  /\ gil' = IF at'[p] = "wrap" THEN p ELSE None
  /\ UNCHANGED <<slot, orphan, failed, stage, dispatch, dlock, eng, handle, consumer>>

(* The group's constructor is Python code: the interpreter may switch to   *)
(* another thread, and back.                                               *)
LoseLock(p) ==
  /\ at[p] = "wrap" /\ gil = p /\ gil' = None
  /\ UNCHANGED <<worker, router, stage, dispatch, dlock, eng, handle, consumer>>

TakeLock(p) ==
  /\ at[p] = "wrap" /\ gil = None /\ gil' = p
  /\ UNCHANGED <<worker, router, stage, dispatch, dlock, eng, handle, consumer>>

(* Fault: the interpreter lock is kept while the group is emitted.         *)
WrapKeepsGil(p) ==
  /\ at[p] = "wrap" /\ gil = p
  /\ borrowed' = None /\ Goto(p, "emit")
  /\ UNCHANGED <<gil, slot, orphan, failed, out, rows, stage, dispatch, dlock, eng, handle, consumer>>

(* The call returns and the interpreter lock is released for the emit.     *)
Wrap(p) ==
  /\ at[p] = "wrap" /\ gil = p
  /\ gil' = None /\ borrowed' = None /\ Goto(p, "emit")
  /\ UNCHANGED <<slot, orphan, failed, out, rows, stage, dispatch, dlock, eng, handle, consumer>>

(* Emitter::enqueue: a full queue makes the thread give its permits back   *)
(* and wait; it goes on without them.  A closed queue is an error.         *)
Emit(p) ==
  /\ at[p] = "emit"
  /\ IF Closed THEN Goto(p, "fail") /\ UNCHANGED <<queue, stage, slot, free>>
     ELSE IF Room
     THEN queue' = Append(queue, out[p]) /\ Stage(out[p], "queued") /\ Goto(p, "back") /\ UNCHANGED <<slot, free>>
     ELSE /\ Goto(p, "blocked") /\ UNCHANGED queue
          /\ Stage(out[p], "sending")
          /\ slot' = slot \ {p} /\ free' = IF p \in slot THEN free + 1 ELSE free
  /\ UNCHANGED <<gil, orphan, failed, out, router, hand, dlock, eng, handle, consumer>>

Unblock(p) ==
  /\ at[p] = "blocked"
  /\ IF Closed THEN Goto(p, "fail") /\ Stage(out[p], "dropped") /\ UNCHANGED queue
     ELSE Room /\ queue' = Append(queue, out[p]) /\ Stage(out[p], "queued") /\ Goto(p, "back")
  /\ UNCHANGED <<gil, slot, orphan, failed, out, router, hand, free, dlock, eng, handle, consumer>>

(* Fault: the permits come back twice when emit already gave them back.    *)
ReturnReleases(p) ==
  /\ at[p] \in {"back", "fail"} /\ gil = None
  /\ Goto(p, "settled")
  /\ failed' = IF at[p] = "fail" THEN failed \cup {p} ELSE failed
  /\ slot' = slot \ {p} /\ free' = free + 1
  /\ UNCHANGED <<gil, orphan, out, router, stage, queue, hand, dlock, eng, handle, consumer>>

(* Fault: a thread whose task is gone does not give them back.             *)
ReturnLeaks(p) ==
  /\ at[p] \in {"back", "fail"} /\ gil = None
  /\ Goto(p, "settled")
  /\ failed' = IF at[p] = "fail" THEN failed \cup {p} ELSE failed
  /\ slot' = slot \ {p} /\ free' = IF p \in slot \ orphan THEN free + 1 ELSE free
  /\ UNCHANGED <<gil, orphan, out, router, stage, queue, hand, dlock, eng, handle, consumer>>

(* The thread takes the lock once more and returns: its emitter is dropped *)
(* and its task, if it still waits, settles.                               *)
Return(p) ==
  /\ at[p] \in {"back", "fail"} /\ gil = None
  /\ Goto(p, "settled")
  /\ failed' = IF at[p] = "fail" THEN failed \cup {p} ELSE failed
  /\ slot' = slot \ {p} /\ free' = IF p \in slot THEN free + 1 ELSE free
  /\ UNCHANGED <<gil, orphan, out, router, stage, queue, hand, dlock, eng, handle, consumer>>

-----------------------------------------------------------------------------
(* A group: PyDataset takes its own lock, then the interpreter's; the      *)
(* collector has one instance; its task is consumed at the end.            *)

LockDataset(g) ==
  /\ stage[g] \in {"admit", "consume"} /\ dlock = None
  /\ dlock' = g /\ Stage(g, IF stage[g] = "admit" THEN "put" ELSE "mark")
  /\ UNCHANGED <<gil, worker, router, dispatch, eng, handle, consumer>>

CallDataset(g) ==
  /\ stage[g] \in {"put", "mark"} /\ gil = None
  /\ dlock' = None
  /\ IF stage[g] = "put" THEN Stage(g, "slot") /\ UNCHANGED free
     ELSE Stage(g, "settled") /\ free' = free + 1
  /\ UNCHANGED <<gil, worker, router, queue, hand, eng, handle, consumer>>

CollectorFree == \A g \in Group : stage[g] \notin {"attach", "send"}

TakeSlot(g) ==
  /\ stage[g] = "slot" /\ (CollectorFree \/ eng = "cancel")
  /\ IF eng = "cancel" THEN Stage(g, "dropped") /\ free' = free + 1
     ELSE Stage(g, "attach") /\ UNCHANGED free
  /\ UNCHANGED <<gil, worker, router, queue, hand, dlock, eng, handle, consumer>>

Attach(g) ==
  /\ stage[g] = "attach" /\ gil = None
  /\ Stage(g, "send")
  /\ UNCHANGED <<gil, worker, router, dispatch, dlock, eng, handle, consumer>>

(* CollectorSink: the error of a closed channel is ignored.                *)
Collect(g) ==
  /\ stage[g] = "send" /\ (rxOpen => Len(chan) < Stream)
  /\ chan' = IF rxOpen THEN Append(chan, g) ELSE chan
  /\ Stage(g, "consume")
  /\ UNCHANGED <<gil, worker, router, dispatch, dlock, eng, shutdown, rxOpen, consumer>>

-----------------------------------------------------------------------------
(* StreamHandle and the training loop (TaskStream._drain).                 *)

(* __next__ waits with the interpreter lock released.                      *)
NextItem ==
  /\ con = "train" /\ gil = None /\ con' = "recv"
  /\ UNCHANGED <<gil, worker, router, stage, dispatch, dlock, eng, handle, early, window, yielded>>

(* An item goes through the shuffle window, which hands on another one     *)
(* once it is full.                                                        *)
Receive ==
  /\ con = "recv" /\ chan # <<>> /\ gil = None
  /\ chan' = Tail(chan)
  /\ LET all == window \cup {Head(chan)}
     IN IF Cardinality(all) <= Window
        THEN window' = all /\ UNCHANGED yielded
        ELSE \E g \in (IF Window = 0 THEN all ELSE window) :
               window' = all \ {g} /\ yielded' = Append(yielded, g)
  /\ con' = "train"
  /\ UNCHANGED <<gil, worker, router, stage, dispatch, dlock, eng, shutdown, rxOpen, early>>

(* All senders are gone: drop the receiver, then join the thread.          *)
StreamClosed ==
  /\ con = "recv" /\ chan = <<>> /\ Closed
  /\ rxOpen' = FALSE /\ con' = "join"
  /\ UNCHANGED <<gil, worker, router, stage, dispatch, dlock, eng, shutdown, chan, early, window, yielded>>

(* The loop is left: close triggers the shutdown, drops the receiver with  *)
(* what it holds and joins.                                                *)
Close ==
  /\ con = "train" /\ gil = None
  /\ shutdown' = TRUE /\ rxOpen' = FALSE /\ chan' = <<>>
  /\ con' = "join" /\ early' = TRUE
  /\ UNCHANGED <<gil, worker, router, stage, dispatch, dlock, eng, window, yielded>>

Join ==
  /\ con = "join" /\ eng = "exited" /\ con' = "stop"
  /\ UNCHANGED <<gil, worker, router, stage, dispatch, dlock, eng, handle, early, window, yielded>>

(* StopIteration: the rest of the window is handed on; its shuffled order   *)
(* is left out.                                                            *)
Finish ==
  /\ con = "stop" /\ gil = None
  /\ yielded' = IF early THEN yielded ELSE yielded \o SetToSeq(window)
  /\ window' = {} /\ con' = "done"
  /\ UNCHANGED <<gil, worker, router, stage, dispatch, dlock, eng, handle, early>>

-----------------------------------------------------------------------------
Thread(p) == Enter(p) \/ Push(p) \/ Wrap(p) \/ Emit(p) \/ Unblock(p) \/ Return(p)
Sink(g) == LockDataset(g) \/ CallDataset(g) \/ TakeSlot(g) \/ Attach(g) \/ Collect(g)
Engine == \/ Recv \/ Dispatch \/ Flush \/ Observe \/ EndRun \/ DrainOne \/ Grace
          \/ DropEngine \/ SetOutcome \/ DropRuntime
          \/ \E p \in Piece : Feed(p) \/ Cancel(p)
          \/ \E g \in Group : FeedGroup(g) \/ CancelGroup(g)
Reading == NextItem \/ Receive \/ StreamClosed \/ Join \/ Finish

Threads == \E p \in Piece : Thread(p)
Regain == \E p \in Piece : TakeLock(p)
Sinks == \E g \in Group : Sink(g)

Next == \/ Engine \/ Reading \/ Close
        \/ Threads \/ Regain \/ Sinks \/ \E p \in Piece : LoseLock(p)

Spec == Init /\ [][Next]_vars

(* The interpreter hands its lock to whoever waits for it, the runtime     *)
(* polls what is ready, and the consumer keeps reading or closes.          *)
FairSpec ==
  /\ Spec
  /\ SF_vars(Engine) /\ SF_vars(Reading)
  /\ SF_vars(Threads) /\ SF_vars(Regain) /\ SF_vars(Sinks)

-----------------------------------------------------------------------------
TypeOK ==
  /\ gil \in Piece \cup {None} /\ borrowed \in Piece \cup {None}
  /\ at \in [Piece -> {"seed", "queued", "settled"} \cup Running]
  /\ slot \subseteq Piece /\ orphan \subseteq Piece /\ failed \subseteq Piece
  /\ rows \subseteq Piece /\ out \in [Piece -> SUBSET Piece]
  /\ Len(queue) <= Capacity /\ Len(chan) <= Stream /\ window \subseteq Group
  /\ free \in 0..Permits

(* A stream that ends by itself delivered every piece: each is in exactly  *)
(* one group the loop was handed, or its task is reported as failed        *)
(* (RowAggregator, CollectorSink, StreamHandle.__next__).                  *)
StreamExact ==
  con = "done" /\ ~early =>
    \A p \in Piece :
      Cardinality({i \in DOMAIN yielded : p \in yielded[i]}) = IF p \in failed THEN 0 ELSE 1

(* Whatever was cancelled or timed its last emission with the end of the   *)
(* run, nothing is left behind it: the permits are back, no lock is held   *)
(* and no group is half way (RunSlot, Emitter::enqueue, join_thread).      *)
CleanExit ==
  eng = "exited" =>
    /\ free = Permits /\ slot = {} /\ queue = <<>>
    /\ {gil, borrowed, dlock, hand} = {None}
    /\ \A p \in Piece : at[p] = "settled"
    /\ \A g \in Group : stage[g] \in {"none", "settled", "dropped"}

(* Neither the interpreter lock, nor the two bounded queues, nor the       *)
(* dataset's lock can stop the iteration: it ends whether the consumer     *)
(* reads to the end or closes the handle (Ctx::emit, StreamHandle::close). *)
IterationEnds == <>(con = "done")
=============================================================================
