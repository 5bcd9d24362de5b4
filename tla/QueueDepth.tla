----------------------------- MODULE QueueDepth -----------------------------
(***************************************************************************)
(* The counters beside the run queue: Queue::depth and the queued count of *)
(* each type, against the channel they describe and the samples a monitor  *)
(* takes of them.                                                          *)
(*                                                                         *)
(* A producer sends and then notes, the dispatcher receives and then       *)
(* notes; each note changes two atomics one after the other.  The counters *)
(* are unsigned words: they wrap.  The run ends when nothing is in flight, *)
(* with one last sample; it waits for the notes of an emitter, whose own   *)
(* envelope is in flight, but not for those of a detached sender.          *)
(***************************************************************************)
EXTENDS Integers, FiniteSets, Sequences

CONSTANTS
  Producer,   \* tasks, feeders and emitter threads that send
  Detached,   \* those the run does not wait for: feeders, retries
  Type,       \* routing keys of the registered workers
  Batch,      \* the types each producer sends, in order
  Cap,        \* capacity of the channel
  Width       \* values of a counter: 0 .. Width - 1

ASSUME QueueDepthAssumption ==
  /\ IsFiniteSet(Producer) /\ Detached \subseteq Producer
  /\ Batch \in [Producer -> Seq(Type)]
  /\ Cap \in Nat \ {0}
  /\ Width \in Nat /\ Width > 2 * (Cap + Cardinality(Producer) + 1)

VARIABLES
  chan,     \* the channel: types of the queued envelopes
  sent,     \* how much of its batch each producer has sent
  note,     \* what each producer has still to note: "none", "depth", "group"
  rnote,    \* the same of the dispatcher
  rkey,     \* type of the envelope the dispatcher received last
  depth,    \* Queue::depth
  queued,   \* WorkerGroup::queued
  sample,   \* the depth and queued counts the monitor saw last
  left,     \* types whose count the sample being taken has not read yet
  over      \* the loops of run_to_completion have ended

vars == <<chan, sent, note, rnote, rkey, depth, queued, sample, left, over>>

(* Fault: a subtraction that stops at zero.                                *)
DownSaturating(n) == IF n = 0 THEN 0 ELSE n - 1

(* fetch_add and fetch_sub of an unsigned word.                            *)
Up(n)   == IF n = Width - 1 THEN 0 ELSE n + 1
Down(n) == IF n = 0 THEN Width - 1 ELSE n - 1

Init ==
  /\ chan = <<>>
  /\ sent = [p \in Producer |-> 0]
  /\ note = [p \in Producer |-> "none"]
  /\ rnote = "none" /\ rkey \in Type
  /\ depth = 0 /\ queued = [t \in Type |-> 0]
  /\ sample = [depth |-> 0, queued |-> queued]
  /\ left = {} /\ over = FALSE

-----------------------------------------------------------------------------
(* Queue::try_send, send and blocking_send.                                *)

SendUnnoted(p) ==                                 \* Fault: nothing is noted.
  /\ note[p] = "none" /\ sent[p] < Len(Batch[p]) /\ Len(chan) < Cap
  /\ chan' = Append(chan, Batch[p][sent[p] + 1])
  /\ sent' = [sent EXCEPT ![p] = @ + 1]
  /\ UNCHANGED <<note, rnote, rkey, depth, queued, sample, left, over>>

(* A full channel refuses the envelope or suspends the sender.             *)
Send(p) ==
  /\ note[p] = "none" /\ sent[p] < Len(Batch[p]) /\ Len(chan) < Cap
  /\ chan' = Append(chan, Batch[p][sent[p] + 1])
  /\ sent' = [sent EXCEPT ![p] = @ + 1]
  /\ note' = [note EXCEPT ![p] = "depth"]
  /\ UNCHANGED <<rnote, rkey, depth, queued, sample, left, over>>

(* Queue::note_enqueued.                                                   *)
NoteDepth(p) ==
  /\ note[p] = "depth"
  /\ depth' = Up(depth)
  /\ note' = [note EXCEPT ![p] = "group"]
  /\ UNCHANGED <<chan, sent, rnote, rkey, queued, sample, left, over>>

NoteGroup(p) ==
  /\ note[p] = "group"
  /\ queued' = [queued EXCEPT ![Batch[p][sent[p]]] = Up(@)]
  /\ note' = [note EXCEPT ![p] = "none"]
  /\ UNCHANGED <<chan, sent, rnote, rkey, depth, sample, left, over>>

-----------------------------------------------------------------------------
(* The dispatcher: recv, Queue::note_dequeued, the sampling tick, the end. *)

Recv ==
  /\ ~over /\ rnote = "none" /\ left = {} /\ chan # <<>>
  /\ rkey' = Head(chan) /\ chan' = Tail(chan)
  /\ rnote' = "depth"
  /\ UNCHANGED <<sent, note, depth, queued, sample, left, over>>

UnnoteDepth ==
  /\ rnote = "depth"
  /\ depth' = Down(depth)
  /\ rnote' = "group"
  /\ UNCHANGED <<chan, sent, note, rkey, queued, sample, left, over>>

UnnoteNothing ==                  \* Fault: the type's counter is forgotten.
  /\ rnote = "group"
  /\ rnote' = "none"
  /\ UNCHANGED <<chan, sent, note, rkey, depth, queued, sample, left, over>>

UnnoteGroup ==
  /\ rnote = "group"
  /\ queued' = [queued EXCEPT ![rkey] = Down(@)]
  /\ rnote' = "none"
  /\ UNCHANGED <<chan, sent, note, rkey, depth, sample, left, over>>

(* A tick does not fall between a receive and its note, but snapshot reads *)
(* the counters one by one.                                                *)
SampleDepth ==
  /\ ~over /\ rnote = "none" /\ left = {}
  /\ sample' = [sample EXCEPT !.depth = depth]
  /\ left' = Type
  /\ UNCHANGED <<chan, sent, note, rnote, rkey, depth, queued, over>>

SampleQueued ==
  \E t \in left :
    /\ sample' = [sample EXCEPT !.queued[t] = queued[t]]
    /\ left' = left \ {t}
    /\ UNCHANGED <<chan, sent, note, rnote, rkey, depth, queued, over>>

LastSampleUnawaited ==              \* Fault: emitters are not waited for.
  /\ ~over /\ rnote = "none" /\ left = {} /\ chan = <<>>
  /\ \A p \in Producer : sent[p] = Len(Batch[p])
  /\ over' = TRUE
  /\ sample' = [sample EXCEPT !.depth = depth]
  /\ left' = Type
  /\ UNCHANGED <<chan, sent, note, rnote, rkey, depth, queued>>

(* Nothing is in flight: all was sent and received, and an emitter whose   *)
(* envelope is done has returned from its sends.                           *)
LastSample ==
  /\ ~over /\ rnote = "none" /\ left = {} /\ chan = <<>>
  /\ \A p \in Producer : sent[p] = Len(Batch[p])
  /\ \A p \in Producer \ Detached : note[p] = "none"
  /\ over' = TRUE
  /\ sample' = [sample EXCEPT !.depth = depth]
  /\ left' = Type
  /\ UNCHANGED <<chan, sent, note, rnote, rkey, depth, queued>>

Producing(p) == Send(p) \/ NoteDepth(p) \/ NoteGroup(p)
Receiving    == Recv \/ UnnoteDepth \/ UnnoteGroup
Sampling     == SampleDepth \/ SampleQueued \/ LastSample

Next == (\E p \in Producer : Producing(p)) \/ Receiving \/ Sampling

Spec == Init /\ [][Next]_vars

FairSpec == /\ Spec
            /\ \A p \in Producer : WF_vars(Producing(p))
            /\ SF_vars(Receiving) /\ WF_vars(SampleQueued) /\ SF_vars(LastSample)

-----------------------------------------------------------------------------
Noting(S) == {p \in Producer : note[p] \in S}
Signed(n) == IF 2 * n < Width THEN n ELSE n - Width

TypeOK ==
  /\ chan \in Seq(Type) /\ Len(chan) <= Cap
  /\ sent \in [Producer -> Nat]
  /\ \A p \in Producer : sent[p] <= Len(Batch[p])
  /\ note \in [Producer -> {"none", "depth", "group"}]
  /\ \A p \in Producer : note[p] # "none" => sent[p] > 0
  /\ rnote \in {"none", "depth", "group"} /\ rkey \in Type
  /\ depth \in 0 .. Width - 1
  /\ queued \in [Type -> 0 .. Width - 1]
  /\ sample \in [depth : 0 .. Width - 1, queued : [Type -> 0 .. Width - 1]]
  /\ left \subseteq Type /\ over \in BOOLEAN

(* The depth differs from the length of the channel by exactly the notes   *)
(* that are still to be taken, whatever the order of sends and receives.   *)
DepthLedger ==
  Signed(depth) = Len(chan) + (IF rnote = "depth" THEN 1 ELSE 0)
                    - Cardinality(Noting({"depth"}))

(* The count of a type likewise.                                           *)
QueuedLedger ==
  \A t \in Type :
    Signed(queued[t])
      = Cardinality({i \in DOMAIN chan : chan[i] = t})
        + (IF rnote # "none" /\ rkey = t THEN 1 ELSE 0)
        - Cardinality({p \in Noting({"depth", "group"}) : Batch[p][sent[p]] = t})

(* What a monitor is shown last.  No counter stands above zero, and each   *)
(* falls short of it by at most the senders the run does not wait for,     *)
(* those that have sent and not yet noted: a count of an unsigned word may *)
(* then be shown as a very large one.  Without such senders it is zero.    *)
Short(n) == Signed(n) \in -Cardinality(Detached) .. 0

FinalSampleShort ==
  over => /\ Short(sample.depth)
          /\ \A t \in Type \ left : Short(sample.queued[t])

(* The run ends and the counters themselves come to rest at zero, whatever *)
(* the last sample showed: every send is noted in the end.                 *)
DepthSettles ==
  <>[](over /\ depth = 0 /\ \A t \in Type : queued[t] = 0)
=============================================================================
