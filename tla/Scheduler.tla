----------------------------- MODULE Scheduler -----------------------------
(***************************************************************************)
(* One call of bask-core's scheduler::run: the dispatcher loop, the        *)
(* bounded queue, the run permits, the spawned task of each dispatched     *)
(* envelope, backpressure in Context::emit, retries, the two phases of a   *)
(* shutdown and the in-flight count that decides when the run is over.     *)
(*                                                                         *)
(* A task here is one Envelope.  Its payload, its type and the choice of   *)
(* instance (Group::select) are abstracted: any instance may be selected   *)
(* and any dispatch may be rejected (no worker, no eligible instance, a    *)
(* checkpoint error).  Each step below runs between two suspension points  *)
(* of the code, or is an atomic operation other threads can observe.       *)
(***************************************************************************)
EXTENDS Naturals, Sequences, FiniteSets

CONSTANTS
  Task,          \* the envelopes that can come to exist (bounds emission)
  Seeds,         \* the envelopes prepare_seeds hands to the seed feeder
  Instance,      \* the worker instances
  Sem,           \* the semaphores: global, one per instance, resource pools
  Global,        \* the concurrency semaphore of the run
  Slots,         \* Slots[i]: the semaphores a task on i acquires, in order
  Permits,       \* Permits[s]: the permits semaphore s is created with
  Capacity,      \* queue_capacity
  MaxAttempts,   \* RetryPolicy::max_attempts
  Nobody,        \* no instance, no child
  HasRouters,    \* a router or a flush hook is registered
  HasTimeout,    \* the instances have a timeout
  Durable,       \* a durability store is configured
  CanShutdown,   \* somebody may trigger the Shutdown handle
  MayPanic       \* process (or the backoff arithmetic) may panic

(* An instance's slot starts with the global permit; semaphores appear     *)
(* once (requires() does not list a pool twice).                           *)
ASSUME SchedulerAssumption ==
  /\ IsFiniteSet(Task) /\ Seeds \subseteq Task
  /\ Global \in Sem
  /\ Slots \in [Instance -> Seq(Sem)]
  /\ \A i \in Instance :
       /\ Slots[i] # <<>> /\ Slots[i][1] = Global
       /\ \A j, k \in DOMAIN Slots[i] : Slots[i][j] = Slots[i][k] => j = k
  /\ Permits \in [Sem -> Nat \ {0}]
  /\ Capacity \in Nat \ {0} /\ MaxAttempts \in Nat \ {0}
  /\ Nobody \notin Instance /\ Nobody \notin Task
  /\ {HasRouters, HasTimeout, Durable, CanShutdown, MayPanic} \subseteq BOOLEAN

VARIABLES
  stage,        \* where each task is (below)
  queue,        \* the bounded mpsc channel
  inFlight,     \* InFlight::count
  owes,         \* ended tasks whose in_flight.dec() has not run yet
  child,        \* the task a parked worker is blocked emitting
  inst,         \* the instance a dispatched task was given
  held,         \* the permits each task holds
  free,         \* available permits of each semaphore
  attempt,      \* Envelope::attempt
  loop,         \* the dispatcher's program counter
  shutdown,     \* the Shutdown latch
  cancel,       \* the Cancel latch
  interrupted,  \* RunReport::interrupted
  extents       \* record_extents ran

vars == <<stage, queue, inFlight, owes, child, inst, held, free, attempt,
          loop, shutdown, cancel, interrupted, extents>>

taskVars   == <<child, inst, held, free, attempt>>
latchVars  == <<shutdown, cancel>>
resultVars == <<interrupted, extents>>
dispVars   == <<loop, shutdown, cancel, interrupted, extents>>

-----------------------------------------------------------------------------
(* Stages of a task.                                                       *)
(*   unborn     not created yet                                            *)
(*   feeding    counted, in the list of a seed or flush feeder             *)
(*   sending    counted, its emitter is parked in Queue::send              *)
(*   queued     in the channel                                             *)
(*   hand       received by the dispatcher, waiting for the global permit  *)
(*   admit      dispatched, checkpoint admission and selection to come     *)
(*   acquire    waiting for its instance and pool permits                  *)
(*   run        its worker's process is running                            *)
(*   park       process is suspended in emit on a full queue               *)
(*   regain     process is suspended in RunSlot::reacquire                 *)
(*   delay      sleeping before a retry                                    *)
(*   resend     waiting for queue capacity before a retry                  *)
(*   lost       counted, but nothing holds the envelope any more           *)
Waiting == {"feeding", "sending", "resend"}
Inside  == {"run", "park", "regain"}
Live    == {"feeding", "sending", "queued", "hand", "admit", "acquire", "run",
            "park", "regain", "delay", "resend", "lost"}
Ended   == {"processed", "failed", "skipped", "unfinished"}
Stage   == {"unborn"} \cup Live \cup Ended

In(S)  == {t \in Task : stage[t] \in S}
Unborn == In({"unborn"})

Init ==
  /\ stage = [t \in Task |-> IF t \in Seeds THEN "feeding" ELSE "unborn"]
  /\ queue = <<>>
  /\ inFlight = Cardinality(Seeds)
  /\ owes = {}
  /\ child = [t \in Task |-> Nobody]
  /\ inst = [t \in Task |-> Nobody]
  /\ held = [t \in Task |-> {}]
  /\ free = Permits
  /\ attempt = [t \in Task |-> 0]
  /\ loop = "check"
  /\ shutdown = FALSE /\ cancel = FALSE
  /\ interrupted = FALSE /\ extents = FALSE

-----------------------------------------------------------------------------
(* Helpers.                                                                *)

(* Fault: an unbounded channel.                                            *)
RoomUnbounded == TRUE

Room == Len(queue) < Capacity

(* Queue::try_send reports Full when every slot is taken or promised to a  *)
(* sender that already waits; which waiter gets a slot first is left open. *)
Full == Len(queue) + Cardinality(In(Waiting)) >= Capacity

Enqueue(t) ==
  /\ Room
  /\ queue' = Append(queue, t)

(* Fault: permits are freed but not taken out of the RunSlot, so that      *)
(* dropping it frees them again.                                           *)
ReleaseKeepsHeld(t) ==
  /\ free' = [s \in Sem |-> IF s \in held[t] THEN free[s] + 1 ELSE free[s]]
  /\ UNCHANGED held

(* RunSlot::release and dropping the RunSlot both free every permit held.  *)
ReleaseSlot(t) ==
  /\ held' = [held EXCEPT ![t] = {}]
  /\ free' = [s \in Sem |-> IF s \in held[t] THEN free[s] + 1 ELSE free[s]]

(* Fault: the permits are kept until the spawned task itself ends.         *)
LeaveSlotHolding(t) ==
  /\ inst' = [inst EXCEPT ![t] = Nobody]
  /\ child' = [child EXCEPT ![t] = Nobody]
  /\ UNCHANGED <<held, free>>

(* The spawned task of t leaves process (or never gets there): its permits *)
(* are dropped and its next dispatch will select an instance again.        *)
LeaveSlot(t) ==
  /\ ReleaseSlot(t)
  /\ inst' = [inst EXCEPT ![t] = Nobody]
  /\ child' = [child EXCEPT ![t] = Nobody]

(* t moves to stage s.  If its process future is dropped while parked, the *)
(* envelope it was sending goes with it.                                   *)
MoveFrom(t, s) ==
  stage' = [u \in Task |->
              IF u = t THEN s
              ELSE IF stage[t] = "park" /\ u = child[t] THEN "lost"
              ELSE stage[u]]

(* The outcome is recorded first; in_flight.dec() follows.                 *)
EndFrom(t, o) ==
  /\ MoveFrom(t, o)
  /\ owes' = owes \cup {t}

(* Fault: permits are acquired in no particular order.                     *)
NextSemAnyOrder(t, s) ==
  \E k \in DOMAIN Slots[inst[t]] : s = Slots[inst[t]][k] /\ s \notin held[t]

(* The next semaphore t must acquire: the first of its slot not yet held.  *)
NextSem(t, s) ==
  \E k \in DOMAIN Slots[inst[t]] :
    /\ s = Slots[inst[t]][k] /\ s \notin held[t]
    /\ \A j \in DOMAIN Slots[inst[t]] : j < k => Slots[inst[t]][j] \in held[t]

SlotOf(t) == {Slots[inst[t]][k] : k \in DOMAIN Slots[inst[t]]}

-----------------------------------------------------------------------------
(* The dispatcher.                                                         *)

(* The head of `while !in_flight.is_zero()`: go on to the select.          *)
Look ==
  /\ loop = "check" /\ inFlight # 0 /\ ~shutdown
  /\ loop' = "select"
  /\ UNCHANGED <<stage, queue, inFlight, owes, taskVars, latchVars, resultVars>>

(* The select returns through the shutdown, idle or ticker branch; only    *)
(* wake-ups after which the loop head decides otherwise are shown.         *)
Wake ==
  /\ loop = "select" /\ (inFlight = 0 \/ shutdown)
  /\ loop' = "check"
  /\ UNCHANGED <<stage, queue, inFlight, owes, taskVars, latchVars, resultVars>>

(* The select returns through rx.recv(): the dispatcher now holds the      *)
(* envelope and waits for a global permit inside the branch.               *)
Recv ==
  /\ loop = "select" /\ queue # <<>>
  /\ queue' = Tail(queue)
  /\ stage' = [stage EXCEPT ![Head(queue)] = "hand"]
  /\ loop' = "permit"
  /\ UNCHANGED <<inFlight, owes, taskVars, latchVars, resultVars>>

(* The global permit arrives and the task is spawned.                      *)
Dispatch(t) ==
  /\ loop = "permit" /\ stage[t] = "hand" /\ free[Global] > 0
  /\ free' = [free EXCEPT ![Global] = @ - 1]
  /\ held' = [held EXCEPT ![t] = {Global}]
  /\ stage' = [stage EXCEPT ![t] = "admit"]
  /\ loop' = "check"
  /\ UNCHANGED <<queue, inFlight, owes, child, inst, attempt, latchVars,
                 resultVars>>

(* Quiescence or shutdown with no router to flush: phase 1 is over.        *)
EndEpochs ==
  /\ loop = "check" /\ (inFlight = 0 \/ shutdown)
  /\ shutdown \/ ~HasRouters
  /\ loop' = "phase2"
  /\ UNCHANGED <<stage, queue, inFlight, owes, taskVars, latchVars, resultVars>>

(* Quiescence with routers: flush_all and the hook emit the set S of new   *)
(* envelopes; all are counted before a feeder sends them.  An empty flush  *)
(* ends phase 1.                                                           *)
Flush(S) ==
  /\ loop = "check" /\ inFlight = 0 /\ ~shutdown /\ HasRouters
  /\ stage' = [t \in Task |-> IF t \in S THEN "feeding" ELSE stage[t]]
  /\ inFlight' = inFlight + Cardinality(S)
  /\ loop' = IF S = {} THEN "phase2" ELSE "check"
  /\ UNCHANGED <<queue, owes, taskVars, latchVars, resultVars>>

(* Fault: a run counts as interrupted only once the grace period is over.  *)
Phase2IfCancelled ==
  /\ loop = "phase2"
  /\ interrupted' = cancel
  /\ loop' = IF shutdown THEN "drain" ELSE "stop"
  /\ UNCHANGED <<stage, queue, inFlight, owes, taskVars, latchVars, extents>>

(* Phase 2 begins: the shutdown flag is read again and decides whether the *)
(* run counts as interrupted.                                              *)
Phase2 ==
  /\ loop = "phase2"
  /\ interrupted' = shutdown
  /\ loop' = IF shutdown THEN "drain" ELSE "stop"
  /\ UNCHANGED <<stage, queue, inFlight, owes, taskVars, latchVars, extents>>

(* Fault: the run gives up instead of cancelling and waiting.              *)
GraceElapsedReturns ==
  /\ loop = "drain" /\ inFlight # 0 /\ ~cancel
  /\ cancel' = TRUE /\ loop' = "stop"
  /\ UNCHANGED <<stage, queue, inFlight, owes, taskVars, shutdown, resultVars>>

GraceElapsed ==
  /\ loop = "drain" /\ inFlight # 0 /\ ~cancel
  /\ cancel' = TRUE
  /\ UNCHANGED <<stage, queue, inFlight, owes, taskVars, loop, shutdown,
                 resultVars>>

(* Phase 2 abandons every envelope it receives.                            *)
DrainRecv ==
  /\ loop = "drain" /\ inFlight # 0 /\ queue # <<>>
  /\ queue' = Tail(queue)
  /\ stage' = [stage EXCEPT ![Head(queue)] = "unfinished"]
  /\ inFlight' = inFlight - 1
  /\ UNCHANGED <<owes, taskVars, dispVars>>

(* Fault: the loop ends when a single task is left.                        *)
DrainedEarly ==
  /\ loop = "drain" /\ inFlight <= 1
  /\ loop' = "stop"
  /\ UNCHANGED <<stage, queue, inFlight, owes, taskVars, latchVars, resultVars>>

Drained ==
  /\ loop = "drain" /\ inFlight = 0
  /\ loop' = "stop"
  /\ UNCHANGED <<stage, queue, inFlight, owes, taskVars, latchVars, resultVars>>

(* Fault: extents are recorded without looking at the interruption.        *)
StopIgnoresInterrupt(F) ==
  /\ loop = "stop"
  /\ extents' = (Durable /\ F = {} /\ In({"failed"}) = {})
  /\ loop' = "done"
  /\ UNCHANGED <<stage, queue, inFlight, owes, taskVars, latchVars, interrupted>>

(* on_stop runs on every instance, F of them fail; extents are recorded    *)
(* after a clean pass; the report is built and run returns.                *)
Stop(F) ==
  /\ loop = "stop"
  /\ extents' = (Durable /\ ~interrupted /\ F = {} /\ In({"failed"}) = {})
  /\ loop' = "done"
  /\ UNCHANGED <<stage, queue, inFlight, owes, taskVars, latchVars, interrupted>>

(* Shutdown::trigger, from a signal handler or any other task.             *)
Trigger ==
  /\ CanShutdown /\ ~shutdown /\ loop # "done"
  /\ shutdown' = TRUE
  /\ UNCHANGED <<stage, queue, inFlight, owes, taskVars, loop, cancel,
                 resultVars>>

-----------------------------------------------------------------------------
(* The spawned task of one dispatched envelope.                            *)

(* Outcomes dispatch can reach before a worker runs: checkpoint admission  *)
(* finished the item, or the dispatch failed.                              *)
Early == IF Durable THEN {"skipped", "processed", "failed"} ELSE {"failed"}

Reject(t) ==
  /\ stage[t] = "admit"
  /\ \E o \in Early : EndFrom(t, o)
  /\ LeaveSlot(t)
  /\ UNCHANGED <<queue, inFlight, attempt, dispVars>>

Select(t) ==
  /\ stage[t] = "admit"
  /\ \E i \in Instance : inst' = [inst EXCEPT ![t] = i]
  /\ stage' = [stage EXCEPT ![t] = "acquire"]
  /\ UNCHANGED <<queue, inFlight, owes, child, held, free, attempt, dispVars>>

(* One acquire_owned() of dispatch or of RunSlot::reacquire.               *)
Acquire(t) ==
  /\ stage[t] \in {"acquire", "regain"}
  /\ \E s \in Sem :
       /\ NextSem(t, s) /\ free[s] > 0
       /\ free' = [free EXCEPT ![s] = @ - 1]
       /\ held' = [held EXCEPT ![t] = @ \cup {s}]
  /\ UNCHANGED <<stage, queue, inFlight, owes, child, inst, attempt, dispVars>>

(* All permits are held.  The select polls the cancellation first, so a    *)
(* cancelled run never enters process.                                     *)
Enter(t) ==
  /\ stage[t] \in {"acquire", "regain"} /\ SlotOf(t) \subseteq held[t]
  /\ ~cancel
  /\ stage' = [stage EXCEPT ![t] = "run"]
  /\ UNCHANGED <<queue, inFlight, owes, taskVars, dispVars>>

CancelBeforeRun(t) ==
  /\ stage[t] = "acquire" /\ SlotOf(t) \subseteq held[t]
  /\ cancel
  /\ EndFrom(t, "unfinished")
  /\ LeaveSlot(t)
  /\ UNCHANGED <<queue, inFlight, attempt, dispVars>>

(* Fault: a task that lands in the queue at once is not counted.           *)
EmitUncounted(t, c) ==
  /\ stage[t] = "run" /\ stage[c] = "unborn"
  /\ Enqueue(c)
  /\ stage' = [stage EXCEPT ![c] = "queued"]
  /\ UNCHANGED <<inFlight, owes, taskVars, dispVars>>

(* Context::emit of a new task c: counted first, then try_send.            *)
Emit(t, c) ==
  /\ stage[t] = "run" /\ stage[c] = "unborn"
  /\ inFlight' = inFlight + 1
  /\ Enqueue(c)
  /\ stage' = [stage EXCEPT ![c] = "queued"]
  /\ UNCHANGED <<owes, taskVars, dispVars>>

(* try_send found the queue full: every permit is released before waiting. *)
EmitParks(t, c) ==
  /\ stage[t] = "run" /\ stage[c] = "unborn"
  /\ Full
  /\ inFlight' = inFlight + 1
  /\ stage' = [stage EXCEPT ![c] = "sending", ![t] = "park"]
  /\ child' = [child EXCEPT ![t] = c]
  /\ ReleaseSlot(t)
  /\ UNCHANGED <<queue, owes, inst, attempt, dispVars>>

(* Queue::send of the parked emitter completes; it must reacquire.         *)
Unpark(t) ==
  /\ stage[t] = "park"
  /\ Enqueue(child[t])
  /\ stage' = [stage EXCEPT ![child[t]] = "queued", ![t] = "regain"]
  /\ child' = [child EXCEPT ![t] = Nobody]
  /\ UNCHANGED <<inFlight, owes, inst, held, free, attempt, dispVars>>

(* process returned Ok.                                                    *)
Complete(t) ==
  /\ stage[t] = "run"
  /\ EndFrom(t, "processed")
  /\ LeaveSlot(t)
  /\ UNCHANGED <<queue, inFlight, attempt, dispVars>>

(* RetryPolicy::decide says retry: at once or after a backoff.             *)
Retry(t) ==
  /\ attempt[t] + 1 < MaxAttempts
  /\ \E s \in {"resend", "delay"} : MoveFrom(t, s)
  /\ attempt' = [attempt EXCEPT ![t] = @ + 1]
  /\ LeaveSlot(t)
  /\ UNCHANGED <<queue, inFlight, owes, dispVars>>

FailTask(t) ==
  /\ EndFrom(t, "failed")
  /\ LeaveSlot(t)
  /\ UNCHANGED <<queue, inFlight, attempt, dispVars>>

(* process returned Err: retried, unless fatal or out of attempts.         *)
Error(t) ==
  /\ stage[t] = "run"
  /\ Retry(t) \/ FailTask(t)

(* tokio::time::timeout drops the process future wherever it is suspended; *)
(* the timeout error carries no hint, so only exhaustion is terminal.      *)
Timeout(t) ==
  /\ HasTimeout /\ stage[t] \in Inside
  /\ Retry(t) \/ (attempt[t] + 1 >= MaxAttempts /\ FailTask(t))

(* Fault: process is awaited without the cancellation branch.              *)
CancelTaskNever(t) == FALSE

(* The biased select sees the cancellation and drops the process future.   *)
CancelTask(t) ==
  /\ cancel /\ stage[t] \in Inside
  /\ EndFrom(t, "unfinished")
  /\ LeaveSlot(t)
  /\ UNCHANGED <<queue, inFlight, attempt, dispVars>>

(* process panics: the spawned task unwinds, which drops its permits and   *)
(* nothing else.                                                           *)
Panic(t) ==
  /\ MayPanic /\ stage[t] = "run"
  /\ MoveFrom(t, "lost")
  /\ LeaveSlot(t)
  /\ UNCHANGED <<queue, inFlight, owes, attempt, dispVars>>

DelayElapsed(t) ==
  /\ stage[t] = "delay"
  /\ stage' = [stage EXCEPT ![t] = "resend"]
  /\ UNCHANGED <<queue, inFlight, owes, taskVars, dispVars>>

CancelDelay(t) ==
  /\ stage[t] = "delay" /\ cancel
  /\ EndFrom(t, "unfinished")
  /\ UNCHANGED <<queue, inFlight, taskVars, dispVars>>

(* A feeder or a retry gets queue capacity.                                *)
Send(t) ==
  /\ stage[t] \in {"feeding", "resend"}
  /\ Enqueue(t)
  /\ stage' = [stage EXCEPT ![t] = "queued"]
  /\ UNCHANGED <<inFlight, owes, taskVars, dispVars>>

(* Fault: a task is discounted by two of its paths.                        *)
DecTwice(t) ==
  /\ t \in owes
  /\ inFlight' = inFlight - 1
  /\ UNCHANGED <<stage, queue, owes, taskVars, dispVars>>

(* in_flight.dec() after the outcome was recorded.                         *)
Dec(t) ==
  /\ t \in owes
  /\ owes' = owes \ {t}
  /\ inFlight' = inFlight - 1
  /\ UNCHANGED <<stage, queue, taskVars, dispVars>>

-----------------------------------------------------------------------------
Dispatcher ==
  \/ Look \/ Wake \/ Recv
  \/ \E t \in Task : Dispatch(t)
  \/ EndEpochs
  \/ \E S \in SUBSET Unborn : Flush(S)
  \/ Phase2 \/ GraceElapsed \/ DrainRecv \/ Drained
  \/ \E F \in SUBSET Instance : Stop(F)

TaskStep(t) ==
  \/ Reject(t) \/ Select(t) \/ Acquire(t) \/ Enter(t) \/ CancelBeforeRun(t)
  \/ \E c \in Task : Emit(t, c) \/ EmitParks(t, c)
  \/ Unpark(t) \/ Complete(t) \/ Error(t) \/ Timeout(t) \/ CancelTask(t)
  \/ Panic(t) \/ DelayElapsed(t) \/ CancelDelay(t) \/ Send(t) \/ Dec(t)

(* run() has returned; nothing is left to do.                              *)
Returned == loop = "done" /\ owes = {} /\ UNCHANGED vars

Next ==
  \/ Dispatcher
  \/ \E t \in Task : TaskStep(t)
  \/ Trigger
  \/ Returned

Spec == Init /\ [][Next]_vars

-----------------------------------------------------------------------------
(* Safety.                                                                 *)

(* Types of the variables of the run.                                      *)
TypeOK ==
  /\ stage \in [Task -> Stage]
  /\ queue \in Seq(Task)
  /\ inFlight \in Nat
  /\ owes \subseteq Task
  /\ child \in [Task -> Task \cup {Nobody}]
  /\ inst \in [Task -> Instance \cup {Nobody}]
  /\ held \in [Task -> SUBSET Sem]
  /\ free \in [Sem -> Nat]
  /\ attempt \in [Task -> Nat]
  /\ loop \in {"check", "select", "permit", "phase2", "drain", "stop", "done"}
  /\ shutdown \in BOOLEAN /\ cancel \in BOOLEAN
  /\ interrupted \in BOOLEAN /\ extents \in BOOLEAN

Counted == In(Live) \cup owes

(* The in-flight count is exactly the number of tasks that were created    *)
(* and not yet given up by in_flight.dec(): live tasks, lost envelopes,    *)
(* and ended tasks between recording the outcome and the decrement.        *)
InFlightLedger == inFlight = Cardinality(Counted)

(* What the comment on InFlight says it counts: tasks that exist (queued,  *)
(* running, or awaiting a retry delay).  A lost envelope does not exist.   *)
InFlightCountsExisting ==
  inFlight = Cardinality(Counted \ In({"lost"}))

Holders(s) == {t \in Task : s \in held[t]}

(* No permit of the run, of an instance or of a pool is leaked or freed    *)
(* twice, on any path through emit, reacquire, timeout, cancel or panic.   *)
PermitLedger == \A s \in Sem : free[s] + Cardinality(Holders(s)) = Permits[s]

(* A task that waits for queue capacity, for a retry or for its dispatch   *)
(* pins no permit: RunSlot's rule, on which the progress of a full bounded *)
(* queue rests.                                                            *)
WaitersHoldNothing ==
  \A t \in Task : stage[t] \notin {"admit", "acquire", "regain", "run"}
                    => held[t] = {}

(* The channel carries each queued task once and nothing else.             *)
QueueExact ==
  /\ Len(queue) <= Capacity
  /\ \A j, k \in 1..Len(queue) : queue[j] = queue[k] => j = k
  /\ \A t \in Task : stage[t] = "queued" <=> \E k \in 1..Len(queue) : queue[k] = t

(* When on_stop runs and the report is built, no task is live anywhere and *)
(* every outcome is recorded: a run never returns over unfinished work.    *)
QuiescentReturn ==
  loop \in {"stop", "done"} => Counted = {} /\ queue = <<>>

(* Source extents are recorded only by a pass in which every task that     *)
(* ever existed was processed or skipped.                                  *)
CleanExtents == extents => In(Stage \ {"unborn", "processed", "skipped"}) = {}

(* Work is reported unfinished only by an interrupted run.                 *)
UnfinishedIsInterrupted ==
  loop \in {"stop", "done"} /\ In({"unfinished"}) # {} => interrupted

(* The run keeps the contract of RunContract: a lost envelope never        *)
(* settles, so the contract's run does not return while there is one.      *)
Contract == INSTANCE RunContract WITH
  outcome  <- [t \in Task |-> IF stage[t] = "unborn" THEN "none"
                              ELSE IF stage[t] \in Live THEN "live"
                              ELSE stage[t]],
  asked    <- shutdown,
  returned <- (loop = "done")

KeepsContract == Contract!ContractSpec

-----------------------------------------------------------------------------
(* Fairness.  The tokio runtime polls ready futures, its timers fire, and  *)
(* its semaphores and channel hand a free permit or slot to a waiter, so   *)
(* the engine takes some step whenever one is ready.  Nothing is assumed   *)
(* of which one.                                                           *)
EngineStep ==
  \/ Dispatcher
  \/ \E t \in Task :
       \/ Reject(t) \/ Select(t) \/ Acquire(t) \/ Enter(t) \/ CancelBeforeRun(t)
       \/ Unpark(t) \/ CancelTask(t) \/ DelayElapsed(t) \/ CancelDelay(t)
       \/ Send(t) \/ Dec(t)

(* process returns.                                                        *)
WorkerStep == \E t \in Task : Complete(t) \/ Error(t)

(* Workers may hang for ever.                                              *)
HungSpec == Spec /\ WF_vars(EngineStep)

(* Workers that run keep returning.                                        *)
FairSpec == HungSpec /\ WF_vars(WorkerStep)

Done == loop = "done"

(* If workers return, the run returns: neither a full queue, nor parked    *)
(* emitters, nor retries, nor router flushes can stall it.                 *)
Termination == <>Done

(* A shutdown ends the run even if no worker ever returns, unless an       *)
(* envelope was lost on the way or the dispatcher waits for ever for a run *)
(* permit, which it does not stop to do for a shutdown.                    *)
ShutdownReturns ==
  [](shutdown => \/ <>(Done \/ In({"lost"}) # {})
                 \/ <>[](loop = "permit"))

(* What Shutdown::trigger and grace_period promise without any assumption  *)
(* on the workers, which are cancelled when the grace period is over.      *)
ShutdownEndsRun == shutdown ~> Done
=============================================================================
