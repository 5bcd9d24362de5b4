-------------------------- MODULE SchedulerProofs --------------------------
(***************************************************************************)
(* Proofs about Scheduler, for every set of tasks, instances and pools,    *)
(* every queue capacity and every number of attempts, and about the latch  *)
(* that stops it, for all threads that set it and all tasks that wait.     *)
(***************************************************************************)
EXTENDS Scheduler, Latch, FiniteSetTheorems, TLAPS

(* Every step of a run is one of these.                                    *)
LEMMA StepCases ==
  ASSUME [Next]_vars
  PROVE  \/ Look \/ Wake \/ Recv \/ EndEpochs \/ Phase2 \/ GraceElapsed
         \/ DrainRecv \/ Drained \/ Trigger \/ UNCHANGED vars
         \/ \E S \in SUBSET Unborn : Flush(S)
         \/ \E F \in SUBSET Instance : Stop(F)
         \/ \E t \in Task :
              \/ Dispatch(t) \/ Reject(t) \/ Select(t) \/ Acquire(t)
              \/ Enter(t) \/ CancelBeforeRun(t) \/ Unpark(t) \/ Complete(t)
              \/ Error(t) \/ Timeout(t) \/ CancelTask(t) \/ Panic(t)
              \/ DelayElapsed(t) \/ CancelDelay(t) \/ Send(t) \/ Dec(t)
              \/ \E c \in Task : Emit(t, c) \/ EmitParks(t, c)
  BY DEF Next, Dispatcher, TaskStep, Returned

-----------------------------------------------------------------------------
(* Types.                                                                  *)

LEMMA StagesDistinct ==
  /\ Live \subseteq Stage /\ Ended \subseteq Stage /\ Live \cap Ended = {}
  /\ "unborn" \in Stage /\ "unborn" \notin Live /\ "unborn" \notin Ended
  BY DEF Live, Ended, Stage

(* LeaveSlot keeps the types of what it touches.                           *)
LEMMA LeaveSlotType ==
  ASSUME TypeOK, NEW t \in Task, LeaveSlot(t)
  PROVE  /\ inst' \in [Task -> Instance \cup {Nobody}]
         /\ child' \in [Task -> Task \cup {Nobody}]
         /\ held' \in [Task -> SUBSET Sem]
         /\ free' \in [Sem -> Nat]
  BY DEF TypeOK, LeaveSlot, ReleaseSlot

LEMMA MoveFromType ==
  ASSUME TypeOK, NEW t \in Task, NEW s \in Stage, MoveFrom(t, s)
  PROVE  stage' \in [Task -> Stage]
  BY DEF TypeOK, MoveFrom, Stage, Live

LEMMA QueueHeadTask ==
  ASSUME TypeOK, queue # <<>>
  PROVE  Head(queue) \in Task /\ Tail(queue) \in Seq(Task)
  BY DEF TypeOK

-----------------------------------------------------------------------------
(* The inductive invariant.  The in-flight count can only be proved with   *)
(* the shape of the run's bookkeeping: only ended tasks owe a decrement,   *)
(* the channel holds queued tasks and each of them once, and the child of  *)
(* a parked worker is being sent by that worker alone.                     *)
OwesEnded == \A t \in owes : stage[t] \in Ended

QueueOwnsQueued ==
  /\ \A k \in 1..Len(queue) : stage[queue[k]] = "queued"
  /\ \A j, k \in 1..Len(queue) : queue[j] = queue[k] => j = k

ParkedChild ==
  \A t \in Task : stage[t] = "park" =>
    /\ child[t] \in Task /\ stage[child[t]] = "sending"
    /\ \A u \in Task : stage[u] = "park" /\ child[u] = child[t] => u = t

Shape == OwesEnded /\ QueueOwnsQueued /\ ParkedChild

CountInv == TypeOK /\ Shape /\ InFlightLedger

LEMMA CountedFinite ==
  ASSUME TypeOK
  PROVE  IsFiniteSet(Counted) /\ Cardinality(Counted) \in Nat
  <1>1. Counted \subseteq Task
    BY DEF Counted, In, TypeOK
  <1>2. IsFiniteSet(Counted)
    BY <1>1, FS_Subset, SchedulerAssumption DEF SchedulerAssumption
  <1> QED BY <1>2, FS_CardinalityType

LEMMA CountedPositive ==
  ASSUME TypeOK, InFlightLedger, NEW t \in Counted
  PROVE  inFlight - 1 \in Nat
  <1>1. Cardinality(Counted) # 0
    BY CountedFinite, FS_EmptySet
  <1> QED BY <1>1, CountedFinite DEF InFlightLedger

(* A step that keeps, for every task, whether it is counted.               *)
LEMMA CountedSame ==
  ASSUME \A u \in Task : (stage'[u] \in Live \/ u \in owes')
                          <=> (stage[u] \in Live \/ u \in owes),
         owes \subseteq Task, owes' \subseteq Task
  PROVE  Counted' = Counted
  BY DEF Counted, In

(* Steps of a dispatched task that leave the count and its set alone.      *)
LEMMA EndFromCounted ==
  ASSUME TypeOK, Shape, NEW t \in Task, stage[t] \in Live, NEW o \in Ended,
         EndFrom(t, o)
  PROVE  /\ Counted' = Counted /\ owes' \subseteq Task
         /\ stage' \in [Task -> Stage]
  <1>1. /\ owes' \subseteq Task /\ stage' \in [Task -> Stage]
    BY StagesDistinct, MoveFromType DEF EndFrom, TypeOK
  <1>2. \A u \in Task : (stage'[u] \in Live \/ u \in owes')
                        <=> (stage[u] \in Live \/ u \in owes)
    BY StagesDistinct DEF EndFrom, MoveFrom, TypeOK, Shape, OwesEnded, ParkedChild,
       Live
  <1> QED BY <1>1, <1>2, CountedSame DEF TypeOK

LEMMA MoveFromCounted ==
  ASSUME TypeOK, Shape, NEW t \in Task, stage[t] \in Live, NEW s \in Live,
         MoveFrom(t, s), UNCHANGED owes
  PROVE  /\ Counted' = Counted /\ stage' \in [Task -> Stage]
  <1>1. stage' \in [Task -> Stage]
    BY StagesDistinct, MoveFromType
  <1>2. \A u \in Task : (stage'[u] \in Live \/ u \in owes')
                        <=> (stage[u] \in Live \/ u \in owes)
    BY StagesDistinct DEF MoveFrom, TypeOK, Shape, ParkedChild, Live
  <1> QED BY <1>1, <1>2, CountedSame DEF TypeOK

-----------------------------------------------------------------------------
(* Each step keeps the types and the in-flight ledger.                     *)

(* The dispatcher and the shutdown request.                                *)
LEMMA LoopSteps ==
  ASSUME CountInv,
         \/ Look \/ Wake \/ EndEpochs \/ Phase2 \/ GraceElapsed \/ Drained
         \/ Trigger \/ UNCHANGED vars \/ \E F \in SUBSET Instance : Stop(F)
  PROVE  TypeOK' /\ InFlightLedger'
  <1>1. UNCHANGED <<stage, queue, inFlight, owes, taskVars>>
    BY DEF Look, Wake, EndEpochs, Phase2, GraceElapsed, Drained, Trigger, vars,
       Stop, taskVars
  <1>2. Counted' = Counted
    BY <1>1 DEF Counted, In
  <1>3. /\ loop' \in {"check", "select", "permit", "phase2", "drain", "stop", "done"}
        /\ shutdown' \in BOOLEAN /\ cancel' \in BOOLEAN
        /\ interrupted' \in BOOLEAN /\ extents' \in BOOLEAN
    BY DEF CountInv, TypeOK, Look, Wake, EndEpochs, Phase2, GraceElapsed, Drained,
       Trigger, vars, Stop, latchVars, resultVars
  <1> QED BY <1>1, <1>2, <1>3 DEF CountInv, TypeOK, InFlightLedger, taskVars

LEMMA RecvStep ==
  ASSUME CountInv, Recv
  PROVE  TypeOK' /\ InFlightLedger'
  <1> DEFINE h == Head(queue)
  <1>1. h \in Task /\ Tail(queue) \in Seq(Task) /\ stage[h] = "queued"
    BY QueueHeadTask DEF CountInv, Recv, Shape, QueueOwnsQueued, TypeOK
  <1>2. stage' \in [Task -> Stage]
    BY <1>1 DEF CountInv, TypeOK, Recv, Stage, Live
  <1>3. Counted' = Counted
    BY <1>1, CountedSame DEF CountInv, TypeOK, Recv, Live
  <1> QED BY <1>1, <1>2, <1>3
          DEF CountInv, TypeOK, InFlightLedger, Recv, taskVars, latchVars, resultVars

LEMMA DrainRecvStep ==
  ASSUME CountInv, DrainRecv
  PROVE  TypeOK' /\ InFlightLedger'
  <1> DEFINE h == Head(queue)
  <1>1. h \in Task /\ Tail(queue) \in Seq(Task) /\ stage[h] = "queued"
    BY QueueHeadTask DEF CountInv, DrainRecv, Shape, QueueOwnsQueued, TypeOK
  <1>2. stage' \in [Task -> Stage]
    BY <1>1 DEF CountInv, TypeOK, DrainRecv, Stage, Ended
  <1>3. h \in Counted /\ h \notin owes
    BY <1>1 DEF Counted, In, Live, CountInv, Shape, OwesEnded, Ended
  <1>4. Counted' = Counted \ {h}
    BY <1>1, <1>3 DEF Counted, In, Live, CountInv, TypeOK, DrainRecv
  <1>5. Cardinality(Counted') = Cardinality(Counted) - 1
    BY <1>3, <1>4, CountedFinite, FS_RemoveElement DEF CountInv
  <1>6. inFlight' \in Nat
    BY <1>3, CountedPositive DEF CountInv, DrainRecv
  <1> QED BY <1>1, <1>2, <1>5, <1>6
          DEF CountInv, TypeOK, InFlightLedger, DrainRecv, taskVars, dispVars

LEMMA FlushStep ==
  ASSUME CountInv, NEW S \in SUBSET Unborn, Flush(S)
  PROVE  TypeOK' /\ InFlightLedger'
  <1>1. S \subseteq Task /\ IsFiniteSet(S)
    BY FS_Subset, SchedulerAssumption DEF Unborn, In, SchedulerAssumption
  <1>2. Cardinality(S) \in Nat
    BY <1>1, FS_CardinalityType
  <1>3. stage' \in [Task -> Stage]
    BY DEF CountInv, TypeOK, Flush, Stage, Live
  <1>4. S \cap Counted = {}
    BY StagesDistinct DEF Unborn, In, Counted, CountInv, Shape, OwesEnded
  <1>5. Counted' = Counted \cup S
    BY <1>1 DEF Counted, In, Flush, Live, CountInv, TypeOK
  <1>6. Cardinality(Counted') = Cardinality(Counted) + Cardinality(S)
    BY <1>1, <1>2, <1>4, <1>5, CountedFinite, FS_Union, FS_EmptySet DEF CountInv
  <1>7. InFlightLedger'
    BY <1>6 DEF CountInv, InFlightLedger, Flush
  <1>8. inFlight' \in Nat
    BY <1>2 DEF CountInv, TypeOK, Flush
  <1> QED BY <1>3, <1>7, <1>8
          DEF CountInv, TypeOK, Flush, taskVars, latchVars, resultVars

(* Steps of a spawned task between its dispatch and process.               *)
LEMMA PrepareSteps ==
  ASSUME CountInv, NEW t \in Task,
         \/ Dispatch(t) \/ Select(t) \/ Acquire(t) \/ Enter(t) \/ DelayElapsed(t)
  PROVE  TypeOK' /\ InFlightLedger'
  <1> USE DEF CountInv
  <1>1. CASE Dispatch(t)
    <2>1. Counted' = Counted
      BY <1>1, CountedSame DEF TypeOK, Dispatch, Live
    <2> QED BY <1>1, <2>1, SchedulerAssumption
            DEF TypeOK, InFlightLedger, Dispatch, Stage, Live, latchVars, resultVars,
                SchedulerAssumption
  <1>2. CASE Select(t)
    <2>1. Counted' = Counted
      BY <1>2, CountedSame DEF TypeOK, Select, Live
    <2> QED BY <1>2, <2>1 DEF TypeOK, InFlightLedger, Select, Stage, Live, dispVars
  <1>3. CASE Acquire(t)
    <2>1. Counted' = Counted
      BY <1>3 DEF Counted, In, Acquire
    <2> QED BY <1>3, <2>1 DEF TypeOK, InFlightLedger, Acquire, dispVars
  <1>4. CASE Enter(t)
    <2>1. Counted' = Counted
      BY <1>4, CountedSame DEF TypeOK, Enter, Live
    <2> QED BY <1>4, <2>1
            DEF TypeOK, InFlightLedger, Enter, Stage, Live, dispVars, taskVars
  <1>5. CASE DelayElapsed(t)
    <2>1. Counted' = Counted
      BY <1>5, CountedSame DEF TypeOK, DelayElapsed, Live
    <2> QED BY <1>5, <2>1
            DEF TypeOK, InFlightLedger, DelayElapsed, Stage, Live, dispVars, taskVars
  <1> QED BY <1>1, <1>2, <1>3, <1>4, <1>5

(* Steps that end a task: the outcome is recorded and the decrement owed.  *)
LEMMA EndSteps ==
  ASSUME CountInv, NEW t \in Task, stage[t] \in Live, NEW o \in Ended,
         EndFrom(t, o), LeaveSlot(t),
         UNCHANGED <<queue, inFlight, attempt, dispVars>>
  PROVE  TypeOK' /\ InFlightLedger'
  <1>1. /\ Counted' = Counted /\ owes' \subseteq Task /\ stage' \in [Task -> Stage]
    BY EndFromCounted DEF CountInv
  <1>2. /\ inst' \in [Task -> Instance \cup {Nobody}]
        /\ child' \in [Task -> Task \cup {Nobody}]
        /\ held' \in [Task -> SUBSET Sem] /\ free' \in [Sem -> Nat]
    BY LeaveSlotType DEF CountInv
  <1> QED BY <1>1, <1>2 DEF CountInv, TypeOK, InFlightLedger, dispVars

LEMMA RetryStep ==
  ASSUME CountInv, NEW t \in Task, stage[t] \in Live, Retry(t)
  PROVE  TypeOK' /\ InFlightLedger'
  <1>1. PICK s \in {"resend", "delay"} : MoveFrom(t, s)
    BY DEF Retry
  <1>2. /\ Counted' = Counted /\ stage' \in [Task -> Stage]
    BY <1>1, MoveFromCounted DEF CountInv, Retry, Live
  <1>3. /\ inst' \in [Task -> Instance \cup {Nobody}]
        /\ child' \in [Task -> Task \cup {Nobody}]
        /\ held' \in [Task -> SUBSET Sem] /\ free' \in [Sem -> Nat]
    BY LeaveSlotType DEF CountInv, Retry
  <1>4. attempt' \in [Task -> Nat]
    BY DEF CountInv, TypeOK, Retry
  <1> QED BY <1>2, <1>3, <1>4 DEF CountInv, TypeOK, InFlightLedger, Retry, dispVars

LEMMA PanicStep ==
  ASSUME CountInv, NEW t \in Task, Panic(t)
  PROVE  TypeOK' /\ InFlightLedger'
  <1>1. /\ Counted' = Counted /\ stage' \in [Task -> Stage]
    BY MoveFromCounted DEF CountInv, Panic, Live
  <1>2. /\ inst' \in [Task -> Instance \cup {Nobody}]
        /\ child' \in [Task -> Task \cup {Nobody}]
        /\ held' \in [Task -> SUBSET Sem] /\ free' \in [Sem -> Nat]
    BY LeaveSlotType DEF CountInv, Panic
  <1> QED BY <1>1, <1>2 DEF CountInv, TypeOK, InFlightLedger, Panic, dispVars

LEMMA LeaveSteps ==
  ASSUME CountInv, NEW t \in Task,
         \/ Reject(t) \/ CancelBeforeRun(t) \/ Complete(t) \/ Error(t)
         \/ Timeout(t) \/ CancelTask(t) \/ Panic(t)
  PROVE  TypeOK' /\ InFlightLedger'
  <1>1. CASE Reject(t)
    <2>1. PICK o \in Ended : EndFrom(t, o)
      BY <1>1 DEF Reject, Early, Ended
    <2> QED BY <1>1, <2>1, EndSteps DEF Reject, Live
  <1>2. CASE CancelBeforeRun(t)
    BY <1>2, EndSteps DEF CancelBeforeRun, Live, Ended
  <1>3. CASE Complete(t)
    BY <1>3, EndSteps DEF Complete, Live, Ended
  <1>4. CASE Error(t) \/ Timeout(t)
    <2>1. stage[t] \in Live
      BY <1>4 DEF Error, Timeout, Inside, Live
    <2>2. Retry(t) \/ FailTask(t)
      BY <1>4 DEF Error, Timeout
    <2> QED BY <2>1, <2>2, EndSteps, RetryStep DEF FailTask, Ended
  <1>5. CASE CancelTask(t)
    BY <1>5, EndSteps DEF CancelTask, Inside, Live, Ended
  <1>6. CASE Panic(t)
    BY <1>6, PanicStep
  <1> QED BY <1>1, <1>2, <1>3, <1>4, <1>5, <1>6

LEMMA CancelDelayStep ==
  ASSUME CountInv, NEW t \in Task, CancelDelay(t)
  PROVE  TypeOK' /\ InFlightLedger'
  <1>1. /\ Counted' = Counted /\ owes' \subseteq Task /\ stage' \in [Task -> Stage]
    BY EndFromCounted DEF CountInv, CancelDelay, Live, Ended
  <1> QED BY <1>1 DEF CountInv, TypeOK, InFlightLedger, CancelDelay, dispVars, taskVars

(* Steps that put an envelope into the channel or create one.              *)
LEMMA EnqueueType ==
  ASSUME TypeOK, NEW t \in Task, Enqueue(t)
  PROVE  queue' \in Seq(Task)
  BY DEF TypeOK, Enqueue

LEMMA SendSteps ==
  ASSUME CountInv, NEW t \in Task, Send(t) \/ Unpark(t)
  PROVE  TypeOK' /\ InFlightLedger'
  <1>1. CASE Send(t)
    <2>1. Counted' = Counted
      BY <1>1, CountedSame DEF CountInv, TypeOK, Send, Live
    <2>2. stage' \in [Task -> Stage]
      BY <1>1 DEF CountInv, TypeOK, Send, Stage, Live
    <2>3. queue' \in Seq(Task)
      BY <1>1, EnqueueType DEF CountInv, Send
    <2> QED BY <1>1, <2>1, <2>2, <2>3
            DEF CountInv, TypeOK, InFlightLedger, Send, dispVars, taskVars
  <1>2. CASE Unpark(t)
    <2>1. child[t] \in Task /\ stage[child[t]] = "sending" /\ stage[t] = "park"
      BY <1>2 DEF CountInv, Shape, ParkedChild, Unpark
    <2>2. Counted' = Counted
      BY <1>2, <2>1, CountedSame DEF CountInv, TypeOK, Unpark, Live
    <2>3. stage' \in [Task -> Stage] /\ child' \in [Task -> Task \cup {Nobody}]
      BY <1>2 DEF CountInv, TypeOK, Unpark, Stage, Live
    <2>4. queue' \in Seq(Task)
      BY <1>2, <2>1, EnqueueType DEF CountInv, Unpark
    <2> QED BY <1>2, <2>2, <2>3, <2>4
            DEF CountInv, TypeOK, InFlightLedger, Unpark, dispVars
  <1> QED BY <1>1, <1>2

LEMMA EmitSteps ==
  ASSUME CountInv, NEW t \in Task, NEW c \in Task, Emit(t, c) \/ EmitParks(t, c)
  PROVE  TypeOK' /\ InFlightLedger'
  <1>1. t # c /\ c \notin Counted /\ stage[t] = "run" /\ stage[c] = "unborn"
    BY StagesDistinct
       DEF Emit, EmitParks, Counted, In, CountInv, Shape, OwesEnded
  <1>2. Counted' = Counted \cup {c}
    BY <1>1 DEF Emit, EmitParks, Counted, In, Live, CountInv, TypeOK
  <1>3. inFlight' = inFlight + 1
    BY DEF Emit, EmitParks
  <1>4. InFlightLedger'
    BY <1>1, <1>2, <1>3, CountedFinite, FS_AddElement DEF InFlightLedger, CountInv
  <1>5. stage' \in [Task -> Stage]
    BY DEF Emit, EmitParks, CountInv, TypeOK, Stage, Live
  <1>6. CASE Emit(t, c)
    <2>1. queue' \in Seq(Task)
      BY <1>6, EnqueueType DEF CountInv, Emit
    <2> QED BY <1>3, <1>4, <1>5, <1>6, <2>1
            DEF CountInv, TypeOK, Emit, taskVars, dispVars
  <1>7. CASE EmitParks(t, c)
    <2>1. /\ held' \in [Task -> SUBSET Sem] /\ free' \in [Sem -> Nat]
      BY <1>7 DEF CountInv, TypeOK, EmitParks, ReleaseSlot
    <2>2. child' \in [Task -> Task \cup {Nobody}]
      BY <1>7 DEF CountInv, TypeOK, EmitParks
    <2>3. inFlight' \in Nat
      BY <1>3 DEF CountInv, TypeOK
    <2>4. TypeOK'
      BY <1>5, <1>7, <2>1, <2>2, <2>3 DEF CountInv, TypeOK, EmitParks, dispVars
    <2> QED BY <1>4, <2>4
  <1> QED BY <1>6, <1>7

LEMMA DecStep ==
  ASSUME CountInv, NEW t \in Task, Dec(t)
  PROVE  TypeOK' /\ InFlightLedger'
  <1>1. t \in Counted /\ stage[t] \notin Live
    BY StagesDistinct DEF Dec, Counted, CountInv, Shape, OwesEnded
  <1>2. Counted' = Counted \ {t}
    BY <1>1 DEF Dec, Counted, In
  <1>3. Cardinality(Counted') = Cardinality(Counted) - 1
    BY <1>1, <1>2, CountedFinite, FS_RemoveElement DEF CountInv
  <1>4. inFlight' \in Nat
    BY <1>1, CountedPositive DEF CountInv, Dec
  <1> QED BY <1>3, <1>4 DEF CountInv, TypeOK, InFlightLedger, Dec, taskVars, dispVars

LEMMA LedgerStep ==
  ASSUME CountInv, [Next]_vars
  PROVE  TypeOK' /\ InFlightLedger'
  BY StepCases, LoopSteps, RecvStep, DrainRecvStep, FlushStep, PrepareSteps,
     LeaveSteps, CancelDelayStep, SendSteps, EmitSteps, DecStep

-----------------------------------------------------------------------------
(* Each step keeps the shape of the bookkeeping.                           *)

LEMMA ShapeUnchanged ==
  ASSUME Shape, UNCHANGED <<stage, queue, owes, child>>
  PROVE  Shape'
  BY DEF Shape, OwesEnded, QueueOwnsQueued, ParkedChild

(* One task moves, and neither the channel nor an emission is involved.    *)
LEMMA ShapeMove ==
  ASSUME TypeOK, Shape, NEW t \in Task, NEW s \in Live,
         stage[t] \notin Ended \cup {"queued", "sending", "park"},
         s \notin {"park", "queued"},
         stage' = [stage EXCEPT ![t] = s], UNCHANGED <<queue, owes, child>>
  PROVE  Shape'
  <1>1. OwesEnded'
    BY DEF Shape, OwesEnded, TypeOK
  <1>2. QueueOwnsQueued'
    BY DEF Shape, QueueOwnsQueued, TypeOK
  <1>3. ParkedChild'
    BY DEF Shape, ParkedChild, TypeOK
  <1> QED BY <1>1, <1>2, <1>3 DEF Shape

(* A dispatched task leaves its stage, possibly losing its parked child.   *)
LEMMA ShapeLeave ==
  ASSUME TypeOK, Shape, NEW t \in Task, NEW s \in Stage,
         stage[t] \notin Ended \cup {"queued", "sending"},
         s \notin {"park", "queued"},
         MoveFrom(t, s), UNCHANGED queue,
         owes' = owes \/ (owes' = owes \cup {t} /\ s \in Ended),
         child' = child \/ child' = [child EXCEPT ![t] = Nobody]
  PROVE  Shape'
  <1>1. ASSUME NEW u \in Task, u # t
        PROVE  /\ stage'[u] \in {stage[u], "lost"}
               /\ stage'[u] # stage[u] => stage[u] = "sending" /\ stage[t] = "park"
                                         /\ u = child[t]
    BY <1>1 DEF MoveFrom, TypeOK, Shape, ParkedChild
  <1>2. stage'[t] = s
    BY DEF MoveFrom
  <1>3. OwesEnded'
    BY <1>1, <1>2 DEF Shape, OwesEnded, TypeOK, Ended
  <1>4. QueueOwnsQueued'
    <2>1. \A k \in 1..Len(queue) : queue[k] \in Task
      BY DEF TypeOK
    <2>2. \A k \in 1..Len(queue) : stage[queue[k]] = "queued"
      BY DEF Shape, QueueOwnsQueued
    <2>3. \A k \in 1..Len(queue) : stage'[queue[k]] = "queued"
      <3> TAKE k \in 1..Len(queue)
      <3>1. queue[k] \in Task /\ queue[k] # t /\ stage[queue[k]] = "queued"
        BY <2>1, <2>2
      <3> QED BY <1>1, <3>1
    <2> QED BY <2>3 DEF Shape, QueueOwnsQueued
  <1>5. ParkedChild'
    <2> SUFFICES ASSUME NEW u \in Task, stage'[u] = "park"
                 PROVE  /\ child'[u] \in Task /\ stage'[child'[u]] = "sending"
                        /\ \A v \in Task : stage'[v] = "park" /\ child'[v] = child'[u]
                                            => v = u
      BY DEF ParkedChild
    <2>1. u # t /\ stage[u] = "park"
      BY <1>1, <1>2
    <2>2. child'[u] = child[u] /\ child[u] \in Task /\ stage[child[u]] = "sending"
      BY <2>1 DEF Shape, ParkedChild, TypeOK
    <2>3. child[u] # t
      BY <2>2
    <2>4. stage'[child[u]] = "sending"
      BY <1>1, <2>1, <2>2, <2>3 DEF Shape, ParkedChild
    <2>5. \A v \in Task : stage'[v] = "park" => stage[v] = "park" /\ v # t
      BY <1>1, <1>2
    <2>6. \A v \in Task : v # t => child'[v] = child[v]
      BY DEF TypeOK
    <2> QED BY <2>1, <2>2, <2>4, <2>5, <2>6 DEF Shape, ParkedChild
  <1> QED BY <1>3, <1>4, <1>5 DEF Shape

(* The head of the channel leaves it.                                      *)
LEMMA ShapeDequeue ==
  ASSUME TypeOK, Shape, queue # <<>>, NEW s \in Stage, s \notin {"park", "queued"},
         queue' = Tail(queue), stage' = [stage EXCEPT ![Head(queue)] = s],
         UNCHANGED <<owes, child>>
  PROVE  Shape'
  <1> DEFINE h == Head(queue)
  <1>1. h \in Task /\ stage[h] = "queued" /\ h = queue[1]
    BY QueueHeadTask DEF Shape, QueueOwnsQueued, TypeOK
  <1>2. /\ Len(queue') = Len(queue) - 1
        /\ \A k \in 1..Len(queue') : queue'[k] = queue[k + 1] /\ k + 1 \in 1..Len(queue)
    BY DEF TypeOK
  <1>3. Len(queue) \in Nat \ {0}
    BY DEF TypeOK
  <1>4. OwesEnded'
    BY <1>1 DEF Shape, OwesEnded, TypeOK, Ended
  <1>5. QueueOwnsQueued'
    <2>1. \A k \in 1..Len(queue') : queue[k + 1] \in Task /\ queue[k + 1] # h
      BY <1>1, <1>2, <1>3 DEF Shape, QueueOwnsQueued, TypeOK
    <2>2. \A k \in 1..Len(queue') : stage'[queue'[k]] = "queued"
      BY <1>1, <1>2, <2>1 DEF Shape, QueueOwnsQueued, TypeOK
    <2>3. \A j, k \in 1..Len(queue') : queue'[j] = queue'[k] => j = k
      <3> SUFFICES ASSUME NEW j \in 1..Len(queue'), NEW k \in 1..Len(queue'),
                          queue'[j] = queue'[k]
                   PROVE  j = k
        OBVIOUS
      <3>1. j + 1 = k + 1
        BY <1>2 DEF Shape, QueueOwnsQueued
      <3> QED BY <3>1, <1>2, <1>3
    <2> QED BY <2>2, <2>3 DEF QueueOwnsQueued
  <1>6. ParkedChild'
    BY <1>1 DEF Shape, ParkedChild, TypeOK
  <1> QED BY <1>4, <1>5, <1>6 DEF Shape

(* An envelope enters the channel.                                         *)
LEMMA QueueEnqueue ==
  ASSUME TypeOK, Shape, NEW c \in Task, stage[c] # "queued", Enqueue(c),
         stage'[c] = "queued",
         \A u \in Task : stage[u] = "queued" => stage'[u] = "queued"
  PROVE  QueueOwnsQueued'
  <1>1. /\ Len(queue) \in Nat /\ Len(queue') = Len(queue) + 1
        /\ queue'[Len(queue) + 1] = c
        /\ \A k \in 1..Len(queue) : queue'[k] = queue[k]
    BY DEF Enqueue, TypeOK
  <1>2. \A k \in 1..Len(queue) : queue[k] \in Task
    BY DEF TypeOK
  <1>3. \A k \in 1..Len(queue) : stage[queue[k]] = "queued"
    BY DEF Shape, QueueOwnsQueued
  <1>4. \A k \in 1..Len(queue) : queue[k] # c
    BY <1>3
  <1>5. \A k \in 1..Len(queue') : k \in 1..Len(queue) \/ k = Len(queue) + 1
    BY <1>1
  <1>6. \A k \in 1..Len(queue') : stage'[queue'[k]] = "queued"
    BY <1>1, <1>2, <1>3, <1>5
  <1>7. \A j, k \in 1..Len(queue') : queue'[j] = queue'[k] => j = k
    BY <1>1, <1>4, <1>5 DEF Shape, QueueOwnsQueued
  <1> QED BY <1>6, <1>7 DEF QueueOwnsQueued

LEMMA ShapeSend ==
  ASSUME TypeOK, Shape, NEW t \in Task, Send(t)
  PROVE  Shape'
  <1>1. QueueOwnsQueued'
    BY QueueEnqueue DEF Send, TypeOK
  <1>2. OwesEnded'
    BY DEF Send, Shape, OwesEnded, TypeOK, Ended
  <1>3. ParkedChild'
    BY DEF Send, Shape, ParkedChild, TypeOK, taskVars
  <1> QED BY <1>1, <1>2, <1>3 DEF Shape

LEMMA ShapeUnpark ==
  ASSUME TypeOK, Shape, NEW t \in Task, Unpark(t)
  PROVE  Shape'
  <1> DEFINE c == child[t]
  <1>1. /\ c \in Task /\ c # t /\ stage[c] = "sending" /\ stage[t] = "park"
        /\ \A u \in Task : stage[u] = "park" /\ child[u] = c => u = t
    BY DEF Unpark, Shape, ParkedChild
  <1>2. /\ stage'[c] = "queued" /\ stage'[t] = "regain"
        /\ \A u \in Task \ {c, t} : stage'[u] = stage[u]
    BY <1>1 DEF Unpark, TypeOK
  <1>3. QueueOwnsQueued'
    <2>1. Enqueue(c)
      BY DEF Unpark
    <2>2. \A u \in Task : stage[u] = "queued" => stage'[u] = "queued"
      BY <1>1, <1>2
    <2> QED BY <1>1, <1>2, <2>1, <2>2, QueueEnqueue
  <1>4. OwesEnded'
    BY <1>1, <1>2 DEF Unpark, Shape, OwesEnded, TypeOK, Ended
  <1>5. ParkedChild'
    <2>1. \A u \in Task : stage'[u] = "park" => /\ stage[u] = "park" /\ u # t
                                                /\ child'[u] = child[u]
                                                /\ child[u] # c /\ child[u] # t
      BY <1>1, <1>2 DEF Unpark, TypeOK, Shape, ParkedChild
    <2> QED BY <1>2, <2>1 DEF Shape, ParkedChild
  <1> QED BY <1>3, <1>4, <1>5 DEF Shape

LEMMA ShapeEmit ==
  ASSUME TypeOK, Shape, NEW t \in Task, NEW c \in Task, Emit(t, c) \/ EmitParks(t, c)
  PROVE  Shape'
  <1>1. t # c /\ stage[t] = "run" /\ stage[c] = "unborn"
    BY DEF Emit, EmitParks
  <1>2. CASE Emit(t, c)
    <2>1. QueueOwnsQueued'
      BY <1>1, <1>2, QueueEnqueue DEF Emit, TypeOK
    <2>2. OwesEnded'
      BY <1>1, <1>2 DEF Emit, Shape, OwesEnded, TypeOK, Ended
    <2>3. ParkedChild'
      BY <1>1, <1>2 DEF Emit, Shape, ParkedChild, TypeOK, taskVars
    <2> QED BY <2>1, <2>2, <2>3 DEF Shape
  <1>3. CASE EmitParks(t, c)
    <2>1. /\ stage'[c] = "sending" /\ stage'[t] = "park" /\ child'[t] = c
          /\ \A u \in Task \ {c, t} : stage'[u] = stage[u]
          /\ \A u \in Task \ {t} : child'[u] = child[u]
      BY <1>1, <1>3 DEF EmitParks, TypeOK
    <2>2. QueueOwnsQueued'
      <3>1. \A u \in Task : stage[u] = "queued" => stage'[u] = "queued"
        BY <1>1, <2>1
      <3>2. \A k \in 1..Len(queue) : queue[k] \in Task
        BY DEF TypeOK
      <3>3. queue' = queue
        BY <1>3 DEF EmitParks
      <3> QED BY <3>1, <3>2, <3>3 DEF Shape, QueueOwnsQueued
    <2>3. OwesEnded'
      BY <1>1, <1>3, <2>1 DEF EmitParks, Shape, OwesEnded, TypeOK, Ended
    <2>4. ParkedChild'
      <3>1. \A u \in Task : stage'[u] = "park" /\ u # t
                             => stage[u] = "park" /\ child[u] # c /\ child[u] # t
        BY <1>1, <2>1 DEF Shape, ParkedChild
      <3> QED BY <2>1, <3>1, <1>1 DEF Shape, ParkedChild
    <2> QED BY <2>2, <2>3, <2>4 DEF Shape
  <1> QED BY <1>2, <1>3

LEMMA ShapeFlush ==
  ASSUME TypeOK, Shape, NEW S \in SUBSET Unborn, Flush(S)
  PROVE  Shape'
  <1>1. \A u \in Task : stage'[u] = stage[u] \/ (stage[u] = "unborn" /\ stage'[u] = "feeding")
    BY DEF Flush, Unborn, In
  <1>2. OwesEnded'
    BY <1>1 DEF Flush, Shape, OwesEnded, TypeOK, Ended
  <1>3. QueueOwnsQueued'
    <2>1. \A k \in 1..Len(queue) : queue[k] \in Task
      BY DEF TypeOK
    <2> QED BY <1>1, <2>1 DEF Flush, Shape, QueueOwnsQueued
  <1>4. ParkedChild'
    BY <1>1 DEF Flush, Shape, ParkedChild, taskVars
  <1> QED BY <1>2, <1>3, <1>4 DEF Shape

(* Steps that end or retry a dispatched task.                              *)
LEMMA ShapeLeaveSteps ==
  ASSUME TypeOK, Shape, NEW t \in Task,
         \/ Reject(t) \/ CancelBeforeRun(t) \/ Complete(t) \/ Error(t)
         \/ Timeout(t) \/ CancelTask(t) \/ Panic(t) \/ CancelDelay(t)
  PROVE  Shape'
  <1>1. stage[t] \in {"admit", "acquire", "run", "park", "regain", "delay"}
    BY DEF Reject, CancelBeforeRun, Complete, Error, Timeout, CancelTask, Panic,
       CancelDelay, Inside
  <1>2. /\ queue' = queue
        /\ child' = child \/ child' = [child EXCEPT ![t] = Nobody]
    BY DEF Reject, CancelBeforeRun, Complete, Error, Timeout, CancelTask, Panic,
       CancelDelay, FailTask, Retry, LeaveSlot, taskVars
  <1>3. \E s \in Ended \cup {"resend", "delay", "lost"} :
          /\ MoveFrom(t, s)
          /\ owes' = owes \/ (owes' = owes \cup {t} /\ s \in Ended)
    BY DEF Reject, CancelBeforeRun, Complete, Error, Timeout, CancelTask, Panic,
       CancelDelay, FailTask, Retry, EndFrom, Early, Ended
  <1>4. PICK s \in Ended \cup {"resend", "delay", "lost"} :
          /\ MoveFrom(t, s)
          /\ owes' = owes \/ (owes' = owes \cup {t} /\ s \in Ended)
    BY <1>3
  <1>5. s \in Stage /\ s \notin {"park", "queued"}
    BY <1>4 DEF Stage, Live, Ended
  <1>6. stage[t] \notin Ended \cup {"queued", "sending"}
    BY <1>1 DEF Ended
  <1> QED BY <1>2, <1>4, <1>5, <1>6, ShapeLeave

LEMMA ShapeMoveSteps ==
  ASSUME TypeOK, Shape, NEW t \in Task,
         Dispatch(t) \/ Select(t) \/ Acquire(t) \/ Enter(t) \/ DelayElapsed(t) \/ Dec(t)
  PROVE  Shape'
  <1>1. CASE Dispatch(t)
    BY <1>1, ShapeMove DEF Dispatch, Live, Ended
  <1>2. CASE Select(t)
    BY <1>2, ShapeMove DEF Select, Live, Ended
  <1>3. CASE Acquire(t)
    BY <1>3, ShapeUnchanged DEF Acquire
  <1>4. CASE Enter(t)
    BY <1>4, ShapeMove DEF Enter, Live, Ended, taskVars
  <1>5. CASE DelayElapsed(t)
    BY <1>5, ShapeMove DEF DelayElapsed, Live, Ended, taskVars
  <1>6. CASE Dec(t)
    BY <1>6 DEF Dec, Shape, OwesEnded, QueueOwnsQueued, ParkedChild, taskVars
  <1> QED BY <1>1, <1>2, <1>3, <1>4, <1>5, <1>6

LEMMA ShapeStep ==
  ASSUME TypeOK, Shape, [Next]_vars
  PROVE  Shape'
  <1>1. CASE \/ Look \/ Wake \/ EndEpochs \/ Phase2 \/ GraceElapsed \/ Drained
             \/ Trigger \/ UNCHANGED vars \/ \E F \in SUBSET Instance : Stop(F)
    BY <1>1, ShapeUnchanged
       DEF Look, Wake, EndEpochs, Phase2, GraceElapsed, Drained, Trigger, vars, Stop,
           taskVars
  <1>2. CASE Recv
    <2>1. /\ queue # <<>> /\ queue' = Tail(queue)
          /\ stage' = [stage EXCEPT ![Head(queue)] = "hand"]
          /\ owes' = owes /\ child' = child
      BY <1>2 DEF Recv, taskVars
    <2>2. "hand" \in Stage
      BY DEF Stage, Live
    <2> QED BY <2>1, <2>2, ShapeDequeue
  <1>3. CASE DrainRecv
    <2>1. /\ queue # <<>> /\ queue' = Tail(queue)
          /\ stage' = [stage EXCEPT ![Head(queue)] = "unfinished"]
          /\ owes' = owes /\ child' = child
      BY <1>3 DEF DrainRecv, taskVars
    <2>2. "unfinished" \in Stage
      BY DEF Stage, Ended
    <2> QED BY <2>1, <2>2, ShapeDequeue
  <1> QED BY <1>1, <1>2, <1>3, StepCases, ShapeFlush, ShapeMoveSteps, ShapeLeaveSteps,
             ShapeSend, ShapeUnpark, ShapeEmit

-----------------------------------------------------------------------------
(* The theorems.                                                           *)

LEMMA CountInvInit == Init => CountInv
  <1> SUFFICES ASSUME Init PROVE CountInv
    OBVIOUS
  <1>1. Seeds \subseteq Task /\ IsFiniteSet(Seeds)
    BY SchedulerAssumption, FS_Subset DEF SchedulerAssumption
  <1>2. Cardinality(Seeds) \in Nat
    BY <1>1, FS_CardinalityType
  <1>3. TypeOK
    <2>1. stage \in [Task -> Stage]
      BY DEF Init, Stage, Live
    <2>2. free \in [Sem -> Nat]
      BY SchedulerAssumption DEF Init, SchedulerAssumption
    <2>3. /\ child \in [Task -> Task \cup {Nobody}]
          /\ inst \in [Task -> Instance \cup {Nobody}]
          /\ held \in [Task -> SUBSET Sem] /\ attempt \in [Task -> Nat]
      BY DEF Init
    <2>4. queue \in Seq(Task) /\ inFlight \in Nat /\ owes \subseteq Task
      BY <1>2 DEF Init
    <2> QED BY <2>1, <2>2, <2>3, <2>4 DEF Init, TypeOK
  <1>4. Shape
    BY DEF Init, Shape, OwesEnded, QueueOwnsQueued, ParkedChild
  <1>5. Counted = Seeds
    BY <1>1 DEF Init, Counted, In, Live
  <1> QED BY <1>3, <1>4, <1>5 DEF Init, CountInv, InFlightLedger

LEMMA CountInvStep ==
  ASSUME CountInv, [Next]_vars
  PROVE  CountInv'
  BY LedgerStep, ShapeStep DEF CountInv

(* The inductive invariant of a run: types, places of tasks, the count.    *)
THEOREM CountInvariant == Spec => []CountInv
  <1>1. Init => CountInv
    BY CountInvInit
  <1>2. CountInv /\ [Next]_vars => CountInv'
    BY CountInvStep
  <1> QED BY <1>1, <1>2, PTL DEF Spec

(* Every variable of a run keeps its type.                                 *)
THEOREM Types == Spec => []TypeOK
  <1>1. CountInv => TypeOK
    BY DEF CountInv
  <1> QED BY <1>1, CountInvariant, PTL

(* The in-flight count of InFlight is exact in every state of every run:   *)
(* no path through emit, retry, timeout, cancel or drain counts a task     *)
(* twice or discounts it early.                                            *)
THEOREM LedgerExact == Spec => []InFlightLedger
  <1>1. CountInv => InFlightLedger
    BY DEF CountInv
  <1> QED BY <1>1, CountInvariant, PTL

-----------------------------------------------------------------------------
(* The channel, the permits, what holds when a run returns, and the       *)
(* contract of RunContract.                                                *)


(* The steps of one task leave the dispatcher alone and are taken by a     *)
(* task that is counted.                                                   *)
OneTask(t) ==
  \/ Reject(t) \/ Select(t) \/ Acquire(t) \/ Enter(t) \/ CancelBeforeRun(t)
  \/ Unpark(t) \/ Complete(t) \/ Error(t) \/ Timeout(t) \/ CancelTask(t)
  \/ Panic(t) \/ DelayElapsed(t) \/ CancelDelay(t) \/ Send(t) \/ Dec(t)
  \/ \E c \in Task : Emit(t, c) \/ EmitParks(t, c)

LEMMA Steps ==
  ASSUME [Next]_vars
  PROVE  \/ Look \/ Wake \/ Recv \/ EndEpochs \/ Phase2 \/ GraceElapsed
         \/ DrainRecv \/ Drained \/ Trigger \/ UNCHANGED vars
         \/ \E S \in SUBSET Unborn : Flush(S)
         \/ \E F \in SUBSET Instance : Stop(F)
         \/ \E t \in Task : Dispatch(t) \/ OneTask(t)
  BY StepCases DEF OneTask

LEMMA OneTaskCounted ==
  ASSUME CountInv, NEW t \in Task, OneTask(t)
  PROVE  t \in Counted /\ UNCHANGED dispVars
  <1>1. t \in Counted
    <2>1. stage[t] \in Live \/ t \in owes
      BY DEF OneTask, Reject, Select, Acquire, Enter, CancelBeforeRun, Unpark, Complete,
             Error, Timeout, CancelTask, Panic, DelayElapsed, CancelDelay, Send, Dec,
             Emit, EmitParks, Inside, Live
    <2> QED BY <2>1 DEF Counted, In
  <1>2. UNCHANGED dispVars
    BY DEF OneTask, Reject, Select, Acquire, Enter, CancelBeforeRun, Unpark, Complete,
           Error, Timeout, CancelTask, Panic, DelayElapsed, CancelDelay, Send, Dec,
           Emit, EmitParks, Retry, FailTask
  <1> QED BY <1>1, <1>2

-----------------------------------------------------------------------------
(* The channel.  CountInv says that it holds queued tasks, each once; that *)
(* every queued task is in it, and that it is never overfull, is the rest. *)
QueuedInQueue ==
  \A t \in Task : stage[t] = "queued" => \E k \in 1..Len(queue) : queue[k] = t

QueueInv == CountInv /\ Len(queue) <= Capacity /\ QueuedInQueue

LEMMA QueueSame ==
  ASSUME QueueInv, UNCHANGED queue,
         \A u \in Task : stage'[u] = "queued" => stage[u] = "queued"
  PROVE  Len(queue') <= Capacity /\ QueuedInQueue'
  BY DEF QueueInv, QueuedInQueue

LEMMA QueueTakes ==
  ASSUME QueueInv, queue # <<>>, queue' = Tail(queue), NEW s \in Stage \ {"queued"},
         stage' = [stage EXCEPT ![Head(queue)] = s]
  PROVE  Len(queue') <= Capacity /\ QueuedInQueue'
  <1>1. /\ Len(queue) \in Nat \ {0} /\ Len(queue') = Len(queue) - 1
        /\ \A k \in 1..Len(queue') : queue'[k] = queue[k + 1]
        /\ Head(queue) = queue[1] /\ Head(queue) \in Task
    BY DEF QueueInv, CountInv, TypeOK
  <1>2. ASSUME NEW t \in Task, stage'[t] = "queued"
        PROVE  \E k \in 1..Len(queue') : queue'[k] = t
    <2>1. stage[t] = "queued" /\ t # queue[1]
      BY <1>1, <1>2 DEF QueueInv, CountInv, TypeOK
    <2>2. PICK k \in 1..Len(queue) : queue[k] = t
      BY <2>1 DEF QueueInv, QueuedInQueue
    <2>3. k # 1 /\ k - 1 \in 1..Len(queue') /\ queue'[k - 1] = queue[k]
      BY <1>1, <2>1, <2>2
    <2> QED BY <2>2, <2>3
  <1>3. Len(queue') <= Capacity
    BY <1>1, SchedulerAssumption DEF QueueInv, SchedulerAssumption
  <1> QED BY <1>2, <1>3 DEF QueuedInQueue

LEMMA QueueGets ==
  ASSUME QueueInv, NEW c \in Task, Enqueue(c),
         \A u \in Task : stage'[u] = "queued" => u = c \/ stage[u] = "queued"
  PROVE  Len(queue') <= Capacity /\ QueuedInQueue'
  <1>1. /\ Len(queue) \in Nat /\ Len(queue') = Len(queue) + 1
        /\ queue'[Len(queue) + 1] = c
        /\ \A k \in 1..Len(queue) : queue'[k] = queue[k]
    BY DEF Enqueue, QueueInv, CountInv, TypeOK
  <1>2. Len(queue') <= Capacity
    BY <1>1, SchedulerAssumption DEF Enqueue, Room, SchedulerAssumption
  <1>3. ASSUME NEW t \in Task, stage'[t] = "queued"
        PROVE  \E k \in 1..Len(queue') : queue'[k] = t
    <2>1. CASE t = c
      BY <1>1, <2>1
    <2>2. CASE stage[t] = "queued"
      BY <1>1, <2>2 DEF QueueInv, QueuedInQueue
    <2> QED BY <1>3, <2>1, <2>2
  <1> QED BY <1>2, <1>3 DEF QueuedInQueue

LEMMA QueueInvStep ==
  ASSUME QueueInv, [Next]_vars
  PROVE  QueueInv'
  <1>0. CountInv'
    BY CountInvStep DEF QueueInv
  <1>1. CASE \/ Look \/ Wake \/ EndEpochs \/ Phase2 \/ GraceElapsed \/ Drained
             \/ Trigger \/ UNCHANGED vars \/ \E F \in SUBSET Instance : Stop(F)
    <2>1. UNCHANGED <<stage, queue>>
      BY <1>1 DEF Look, Wake, EndEpochs, Phase2, GraceElapsed, Drained, Trigger, vars, Stop
    <2> QED BY <1>0, <2>1, QueueSame DEF QueueInv
  <1>2. CASE Recv
    BY <1>0, <1>2, QueueTakes DEF QueueInv, Recv, Stage, Live
  <1>3. CASE DrainRecv
    BY <1>0, <1>3, QueueTakes DEF QueueInv, DrainRecv, Stage, Ended
  <1>4. CASE \E S \in SUBSET Unborn : Flush(S)
    <2>1. /\ UNCHANGED queue
          /\ \A u \in Task : stage'[u] = "queued" => stage[u] = "queued"
      BY <1>4 DEF Flush
    <2> QED BY <1>0, <2>1, QueueSame DEF QueueInv
  <1>5. ASSUME NEW t \in Task, Dispatch(t)
        PROVE  QueueInv'
    <2>1. /\ UNCHANGED queue
          /\ \A u \in Task : stage'[u] = "queued" => stage[u] = "queued"
      BY <1>5 DEF Dispatch, QueueInv, CountInv, TypeOK
    <2> QED BY <1>0, <2>1, QueueSame DEF QueueInv
  <1>6. ASSUME NEW t \in Task, OneTask(t)
        PROVE  QueueInv'
    <2>1. CASE Send(t)
      BY <1>0, <2>1, QueueGets DEF QueueInv, CountInv, TypeOK, Send
    <2>2. CASE Unpark(t)
      <3>1. child[t] \in Task
        BY <2>2 DEF Unpark, QueueInv, CountInv, Shape, ParkedChild
      <3>2. \A u \in Task : stage'[u] = "queued" => u = child[t] \/ stage[u] = "queued"
        BY <2>2 DEF Unpark, QueueInv, CountInv, TypeOK
      <3> QED BY <1>0, <2>2, <3>1, <3>2, QueueGets DEF QueueInv, Unpark
    <2>3. ASSUME NEW c \in Task, Emit(t, c)
          PROVE  QueueInv'
      BY <1>0, <2>3, QueueGets DEF QueueInv, CountInv, TypeOK, Emit
    <2>4. CASE \E c \in Task : EmitParks(t, c)
      <3>1. /\ UNCHANGED queue
            /\ \A u \in Task : stage'[u] = "queued" => stage[u] = "queued"
        BY <2>4 DEF EmitParks, QueueInv, CountInv, TypeOK
      <3> QED BY <1>0, <3>1, QueueSame DEF QueueInv
    <2>5. CASE Select(t) \/ Acquire(t) \/ Enter(t) \/ DelayElapsed(t) \/ Dec(t)
      <3>1. /\ UNCHANGED queue
            /\ \A u \in Task : stage'[u] = "queued" => stage[u] = "queued"
        BY <2>5 DEF Select, Acquire, Enter, DelayElapsed, Dec, QueueInv, CountInv, TypeOK
      <3> QED BY <1>0, <3>1, QueueSame DEF QueueInv
    <2>6. CASE \/ Reject(t) \/ CancelBeforeRun(t) \/ Complete(t) \/ Error(t)
               \/ Timeout(t) \/ CancelTask(t) \/ Panic(t) \/ CancelDelay(t)
      <3>1. UNCHANGED queue /\ \E s \in Stage \ {"queued"} : MoveFrom(t, s)
        BY <2>6 DEF Reject, CancelBeforeRun, Complete, Error, Timeout, CancelTask, Panic,
                    CancelDelay, FailTask, Retry, EndFrom, Early, Stage, Live, Ended
      <3>2. \A u \in Task : stage'[u] = "queued" => stage[u] = "queued"
        BY <3>1 DEF MoveFrom
      <3> QED BY <1>0, <3>1, <3>2, QueueSame DEF QueueInv
    <2> QED BY <1>6, <2>1, <2>2, <2>3, <2>4, <2>5, <2>6 DEF OneTask
  <1> QED BY <1>1, <1>2, <1>3, <1>4, <1>5, <1>6, Steps

LEMMA QueueInvariant == Spec => []QueueInv
  <1>1. Init => QueueInv
    BY CountInvInit, SchedulerAssumption
       DEF Init, QueueInv, QueuedInQueue, SchedulerAssumption
  <1>2. QueueInv /\ [Next]_vars => QueueInv'
    BY QueueInvStep
  <1> QED BY <1>1, <1>2, PTL DEF Spec

(* The channel carries each queued task exactly once, and nothing else,    *)
(* whatever is sent, resent, drained or dropped with a timed-out worker.   *)
THEOREM QueueIsExact == Spec => []QueueExact
  <1>1. QueueInv => QueueExact
    <2> SUFFICES ASSUME QueueInv PROVE QueueExact
      OBVIOUS
    <2>1. \A t \in Task : (\E k \in 1..Len(queue) : queue[k] = t) => stage[t] = "queued"
      BY DEF QueueInv, CountInv, Shape, QueueOwnsQueued
    <2> QED BY <2>1 DEF QueueExact, QueueInv, QueuedInQueue, CountInv, Shape, QueueOwnsQueued
  <1> QED BY <1>1, QueueInvariant, PTL

-----------------------------------------------------------------------------
(* The permits.  That a waiting task holds none is what makes the ledger   *)
(* inductive: dispatch gives a task its global permit as its only one.     *)
Holding == {"admit", "acquire", "regain", "run"}

PermitInv == CountInv /\ PermitLedger /\ WaitersHoldNothing

LEMMA HoldersFinite ==
  ASSUME NEW s \in Sem
  PROVE  IsFiniteSet(Holders(s)) /\ Cardinality(Holders(s)) \in Nat
  <1>1. IsFiniteSet(Holders(s))
    BY FS_Subset, SchedulerAssumption DEF Holders, SchedulerAssumption
  <1> QED BY <1>1, FS_CardinalityType

(* Tasks move between stages with what they hold.                          *)
LEMMA PermitsStay ==
  ASSUME PermitInv, UNCHANGED <<held, free>>,
         \A u \in Task : stage[u] \in Holding /\ stage'[u] \notin Holding => held[u] = {}
  PROVE  PermitLedger' /\ WaitersHoldNothing'
  <1>1. \A s \in Sem : Holders(s)' = Holders(s)
    BY DEF Holders
  <1> QED BY <1>1 DEF PermitInv, PermitLedger, WaitersHoldNothing, Holding

(* A task gives up all it holds.                                           *)
LEMMA PermitsGoBack ==
  ASSUME PermitInv, NEW t \in Task, ReleaseSlot(t),
         \A u \in Task \ {t} : stage[u] \in Holding => stage'[u] \in Holding
  PROVE  PermitLedger' /\ WaitersHoldNothing'
  <1>1. held' = [held EXCEPT ![t] = {}] /\ held \in [Task -> SUBSET Sem]
    BY DEF ReleaseSlot, PermitInv, CountInv, TypeOK
  <1>2. ASSUME NEW s \in Sem
        PROVE  free'[s] + Cardinality(Holders(s)') = Permits[s]
    <2>1. Holders(s)' = Holders(s) \ {t}
      BY <1>1 DEF Holders
    <2>2. free'[s] = IF s \in held[t] THEN free[s] + 1 ELSE free[s]
      BY DEF ReleaseSlot
    <2>3. t \in Holders(s) <=> s \in held[t]
      BY DEF Holders
    <2>4. free[s] \in Nat /\ free[s] + Cardinality(Holders(s)) = Permits[s]
      BY DEF PermitInv, PermitLedger, CountInv, TypeOK
    <2>5. Cardinality(Holders(s) \ {t}) = IF t \in Holders(s) THEN Cardinality(Holders(s)) - 1
                                          ELSE Cardinality(Holders(s))
      BY HoldersFinite, FS_RemoveElement
    <2> QED BY <2>1, <2>2, <2>3, <2>4, <2>5, HoldersFinite
  <1>3. \A u \in Task : stage'[u] \notin Holding => held'[u] = {}
    BY <1>1 DEF PermitInv, WaitersHoldNothing, Holding
  <1> QED BY <1>2, <1>3 DEF PermitLedger, WaitersHoldNothing, Holding

(* A task is given one permit that is free and that it does not hold.      *)
LEMMA PermitTaken ==
  ASSUME PermitInv, NEW t \in Task, NEW s \in Sem, s \notin held[t], free[s] > 0,
         held' = [held EXCEPT ![t] = @ \cup {s}], free' = [free EXCEPT ![s] = @ - 1],
         stage'[t] \in Holding, \A u \in Task \ {t} : stage'[u] = stage[u]
  PROVE  PermitLedger' /\ WaitersHoldNothing'
  <1>1. held \in [Task -> SUBSET Sem] /\ free \in [Sem -> Nat]
    BY DEF PermitInv, CountInv, TypeOK
  <1>2. ASSUME NEW r \in Sem
        PROVE  free'[r] + Cardinality(Holders(r)') = Permits[r]
    <2>1. free[r] \in Nat /\ free[r] + Cardinality(Holders(r)) = Permits[r]
      BY <1>1 DEF PermitInv, PermitLedger
    <2>2. CASE r # s
      <3>1. Holders(r)' = Holders(r) /\ free'[r] = free[r]
        BY <1>1, <2>2 DEF Holders
      <3> QED BY <2>1, <3>1
    <2>3. CASE r = s
      <3>1. Holders(s)' = Holders(s) \cup {t} /\ t \notin Holders(s) /\ free'[s] = free[s] - 1
        BY <1>1 DEF Holders
      <3>2. Cardinality(Holders(s) \cup {t}) = Cardinality(Holders(s)) + 1
        BY <3>1, HoldersFinite, FS_AddElement
      <3> QED BY <2>1, <2>3, <3>1, <3>2, HoldersFinite
    <2> QED BY <2>2, <2>3
  <1>3. \A u \in Task : stage'[u] \notin Holding => held'[u] = {}
    BY <1>1 DEF PermitInv, WaitersHoldNothing, Holding
  <1> QED BY <1>2, <1>3 DEF PermitLedger, WaitersHoldNothing, Holding

LEMMA PermitOneTask ==
  ASSUME PermitInv, NEW t \in Task, OneTask(t)
  PROVE  PermitLedger' /\ WaitersHoldNothing'
  <1> USE DEF Holding
  <1>1. CASE Select(t) \/ Enter(t) \/ DelayElapsed(t) \/ Send(t) \/ Dec(t)
    <2>1. UNCHANGED <<held, free>>
      BY <1>1 DEF Select, Enter, DelayElapsed, Send, Dec, taskVars
    <2>2. \A u \in Task : stage[u] \in Holding => stage'[u] \in Holding
      BY <1>1 DEF Select, Enter, DelayElapsed, Send, Dec, PermitInv, CountInv, TypeOK
    <2> QED BY <2>1, <2>2, PermitsStay
  <1>2. CASE Acquire(t)
    <2>1. PICK s \in Sem : /\ NextSem(t, s) /\ free[s] > 0
                           /\ free' = [free EXCEPT ![s] = @ - 1]
                           /\ held' = [held EXCEPT ![t] = @ \cup {s}]
      BY <1>2 DEF Acquire
    <2>2. s \notin held[t] /\ stage' = stage /\ stage[t] \in Holding
      BY <1>2, <2>1 DEF NextSem, Acquire
    <2> QED BY <2>1, <2>2, PermitTaken
  <1>3. CASE Unpark(t)
    <2>1. child[t] \in Task /\ stage[child[t]] = "sending"
      BY <1>3 DEF Unpark, PermitInv, CountInv, Shape, ParkedChild
    <2>2. \A u \in Task : stage[u] \in Holding => stage'[u] \in Holding
      BY <1>3, <2>1 DEF Unpark, PermitInv, CountInv, TypeOK
    <2> QED BY <1>3, <2>2, PermitsStay DEF Unpark
  <1>4. ASSUME NEW c \in Task, Emit(t, c)
        PROVE  PermitLedger' /\ WaitersHoldNothing'
    <2>1. \A u \in Task : stage[u] \in Holding => stage'[u] \in Holding
      BY <1>4 DEF Emit, PermitInv, CountInv, TypeOK
    <2> QED BY <1>4, <2>1, PermitsStay DEF Emit, taskVars
  <1>5. ASSUME NEW c \in Task, EmitParks(t, c)
        PROVE  PermitLedger' /\ WaitersHoldNothing'
    <2>1. \A u \in Task \ {t} : stage[u] \in Holding => stage'[u] \in Holding
      BY <1>5 DEF EmitParks, PermitInv, CountInv, TypeOK
    <2> QED BY <1>5, <2>1, PermitsGoBack DEF EmitParks
  <1>6. CASE CancelDelay(t)
    <2>1. UNCHANGED <<held, free>> /\ stage[t] = "delay" /\ MoveFrom(t, "unfinished")
      BY <1>6 DEF CancelDelay, EndFrom, taskVars
    <2>2. \A u \in Task : stage[u] \in Holding => stage'[u] \in Holding
      BY <2>1 DEF MoveFrom
    <2> QED BY <2>1, <2>2, PermitsStay
  <1>7. CASE \/ Reject(t) \/ CancelBeforeRun(t) \/ Complete(t) \/ Error(t)
             \/ Timeout(t) \/ CancelTask(t) \/ Panic(t)
    <2>1. ReleaseSlot(t) /\ \E s \in Stage : MoveFrom(t, s)
      BY <1>7 DEF Reject, CancelBeforeRun, Complete, Error, Timeout, CancelTask, Panic,
                  FailTask, Retry, EndFrom, Early, LeaveSlot, Stage, Live, Ended
    <2>2. \A u \in Task \ {t} : stage[u] \in Holding => stage'[u] \in Holding
      BY <2>1 DEF MoveFrom, PermitInv, CountInv, Shape, ParkedChild
    <2> QED BY <2>1, <2>2, PermitsGoBack
  <1> QED BY <1>1, <1>2, <1>3, <1>4, <1>5, <1>6, <1>7 DEF OneTask

LEMMA PermitInvStep ==
  ASSUME PermitInv, [Next]_vars
  PROVE  PermitInv'
  <1>0. CountInv'
    BY CountInvStep DEF PermitInv
  <1>1. CASE \/ Look \/ Wake \/ EndEpochs \/ Phase2 \/ GraceElapsed \/ Drained
             \/ Trigger \/ UNCHANGED vars \/ \E F \in SUBSET Instance : Stop(F)
    <2>1. UNCHANGED <<stage, held, free>>
      BY <1>1 DEF Look, Wake, EndEpochs, Phase2, GraceElapsed, Drained, Trigger, vars, Stop,
                  taskVars
    <2> QED BY <1>0, <2>1, PermitsStay DEF PermitInv
  <1>2. CASE Recv \/ DrainRecv \/ \E S \in SUBSET Unborn : Flush(S)
    <2>1. UNCHANGED <<held, free>>
      BY <1>2 DEF Recv, DrainRecv, Flush, taskVars
    <2>2. \A u \in Task : stage[u] \in Holding => stage'[u] = stage[u]
      <3>1. CASE \E S \in SUBSET Unborn : Flush(S)
        BY <3>1 DEF Flush, Unborn, In, Holding
      <3>2. CASE Recv \/ DrainRecv
        <4>1. stage[Head(queue)] = "queued" /\ Head(queue) \in Task
          BY <3>2, QueueHeadTask
             DEF Recv, DrainRecv, PermitInv, CountInv, TypeOK, Shape, QueueOwnsQueued
        <4> QED BY <3>2, <4>1 DEF Recv, DrainRecv, PermitInv, CountInv, TypeOK, Holding
      <3> QED BY <1>2, <3>1, <3>2
    <2> QED BY <1>0, <2>1, <2>2, PermitsStay DEF PermitInv
  <1>3. ASSUME NEW t \in Task, Dispatch(t)
        PROVE  PermitInv'
    <2>1. held[t] = {} /\ Global \in Sem
      BY <1>3, SchedulerAssumption
         DEF Dispatch, PermitInv, WaitersHoldNothing, SchedulerAssumption
    <2>2. held' = [held EXCEPT ![t] = @ \cup {Global}]
      BY <1>3, <2>1 DEF Dispatch, PermitInv, CountInv, TypeOK
    <2>3. stage'[t] \in Holding /\ \A u \in Task \ {t} : stage'[u] = stage[u]
      BY <1>3 DEF Dispatch, PermitInv, CountInv, TypeOK, Holding
    <2>4. free' = [free EXCEPT ![Global] = @ - 1] /\ free[Global] > 0
      BY <1>3 DEF Dispatch
    <2> QED BY <1>0, <2>1, <2>2, <2>3, <2>4, PermitTaken DEF PermitInv
  <1>4. ASSUME NEW t \in Task, OneTask(t)
        PROVE  PermitInv'
    BY <1>0, <1>4, PermitOneTask DEF PermitInv
  <1> QED BY <1>1, <1>2, <1>3, <1>4, Steps

LEMMA PermitInvariant == Spec => []PermitInv
  <1>1. Init => PermitInv
    <2> SUFFICES ASSUME Init PROVE PermitInv
      OBVIOUS
    <2>1. \A s \in Sem : Holders(s) = {}
      BY DEF Init, Holders
    <2>2. free = Permits /\ Permits \in [Sem -> Nat] /\ Cardinality({}) = 0
      BY FS_EmptySet, SchedulerAssumption DEF Init, SchedulerAssumption
    <2>3. PermitLedger
      BY <2>1, <2>2 DEF PermitLedger
    <2>4. WaitersHoldNothing
      BY DEF Init, WaitersHoldNothing
    <2> QED BY <2>3, <2>4, CountInvInit DEF PermitInv
  <1>2. PermitInv /\ [Next]_vars => PermitInv'
    BY PermitInvStep
  <1> QED BY <1>1, <1>2, PTL DEF Spec

(* No permit of the run, of an instance or of a pool is leaked or freed    *)
(* twice on any path through emit, reacquire, timeout, cancel or panic.    *)
THEOREM PermitsExact == Spec => []PermitLedger
  <1>1. PermitInv => PermitLedger
    BY DEF PermitInv
  <1> QED BY <1>1, PermitInvariant, PTL

(* A task that waits for queue capacity, a retry or its dispatch pins no   *)
(* permit, the rule of RunSlot on which a full queue's progress rests.     *)
THEOREM WaitersReleased == Spec => []WaitersHoldNothing
  <1>1. PermitInv => WaitersHoldNothing
    BY DEF PermitInv
  <1> QED BY <1>1, PermitInvariant, PTL

-----------------------------------------------------------------------------
(* What holds when a run returns.  Before phase 2 nothing is cancelled and *)
(* the run does not count as interrupted; work is left unfinished only     *)
(* after that; and from the moment phase 2 finds no shutdown, or the drain *)
(* is over, nothing is counted, so that nothing can come to life again.    *)
Before2 == {"check", "select", "permit", "phase2"}
Bad     == Stage \ {"unborn", "processed", "skipped"}

Latches ==
  /\ loop \in Before2 => ~interrupted /\ ~cancel
  /\ cancel \/ loop = "drain" => interrupted
  /\ interrupted => shutdown
  /\ In({"unfinished"}) # {} => interrupted

NothingLeft ==
  /\ (loop = "phase2" /\ ~shutdown) \/ loop \in {"stop", "done"} => Counted = {}
  /\ extents => loop = "done" /\ In(Bad) = {}

ReturnInv == CountInv /\ Latches /\ NothingLeft

LEMMA ZeroIsEmpty ==
  ASSUME CountInv, inFlight = 0
  PROVE  Counted = {}
  BY CountedFinite, FS_EmptySet DEF CountInv, InFlightLedger

(* A task becomes unfinished in the drain or by a cancellation.            *)
LEMMA UnfinishedByCancel ==
  ASSUME CountInv, NEW t \in Task, OneTask(t), ~cancel
  PROVE  In({"unfinished"})' \subseteq In({"unfinished"})
  <1>1. CASE \/ Select(t) \/ Acquire(t) \/ Enter(t) \/ Unpark(t) \/ DelayElapsed(t)
             \/ Send(t) \/ Dec(t) \/ \E c \in Task : Emit(t, c) \/ EmitParks(t, c)
    <2>1. \A u \in Task : stage'[u] = "unfinished" => stage[u] = "unfinished"
      BY <1>1 DEF Select, Acquire, Enter, Unpark, DelayElapsed, Send, Dec, Emit, EmitParks,
                  CountInv, TypeOK
    <2> QED BY <2>1 DEF In
  <1>2. CASE Reject(t) \/ Complete(t) \/ Error(t) \/ Timeout(t) \/ Panic(t)
    <2>1. \E s \in Stage \ {"unfinished"} : MoveFrom(t, s)
      BY <1>2 DEF Reject, Complete, Error, Timeout, Panic, FailTask, Retry, EndFrom, Early,
                  Stage, Live, Ended
    <2> QED BY <2>1 DEF MoveFrom, In
  <1>3. ~CancelBeforeRun(t) /\ ~CancelTask(t) /\ ~CancelDelay(t)
    BY DEF CancelBeforeRun, CancelTask, CancelDelay
  <1> QED BY <1>1, <1>2, <1>3 DEF OneTask

LEMMA ReturnOneTask ==
  ASSUME ReturnInv, NEW t \in Task, OneTask(t)
  PROVE  Latches' /\ NothingLeft'
  <1>1. t \in Counted /\ UNCHANGED <<loop, shutdown, cancel, interrupted, extents>>
    BY OneTaskCounted DEF ReturnInv, dispVars
  <1>2. In({"unfinished"})' # {} => interrupted
    BY UnfinishedByCancel DEF ReturnInv, Latches
  <1>3. ~(loop = "phase2" /\ ~shutdown) /\ loop \notin {"stop", "done"} /\ ~extents
    BY <1>1 DEF ReturnInv, NothingLeft
  <1>4. Latches'
    BY <1>1, <1>2 DEF ReturnInv, Latches, In
  <1> QED BY <1>1, <1>3, <1>4 DEF NothingLeft

(* The dispatcher's steps that move no task.                               *)
LEMMA ReturnLoopSteps ==
  ASSUME ReturnInv,
         \/ Look \/ Wake \/ EndEpochs \/ Phase2 \/ GraceElapsed \/ Drained
         \/ Trigger \/ UNCHANGED vars
  PROVE  Latches' /\ NothingLeft'
  <1>1. UNCHANGED <<stage, owes, extents>>
    BY DEF Look, Wake, EndEpochs, Phase2, GraceElapsed, Drained, Trigger, vars, resultVars
  <1>2. Counted' = Counted /\ In(Bad)' = In(Bad) /\ In({"unfinished"})' = In({"unfinished"})
    BY <1>1 DEF Counted, In
  <1>3. inFlight = 0 => Counted = {}
    BY ZeroIsEmpty DEF ReturnInv
  <1>4. Latches'
    BY <1>2 DEF ReturnInv, Latches, Before2, Look, Wake, EndEpochs, Phase2, GraceElapsed,
                Drained, Trigger, vars, resultVars, latchVars, CountInv, TypeOK
  <1>5. NothingLeft'
    BY <1>1, <1>2, <1>3
       DEF ReturnInv, NothingLeft, Look, Wake, EndEpochs, Phase2, GraceElapsed,
           Drained, Trigger, vars, resultVars, latchVars, CountInv, TypeOK
  <1> QED BY <1>4, <1>5

(* The end of a run: extents are recorded when nothing failed, nothing is  *)
(* left and the run was not interrupted.                                   *)
LEMMA ReturnStop ==
  ASSUME ReturnInv, NEW F \in SUBSET Instance, Stop(F)
  PROVE  Latches' /\ NothingLeft'
  <1>1. UNCHANGED <<stage, owes, shutdown, cancel, interrupted>> /\ loop = "stop" /\ loop' = "done"
    BY DEF Stop, latchVars
  <1>2. Counted' = Counted /\ In(Bad)' = In(Bad) /\ In({"unfinished"})' = In({"unfinished"})
    BY <1>1 DEF Counted, In
  <1>3. Counted = {}
    BY <1>1 DEF ReturnInv, NothingLeft
  <1>4. extents' => In(Bad) = {}
    <2> SUFFICES ASSUME extents', NEW u \in In(Bad) PROVE FALSE
      OBVIOUS
    <2>1. u \in Task /\ stage[u] \in {"failed", "unfinished"} \cup Live
      BY DEF In, Bad, Stage, Live, Ended
    <2>2. stage[u] # "failed" /\ stage[u] # "unfinished"
      BY <2>1 DEF Stop, ReturnInv, Latches, In
    <2>3. u \in Counted
      BY <2>1, <2>2 DEF Counted, In
    <2> QED BY <1>3, <2>3
  <1>5. Latches'
    BY <1>1, <1>2 DEF ReturnInv, Latches, Before2
  <1> QED BY <1>1, <1>2, <1>3, <1>4, <1>5 DEF NothingLeft

LEMMA ReturnInvStep ==
  ASSUME ReturnInv, [Next]_vars
  PROVE  ReturnInv'
  <1>0. CountInv'
    BY CountInvStep DEF ReturnInv
  <1>1. CASE \/ Look \/ Wake \/ EndEpochs \/ Phase2 \/ GraceElapsed \/ Drained
             \/ Trigger \/ UNCHANGED vars
    BY <1>0, <1>1, ReturnLoopSteps DEF ReturnInv
  <1>2. ASSUME NEW F \in SUBSET Instance, Stop(F)
        PROVE  ReturnInv'
    BY <1>0, <1>2, ReturnStop DEF ReturnInv
  <1>3. CASE Recv
    <2>1. /\ UNCHANGED <<shutdown, cancel, interrupted, extents>>
          /\ loop = "select" /\ loop' = "permit"
          /\ stage' = [stage EXCEPT ![Head(queue)] = "hand"]
      BY <1>3 DEF Recv, latchVars, resultVars
    <2>2. In({"unfinished"})' \subseteq In({"unfinished"})
      BY <2>1 DEF In, ReturnInv, CountInv, TypeOK
    <2> QED BY <1>0, <2>1, <2>2 DEF ReturnInv, Latches, NothingLeft, Before2
  <1>4. CASE DrainRecv
    <2>1. /\ UNCHANGED <<loop, shutdown, cancel, interrupted, extents>>
          /\ loop = "drain" /\ interrupted
      BY <1>4 DEF DrainRecv, dispVars, ReturnInv, Latches
    <2> QED BY <1>0, <2>1 DEF ReturnInv, Latches, NothingLeft, Before2
  <1>5. ASSUME NEW S \in SUBSET Unborn, Flush(S)
        PROVE  ReturnInv'
    <2>1. /\ UNCHANGED <<shutdown, cancel, interrupted, extents, owes>>
          /\ loop = "check" /\ loop' \in {"check", "phase2"} /\ (loop' = "phase2" => S = {})
          /\ inFlight = 0
          /\ stage' = [t \in Task |-> IF t \in S THEN "feeding" ELSE stage[t]]
      BY <1>5 DEF Flush, latchVars, resultVars
    <2>2. In({"unfinished"})' \subseteq In({"unfinished"})
      BY <2>1 DEF In
    <2>3. loop' = "phase2" => Counted' = Counted
      BY <2>1 DEF Counted, In
    <2>4. Counted = {}
      BY <2>1, ZeroIsEmpty DEF ReturnInv
    <2> QED BY <1>0, <2>1, <2>2, <2>3, <2>4 DEF ReturnInv, Latches, NothingLeft, Before2
  <1>6. ASSUME NEW t \in Task, Dispatch(t)
        PROVE  ReturnInv'
    <2>1. /\ UNCHANGED <<shutdown, cancel, interrupted, extents>>
          /\ loop = "permit" /\ loop' = "check"
          /\ stage' = [stage EXCEPT ![t] = "admit"]
      BY <1>6 DEF Dispatch, latchVars, resultVars
    <2>2. In({"unfinished"})' \subseteq In({"unfinished"})
      BY <2>1 DEF In, ReturnInv, CountInv, TypeOK
    <2> QED BY <1>0, <2>1, <2>2 DEF ReturnInv, Latches, NothingLeft, Before2
  <1>7. ASSUME NEW t \in Task, OneTask(t)
        PROVE  ReturnInv'
    BY <1>0, <1>7, ReturnOneTask DEF ReturnInv
  <1> QED BY <1>1, <1>2, <1>3, <1>4, <1>5, <1>6, <1>7, Steps

LEMMA ReturnInvInit == Init => ReturnInv
  <1> SUFFICES ASSUME Init PROVE ReturnInv
    OBVIOUS
  <1>1. In({"unfinished"}) = {}
    BY DEF Init, In
  <1>2. loop = "check" /\ ~extents /\ ~interrupted /\ ~cancel
    BY DEF Init
  <1> QED BY <1>1, <1>2, CountInvInit DEF ReturnInv, Latches, NothingLeft

LEMMA ReturnInvariant == Spec => []ReturnInv
  <1>1. ReturnInv /\ [Next]_vars => ReturnInv'
    BY ReturnInvStep
  <1> QED BY <1>1, ReturnInvInit, PTL DEF Spec

(* A run never returns over unfinished work: when on_stop runs, no task is *)
(* live anywhere, every outcome is recorded and the channel is empty.      *)
THEOREM ReturnsQuiescent == Spec => []QuiescentReturn
  <1>1. ReturnInv => QuiescentReturn
    <2> SUFFICES ASSUME ReturnInv, loop \in {"stop", "done"}
                 PROVE  Counted = {} /\ queue = <<>>
      BY DEF QuiescentReturn
    <2>1. Counted = {}
      BY DEF ReturnInv, NothingLeft
    <2>2. ASSUME queue # <<>> PROVE FALSE
      <3>1. Head(queue) \in Task /\ stage[Head(queue)] = "queued"
        BY <2>2, QueueHeadTask DEF ReturnInv, CountInv, Shape, QueueOwnsQueued, TypeOK
      <3> QED BY <2>1, <3>1 DEF Counted, In, Live
    <2> QED BY <2>1, <2>2
  <1> QED BY <1>1, ReturnInvariant, PTL

(* Source extents are recorded only by a pass in which every task that     *)
(* ever existed was processed or skipped.                                  *)
THEOREM ExtentsClean == Spec => []CleanExtents
  <1>1. ReturnInv => CleanExtents
    BY DEF ReturnInv, NothingLeft, CleanExtents, Bad
  <1> QED BY <1>1, ReturnInvariant, PTL

(* Only an interrupted run reports work as unfinished.                     *)
THEOREM UnfinishedOnlyInterrupted == Spec => []UnfinishedIsInterrupted
  <1>1. ReturnInv => UnfinishedIsInterrupted
    BY DEF ReturnInv, Latches, UnfinishedIsInterrupted
  <1> QED BY <1>1, ReturnInvariant, PTL

-----------------------------------------------------------------------------
(* The contract.  Each step of a run is a step of RunContract or changes   *)
(* nothing that the contract speaks of.  Its outcome of a task is:         *)
Outcome == [t \in Task |-> IF stage[t] = "unborn" THEN "none"
                           ELSE IF stage[t] \in Live THEN "live" ELSE stage[t]]

(* A shutdown was asked for whenever work may be left unfinished.          *)
LEMMA AskedFirst ==
  ASSUME ReturnInv, cancel \/ loop = "drain"
  PROVE  shutdown
  BY DEF ReturnInv, Latches

LEMMA ContractState ==
  /\ Contract!contractVars = <<Outcome, shutdown, loop = "done">>
  /\ Contract!Ended = Ended
  /\ Contract!Alive = {t \in Task : Outcome[t] = "live"}
  BY DEF Contract!contractVars, Contract!Ended, Contract!Alive, Outcome, Ended

LEMMA OutcomeLive ==
  ASSUME TypeOK, NEW t \in Task
  PROVE  /\ Outcome[t] = "live" <=> stage[t] \in Live
         /\ Outcome[t] = "none" <=> stage[t] = "unborn"
         /\ stage[t] \in Ended => Outcome[t] = stage[t]
  BY StagesDistinct DEF Outcome, TypeOK, Stage, Live, Ended

(* Moves among the stages of a live task.                                  *)
LEMMA ContractStutters ==
  ASSUME \A u \in Task : stage'[u] = stage[u] \/ (stage[u] \in Live /\ stage'[u] \in Live),
         shutdown' = shutdown, (loop' = "done") = (loop = "done")
  PROVE  UNCHANGED Contract!contractVars
  <1>1. Outcome' = Outcome
    BY StagesDistinct DEF Outcome
  <1> QED BY <1>1 DEF Contract!contractVars, Outcome

LEMMA ContractSettles ==
  ASSUME TypeOK, NEW t \in Task, NEW o \in Ended, stage[t] \in Live, stage'[t] = o,
         \A u \in Task \ {t} :
           stage'[u] = stage[u] \/ (stage[u] \in Live /\ stage'[u] \in Live),
         o = "unfinished" => shutdown,
         shutdown' = shutdown, (loop' = "done") = (loop = "done")
  PROVE  Contract!Settle(t, o)
  <1>1. Outcome' = [Outcome EXCEPT ![t] = o]
    BY StagesDistinct DEF Outcome, Ended
  <1>2. Outcome[t] = "live"
    BY OutcomeLive
  <1> QED BY <1>1, <1>2 DEF Contract!Settle, Outcome

LEMMA ContractSpawns ==
  ASSUME TypeOK, NEW S \in SUBSET Task, S # {}, loop # "done",
         \A u \in S : stage[u] = "unborn" /\ stage'[u] \in Live,
         \A u \in Task \ S :
           stage'[u] = stage[u] \/ (stage[u] \in Live /\ stage'[u] \in Live),
         (\E u \in Task : stage[u] \in Live) \/ ~shutdown,
         shutdown' = shutdown, (loop' = "done") = (loop = "done")
  PROVE  Contract!Spawn(S)
  <1>1. Outcome' = [u \in Task |-> IF u \in S THEN "live" ELSE Outcome[u]]
    BY StagesDistinct DEF Outcome, Live
  <1>2. \A u \in S : Outcome[u] = "none"
    BY OutcomeLive
  <1>3. (\E u \in Task : Outcome[u] = "live") \/ ~shutdown
    BY OutcomeLive
  <1>4. Contract!Alive # {} \/ ~shutdown
    BY <1>3, ContractState
  <1> QED BY <1>1, <1>2, <1>4 DEF Contract!Spawn, Outcome

LEMMA ContractOneTask ==
  ASSUME ReturnInv, NEW t \in Task, OneTask(t)
  PROVE  [Contract!ContractNext]_(Contract!contractVars)
  <1>0. TypeOK
    BY DEF ReturnInv, CountInv
  <1>1. shutdown' = shutdown /\ loop' = loop /\ loop # "done"
    BY OneTaskCounted DEF ReturnInv, NothingLeft, dispVars
  <1>2. CASE \/ Select(t) \/ Acquire(t) \/ Enter(t) \/ Unpark(t) \/ DelayElapsed(t)
             \/ Send(t) \/ Dec(t)
    <2>1. \A u \in Task : stage'[u] = stage[u] \/ (stage[u] \in Live /\ stage'[u] \in Live)
      BY <1>2 DEF Select, Acquire, Enter, Unpark, DelayElapsed, Send, Dec, Live,
                  ReturnInv, CountInv, TypeOK, Shape, ParkedChild
    <2> QED BY <1>1, <2>1, ContractStutters
  <1>3. ASSUME NEW c \in Task, Emit(t, c) \/ EmitParks(t, c)
        PROVE  [Contract!ContractNext]_(Contract!contractVars)
    <2>1. /\ stage[c] = "unborn" /\ stage'[c] \in Live /\ stage[t] \in Live
          /\ \A u \in Task \ {c} :
               stage'[u] = stage[u] \/ (stage[u] \in Live /\ stage'[u] \in Live)
      BY <1>3 DEF Emit, EmitParks, Live, ReturnInv, CountInv, TypeOK
    <2>2. Contract!Spawn({c})
      BY <1>0, <1>1, <2>1, ContractSpawns
    <2> QED BY <2>2 DEF Contract!ContractNext
  <1>4. CASE \E s \in Live : stage[t] \in Live /\ MoveFrom(t, s)
    <2>1. \A u \in Task : stage'[u] = stage[u] \/ (stage[u] \in Live /\ stage'[u] \in Live)
      BY <1>4 DEF MoveFrom, Live, ReturnInv, CountInv, TypeOK, Shape, ParkedChild
    <2> QED BY <1>1, <2>1, ContractStutters
  <1>5. CASE \E o \in Ended : /\ stage[t] \in Live /\ EndFrom(t, o)
                              /\ o = "unfinished" => shutdown
    <2>1. PICK o \in Ended : /\ stage[t] \in Live /\ EndFrom(t, o)
                             /\ o = "unfinished" => shutdown
      BY <1>5
    <2>2. stage'[t] = o /\ \A u \in Task \ {t} :
                            stage'[u] = stage[u] \/ (stage[u] \in Live /\ stage'[u] \in Live)
      BY <2>1 DEF EndFrom, MoveFrom, Live, ReturnInv, CountInv, TypeOK, Shape, ParkedChild
    <2>3. Contract!Settle(t, o)
      BY <1>0, <1>1, <2>1, <2>2, ContractSettles
    <2> QED BY <2>3, ContractState DEF Contract!ContractNext
  <1>6. CASE Reject(t) \/ Complete(t) \/ Error(t) \/ Timeout(t) \/ Panic(t)
    <2>1. stage[t] \in Live
      BY <1>6 DEF Reject, Complete, Error, Timeout, Panic, Inside, Live
    <2>2. \/ \E s \in Live : MoveFrom(t, s)
          \/ \E o \in Ended \ {"unfinished"} : EndFrom(t, o)
      BY <1>6 DEF Reject, Complete, Error, Timeout, Panic, Retry, FailTask, Early, Live, Ended
    <2> QED BY <1>4, <1>5, <2>1, <2>2
  <1>7. CASE CancelBeforeRun(t) \/ CancelTask(t) \/ CancelDelay(t)
    <2>1. stage[t] \in Live /\ EndFrom(t, "unfinished") /\ cancel
      BY <1>7 DEF CancelBeforeRun, CancelTask, CancelDelay, Inside, Live
    <2>2. shutdown
      BY <2>1, AskedFirst
    <2> QED BY <1>5, <2>1, <2>2 DEF Ended
  <1> QED BY <1>2, <1>3, <1>6, <1>7 DEF OneTask

LEMMA ContractStep ==
  ASSUME ReturnInv, [Next]_vars
  PROVE  [Contract!ContractNext]_(Contract!contractVars)
  <1>0. TypeOK
    BY DEF ReturnInv, CountInv
  <1>1. CASE \/ Look \/ Wake \/ EndEpochs \/ Phase2 \/ GraceElapsed \/ Drained
             \/ UNCHANGED vars
    <2>1. UNCHANGED <<stage, shutdown>> /\ (loop' = "done") = (loop = "done")
      BY <1>1 DEF Look, Wake, EndEpochs, Phase2, GraceElapsed, Drained, vars, latchVars
    <2> QED BY <2>1, ContractStutters
  <1>2. CASE Trigger
    <2>1. Contract!Ask
      BY <1>2 DEF Trigger, Contract!Ask
    <2> QED BY <2>1 DEF Contract!ContractNext
  <1>3. ASSUME NEW F \in SUBSET Instance, Stop(F)
        PROVE  [Contract!ContractNext]_(Contract!contractVars)
    <2>1. UNCHANGED <<stage, shutdown>> /\ loop = "stop" /\ loop' = "done"
      BY <1>3 DEF Stop, latchVars
    <2>2. \A u \in Task : stage[u] \notin Live
      BY <2>1 DEF ReturnInv, NothingLeft, Counted, In
    <2>3. Contract!Alive = {}
      BY <1>0, <2>2, OutcomeLive, ContractState
    <2>4. Contract!Return
      BY <2>1, <2>3 DEF Contract!Return
    <2> QED BY <2>4 DEF Contract!ContractNext
  <1>4. CASE Recv
    <2>1. Head(queue) \in Task /\ stage[Head(queue)] = "queued"
      BY <1>4, QueueHeadTask
         DEF Recv, ReturnInv, CountInv, TypeOK, Shape, QueueOwnsQueued
    <2>2. \A u \in Task : stage'[u] = stage[u] \/ (stage[u] \in Live /\ stage'[u] \in Live)
      BY <1>4, <2>1 DEF Recv, Live, ReturnInv, CountInv, TypeOK
    <2>3. shutdown' = shutdown /\ loop' # "done" /\ loop # "done"
      BY <1>4 DEF Recv, latchVars
    <2> QED BY <2>2, <2>3, ContractStutters
  <1>5. CASE DrainRecv
    <2>1. Head(queue) \in Task /\ stage[Head(queue)] = "queued"
      BY <1>5, QueueHeadTask
         DEF DrainRecv, ReturnInv, CountInv, TypeOK, Shape, QueueOwnsQueued
    <2>2. /\ stage[Head(queue)] \in Live /\ stage'[Head(queue)] = "unfinished"
          /\ \A u \in Task \ {Head(queue)} : stage'[u] = stage[u]
      BY <1>5, <2>1 DEF DrainRecv, Live, ReturnInv, CountInv, TypeOK
    <2>3. shutdown /\ shutdown' = shutdown /\ loop' = loop
      BY <1>5, AskedFirst DEF DrainRecv, dispVars
    <2>4. Contract!Settle(Head(queue), "unfinished")
      BY <1>0, <2>1, <2>2, <2>3, ContractSettles DEF Ended
    <2> QED BY <2>1, <2>4, ContractState DEF Contract!ContractNext, Ended
  <1>6. ASSUME NEW S \in SUBSET Unborn, Flush(S)
        PROVE  [Contract!ContractNext]_(Contract!contractVars)
    <2>1. /\ S \subseteq Task /\ \A u \in S : stage[u] = "unborn" /\ stage'[u] \in Live
          /\ \A u \in Task \ S : stage'[u] = stage[u]
          /\ ~shutdown /\ shutdown' = shutdown /\ loop # "done" /\ loop' # "done"
      BY <1>6 DEF Flush, Unborn, In, Live, latchVars
    <2>2. CASE S = {}
      BY <2>1, <2>2, ContractStutters
    <2>3. CASE S # {}
      <3>1. Contract!Spawn(S)
        BY <1>0, <2>1, <2>3, ContractSpawns
      <3> QED BY <2>1, <3>1 DEF Contract!ContractNext
    <2> QED BY <2>2, <2>3
  <1>7. ASSUME NEW t \in Task, Dispatch(t)
        PROVE  [Contract!ContractNext]_(Contract!contractVars)
    <2>1. \A u \in Task : stage'[u] = stage[u] \/ (stage[u] \in Live /\ stage'[u] \in Live)
      BY <1>7 DEF Dispatch, Live, ReturnInv, CountInv, TypeOK
    <2>2. shutdown' = shutdown /\ loop' # "done" /\ loop # "done"
      BY <1>7 DEF Dispatch, latchVars
    <2> QED BY <2>1, <2>2, ContractStutters
  <1>8. ASSUME NEW t \in Task, OneTask(t)
        PROVE  [Contract!ContractNext]_(Contract!contractVars)
    BY <1>8, ContractOneTask
  <1> QED BY <1>1, <1>2, <1>3, <1>4, <1>5, <1>6, <1>7, <1>8, Steps

LEMMA ContractStarts == Init => Contract!ContractInit
  <1> SUFFICES ASSUME Init PROVE Contract!ContractInit
    OBVIOUS
  <1>1. \A t \in Task : Outcome[t] \in {"none", "live"}
    BY DEF Init, Outcome, Live
  <1>2. Outcome \in [Task -> {"none", "live"}]
    BY <1>1 DEF Outcome
  <1> QED BY <1>2 DEF Contract!ContractInit, Init, Outcome

(* The scheduler implements RunContract: every task is settled at most     *)
(* once and with one outcome, is left unfinished only after a shutdown was *)
(* asked for, comes from a live task or a flush, and run() returns only    *)
(* over settled tasks and does nothing afterwards.                         *)
THEOREM ImplementsContract == Spec => KeepsContract
  <1>1. ReturnInv /\ [Next]_vars => [Contract!ContractNext]_(Contract!contractVars)
    BY ContractStep
  <1> QED BY <1>1, ContractStarts, ReturnInvariant, PTL
          DEF Spec, KeepsContract, Contract!ContractSpec
-----------------------------------------------------------------------------
(* The latches that Scheduler takes for booleans.                          *)

Stages == InWait \cup {"out", "told"}

LatchType ==
  /\ flag \in BOOLEAN /\ calls \in Nat /\ listed \subseteq Waiter
  /\ setter \in [Setter -> {"out", "notify"}]
  /\ waiter \in [Waiter -> Stages] /\ seen \in [Waiter -> Nat]

(* A call of notify_waiters is owed exactly by who set the flag.           *)
Owed ==
  /\ calls > 0 => flag
  /\ \A s \in Setter : setter[s] = "notify" => flag
  /\ flag => calls > 0 \/ \E s \in Setter : setter[s] = "notify"

(* Behind enable a waiter is in the list or notify_waiters was called; who *)
(* then sleeps in the list looked before it was.                           *)
Listing ==
  \A w \in Waiter :
    /\ seen[w] <= calls
    /\ waiter[w] \in {"recheck", "await"} /\ w \notin listed => calls > 0
    /\ waiter[w] = "await" /\ w \in listed => calls = 0

LatchInv == LatchType /\ Owed /\ Listing

LEMMA LatchStart == LatchInit => LatchInv
<1> SUFFICES ASSUME LatchInit PROVE LatchInv
  OBVIOUS
<1>1. LatchType
  BY DEF LatchInit, LatchType, Stages
<1>2. Owed
  BY DEF LatchInit, Owed
<1>3. Listing
  BY DEF LatchInit, Listing
<1> QED BY <1>1, <1>2, <1>3 DEF LatchInv

(* Steps of set: no waiter moves.                                          *)
LEMMA SettersKeep ==
  ASSUME LatchInv, NEW s \in Setter, Swap(s) \/ Notify(s)
  PROVE  LatchInv'
<1>1. LatchType /\ Owed /\ Listing
  BY DEF LatchInv
<1>2. CASE Swap(s)
  <2>1. LatchType'
    BY <1>1, <1>2 DEF Swap, LatchType, notify
  <2>2. Owed'
    BY <1>1, <1>2 DEF Swap, LatchType, Owed, notify
  <2>3. Listing'
    BY <1>1, <1>2 DEF Swap, Listing, notify
  <2> QED BY <2>1, <2>2, <2>3 DEF LatchInv
<1>3. CASE Notify(s)
  <2>1. LatchType'
    BY <1>1, <1>3 DEF Notify, LatchType
  <2>2. flag /\ calls' > 0 /\ calls <= calls' /\ UNCHANGED flag
    BY <1>1, <1>3 DEF Notify, LatchType, Owed
  <2>3. Owed'
    BY <1>1, <1>3, <2>2 DEF Notify, LatchType, Owed
  <2>4. Listing'
    BY <1>1, <1>3, <2>2 DEF Notify, LatchType, Listing
  <2> QED BY <2>1, <2>3, <2>4 DEF LatchInv
<1> QED BY <1>2, <1>3

(* Steps of wait: the flag, the count and the setters stay as they are.    *)
LEMMA WaitersKeep ==
  ASSUME LatchInv, NEW w \in Waiter, Call(w) \/ Wait(w) \/ Dropped(w)
  PROVE  LatchInv'
<1>1. LatchType /\ Owed /\ Listing
  BY DEF LatchInv
<1>2. /\ UNCHANGED <<flag, calls, setter>>
      /\ \E from, to \in Stages : At(w, from, to)
  BY <1>1 DEF Call, Wait, FirstLook, Notified, Enable, SecondLook, Woken, Dropped, notify, Stages, InWait
<1>3. Owed'
  BY <1>1, <1>2 DEF Owed
<1>4. listed' \subseteq Waiter /\ seen' \in [Waiter -> Nat]
  BY <1>1 DEF LatchType, Call, Wait, FirstLook, Notified, Enable, SecondLook, Woken, Dropped, notify
<1>5. LatchType'
  BY <1>1, <1>2, <1>4 DEF LatchType, At
<1>6. ASSUME NEW v \in Waiter, v # w
      PROVE  waiter'[v] = waiter[v] /\ seen'[v] = seen[v] /\ (v \in listed' <=> v \in listed)
  BY <1>1, <1>6 DEF LatchType, Call, Wait, FirstLook, Notified, Enable, SecondLook, Woken, Dropped, At, notify
<1>7. /\ seen'[w] <= calls
      /\ waiter'[w] \in {"recheck", "await"} /\ w \notin listed' => calls > 0
      /\ waiter'[w] = "await" /\ w \in listed' => calls = 0
  <2>1. CASE Call(w) \/ FirstLook(w) \/ Notified(w)
    BY <1>1, <2>1 DEF LatchType, Listing, Call, FirstLook, Notified, At, notify
  <2>2. CASE Enable(w)
    BY <1>1, <2>2 DEF LatchType, Listing, Enable, At
  <2>3. CASE SecondLook(w)
    BY <1>1, <2>3 DEF LatchType, Listing, Owed, SecondLook, At
  <2>4. CASE Woken(w) \/ Dropped(w)
    BY <1>1, <2>4 DEF LatchType, Listing, Woken, Dropped, At, notify
  <2> QED BY <2>1, <2>2, <2>3, <2>4 DEF Wait
<1>8. Listing'
  <2>1. SUFFICES ASSUME NEW v \in Waiter
                 PROVE  /\ seen'[v] <= calls
                        /\ waiter'[v] \in {"recheck", "await"} /\ v \notin listed' => calls > 0
                        /\ waiter'[v] = "await" /\ v \in listed' => calls = 0
    BY <1>2 DEF Listing
  <2> QED BY <1>1, <1>6, <1>7 DEF Listing
<1> QED BY <1>3, <1>5, <1>8 DEF LatchInv

(* A set flag is always followed by a notification, seen by all asleep.    *)
THEOREM LatchInvariant == LatchSpec => []LatchInv
<1>1. LatchInv /\ [LatchNext]_latchState => LatchInv'
  <2>1. ASSUME LatchInv, UNCHANGED latchState PROVE LatchInv'
    BY <2>1 DEF latchState, notify, LatchInv, LatchType, Owed, Listing
  <2> QED BY <2>1, SettersKeep, WaitersKeep DEF LatchNext
<1> QED BY <1>1, LatchStart, PTL DEF LatchSpec

(* No wait of a latch sleeps over its flag, for any number of threads that *)
(* set it and tasks that wait (Latch::wait in interrupt.rs).               *)
THEOREM NobodySleepsOn == LatchSpec => []NoLostWakeup
<1>1. LatchInv => NoLostWakeup
  BY DEF LatchInv, LatchType, Owed, Listing, NoLostWakeup
<1> QED BY <1>1, LatchInvariant, PTL

(* With its two looks and the list of its waiters a latch is one boolean   *)
(* that is set once, which is what Scheduler models (interrupt.rs).        *)
THEOREM LatchIsOneShot == LatchSpec => KeepsLatch
<1>1. LatchInit => Shot!ShotInit
  BY DEF LatchInit, Shot!ShotInit, Watch, InWait
<1>2. LatchInv /\ [LatchNext]_latchState => [Shot!ShotNext]_(Shot!shotVars)
  <2> SUFFICES ASSUME LatchInv, [LatchNext]_latchState
               PROVE  [Shot!ShotNext]_(Shot!shotVars)
    OBVIOUS
  <2> DEFINE watch == [w \in Waiter |-> Watch(w)]
  <2>1. LatchType /\ Owed /\ Listing
    BY DEF LatchInv
  <2>2. ASSUME UNCHANGED waiter PROVE watch' = watch
    BY <2>2 DEF Watch
  <2>3. CASE UNCHANGED latchState
    BY <2>2, <2>3 DEF latchState, Shot!shotVars
  <2>4. ASSUME NEW s \in Setter, Swap(s) PROVE Shot!Set
    BY <2>2, <2>4 DEF Swap, Shot!Set
  <2>5. ASSUME NEW s \in Setter, Notify(s) PROVE UNCHANGED Shot!shotVars
    BY <2>2, <2>5 DEF Notify, Shot!shotVars
  <2>6. ASSUME NEW w \in Waiter, Call(w) \/ Wait(w) \/ Dropped(w)
        PROVE  [Shot!Begin(w) \/ Shot!Tell(w) \/ Shot!Leave(w)]_(Shot!shotVars)
    <3> DEFINE Moves(s) == watch' = [watch EXCEPT ![w] = s]
    <3>1. UNCHANGED flag
      BY <2>6 DEF Call, Wait, FirstLook, Notified, Enable, SecondLook, Woken, Dropped, notify
    <3>2. ASSUME NEW from \in Stages, NEW to \in Stages, At(w, from, to)
          PROVE  /\ watch[w] = IF from \in InWait THEN "waits" ELSE from
                 /\ Moves(IF to \in InWait THEN "waits" ELSE to)
      BY <2>1, <3>2 DEF LatchType, At, Watch
    <3>3. CASE Call(w)
      <4>1. watch[w] # "waits" /\ Moves("waits")
        BY <3>2, <3>3 DEF Call, Stages, InWait
      <4> QED BY <3>1, <4>1 DEF Shot!Begin, Shot!Turn
    <3>4. CASE Dropped(w)
      <4>1. watch[w] = "waits" /\ Moves("out")
        BY <3>2, <3>4 DEF Dropped, Stages, InWait
      <4> QED BY <3>1, <4>1 DEF Shot!Leave, Shot!Turn
    <3>5. CASE Wait(w)
      <4>1. watch[w] = "waits" /\ (Moves("waits") \/ (flag /\ Moves("told")))
        <5>1. CASE FirstLook(w) \/ SecondLook(w)
          <6>1. \/ flag /\ \E from \in InWait : At(w, from, "told")
                \/ \E from, to \in InWait : At(w, from, to)
            <7>1. CASE flag
              BY <5>1, <7>1 DEF FirstLook, SecondLook, InWait
            <7>2. CASE ~flag
              <8>1. At(w, "check", "create") \/ At(w, "recheck", "await")
                BY <5>1, <7>2 DEF FirstLook, SecondLook
              <8> QED BY <8>1 DEF InWait
            <7> QED BY <7>1, <7>2
          <6> QED BY <3>2, <6>1 DEF Stages, InWait
        <5>2. CASE Notified(w) \/ Enable(w)
          <6>1. \E from, to \in InWait : At(w, from, to)
            BY <5>2 DEF Notified, Enable, InWait
          <6> QED BY <3>2, <6>1 DEF Stages, InWait
        <5>3. CASE Woken(w)
          <6>1. flag
            BY <2>1, <5>3 DEF Woken, At, Listing, Owed
          <6> QED BY <3>2, <5>3, <6>1 DEF Woken, Stages, InWait
        <5> QED BY <3>5, <5>1, <5>2, <5>3 DEF Wait
      <4>2. ASSUME Moves("waits") PROVE watch' = watch
        BY <4>1, <4>2
      <4> QED BY <3>1, <4>1, <4>2 DEF Shot!Tell, Shot!Turn, Shot!shotVars
    <3> QED BY <2>6, <3>3, <3>4, <3>5
  <2> QED BY <2>3, <2>4, <2>5, <2>6 DEF LatchNext, Shot!ShotNext
<1> QED BY <1>1, <1>2, LatchInvariant, PTL DEF LatchSpec, KeepsLatch, Shot!ShotSpec
=============================================================================
