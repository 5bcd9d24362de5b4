----------------------------- MODULE AgentProofs -----------------------------
(***************************************************************************)
(* Theorems about Agent: for every set of answers, number of steps and of  *)
(* attempts, the model is never asked with a built-in call unanswered, and *)
(* what an attempt emits is the tasks of its last answer.  Nothing of the  *)
(* sandbox is used: both follow from the loop alone.                       *)
(***************************************************************************)
EXTENDS Agent, FiniteSetTheorems, WellFoundedInduction, TLAPS

(* The moves of the loop, as far as the conversation and the emitted tasks *)
(* go: every step of the task is one of them.                              *)
Conversation == <<phase, attempt, step, messages, answer, todo, emitted>>
Waiting == {"create", "start", "prepare", "ask"}
Acting == {"emit", "text", "tool", "exec"}
Phases == {"queued"} \cup Waiting \cup Acting \cup Returned \cup Over

Turn(q) ==
  /\ Talk(q)
  /\ \/ phase \in {"create", "start", "prepare"} /\ q \in Waiting
     \/ phase = "tool" /\ ((todo # <<>> /\ q = "exec") \/ (todo = <<>> /\ q = "ask"))
     \/ (phase \in {"ask", "text"} \/ (phase = "emit" /\ todo = <<>>)) /\ q = "ended"
     \/ phase = "ended" /\ q = "done"
     \/ phase # "queued" /\ q \in {"error", "fatal", "failed", "cancelled"}

RetryStep == phase \notin {"queued"} \cup Over /\ Retry
ResultStep == phase \in {"tool", "exec"} /\ todo # <<>> /\ Result

Move == \/ Begin \/ (\E calls \in Answers : Answered(calls)) \/ EmitTask
        \/ ResultStep \/ RetryStep \/ (\E q \in Phases : Turn(q)) \/ UNCHANGED Conversation

-----------------------------------------------------------------------------
(* The inductive invariant.                                                *)

Message == [role : {"user", "assistant", "tool"}, calls : Seq(Nat)]

Types ==
  /\ phase \in Phases /\ attempt \in Attempt /\ step \in Nat
  /\ messages \in Seq(Message)
  /\ answer \in Seq(STRING) /\ todo \in Seq(Nat)
  /\ emitted \in Seq(Attempt \X Nat \X Nat)

(* A command is awaited on behalf of a call.                               *)
Awaits == phase = "exec" => todo # <<>>

(* The calls of the i-th message are answered by those right behind it.    *)
Behind(i) ==
  LET calls == messages[i].calls
  IN /\ i + Len(calls) <= Len(messages)
     /\ \A k \in DOMAIN calls : messages[i + k] = [role |-> "tool", calls |-> <<calls[k]>>]

(* Before the model is asked nothing is open.                              *)
Closed ==
  phase \in Waiting =>
    \A i \in DOMAIN messages :
      messages[i].role = "assistant" =>
        LET next == i + Len(messages[i].calls) + 1
        IN Behind(i) /\ (next <= Len(messages) => messages[next].role = "assistant")

(* While tools run, only the n-th message is: its first calls are answered *)
(* and the others are still to be carried out.                             *)
OpenAt(n) ==
  LET calls == messages[n].calls
      said == Len(messages) - n
  IN /\ messages[n].role = "assistant"
     /\ said + Len(todo) = Len(calls)
     /\ \A k \in 1..said : messages[n + k] = [role |-> "tool", calls |-> <<calls[k]>>]
     /\ \A k \in 1..Len(todo) : todo[k] = calls[said + k]
     /\ \A i \in 1..(n - 1) :
          messages[i].role = "assistant" =>
            LET next == i + Len(messages[i].calls) + 1
            IN Behind(i) /\ next <= n /\ messages[next].role = "assistant"
Open == phase \in {"tool", "exec"} => \E n \in DOMAIN messages : OpenAt(n)

(* The first n emitted tasks are of earlier attempts, the others the first *)
(* that the last answer asked for.                                         *)
Asked == Positions(answer, TaskCalls)
Split(n) ==
  /\ \A i \in 1..n : emitted[i][1] < attempt
  /\ Len(emitted) - n <= Len(Asked)
  /\ \A i \in (n + 1)..Len(emitted) : emitted[i] = <<attempt, step, Asked[i - n]>>
  /\ "garbled" \in ToSet(answer) => Len(emitted) = n

(* What is still to be emitted is the rest of what was asked for; until an *)
(* answer emits nothing is asked for, and after the end nothing remains.   *)
Owed(n) ==
  /\ phase \in Waiting \cup {"text", "tool", "exec"} => Len(emitted) = n /\ Asked = <<>>
  /\ phase = "emit" =>
       /\ "garbled" \notin ToSet(answer)
       /\ Len(emitted) - n + Len(todo) = Len(Asked)
       /\ \A k \in 1..Len(todo) : todo[k] = Asked[Len(emitted) - n + k]
  /\ phase \in {"ended", "done"} => Len(emitted) - n = Len(Asked)

Emission ==
  /\ phase = "queued" => \A i \in DOMAIN emitted : emitted[i][1] < attempt
  /\ phase # "queued" => \E n \in 0..Len(emitted) : Split(n) /\ Owed(n)

AgentInv == Types /\ Awaits /\ Closed /\ Open /\ Emission

-----------------------------------------------------------------------------
(* Positions, defined as the increasing enumeration of a set, returns one. *)

(* Every nonempty set of naturals has a least element.                     *)
LEMMA NatMinimum ==
  ASSUME NEW S \in SUBSET Nat, S # {}
  PROVE  \E m \in S : \A n \in S : m <= n
  <1>1. PICK m \in S : \A n \in S : ~(<<n, m>> \in OpToRel(<, Nat))
    BY NatLessThanWellFounded, WFMin
  <1>2. \A k, n \in Nat : <<n, k>> \in OpToRel(<, Nat) <=> n < k
    BY DEF OpToRel
  <1>3. \A n \in S : ~(n < m) /\ n \in Nat /\ m \in Nat
    BY <1>1, <1>2
  <1> QED BY <1>3

(* A set of positions can be enumerated in order: the least bound for      *)
(* which this failed would have to be the set's largest member.            *)
Enumerations(S) ==
  {p \in [1..Cardinality(S) -> S] : \A i, j \in DOMAIN p : i < j => p[i] < p[j]}

LEMMA Enumerable ==
  ASSUME NEW n \in Nat, NEW S \in SUBSET (1..n)
  PROVE  Enumerations(S) # {}
  <1> DEFINE Bad == {m \in Nat : \E T \in SUBSET (1..m) : Enumerations(T) = {}}
  <1>1. SUFFICES ASSUME Bad # {} PROVE FALSE
    OBVIOUS
  <1>2. PICK m \in Bad : \A k \in Bad : m <= k
    BY <1>1, NatMinimum
  <1>3. PICK T \in SUBSET (1..m) : Enumerations(T) = {}
    BY <1>2
  <1>4. CASE m = 0
    <2>1. T = {}
      BY <1>3, <1>4
    <2>2. Cardinality({}) = 0
      BY FS_EmptySet
    <2>3. [i \in 1..0 |-> i] \in Enumerations({})
      BY <2>2 DEF Enumerations
    <2> QED BY <1>3, <2>1, <2>3
  <1>5. CASE m # 0
    <2>1. m \in Nat /\ m - 1 \in Nat /\ m - 1 \notin Bad
      BY <1>2, <1>5
    <2>2. m \in T
      <3>1. m \notin T => T \in SUBSET (1..(m - 1))
        BY <1>3, <2>1
      <3> QED BY <1>3, <2>1, <3>1
    <2> DEFINE U == T \ {m}
    <2>3. U \in SUBSET (1..(m - 1)) /\ T = U \cup {m} /\ m \notin U
      BY <1>3, <2>1, <2>2
    <2>4. PICK p \in [1..Cardinality(U) -> U] : \A i, j \in DOMAIN p : i < j => p[i] < p[j]
      BY <2>1, <2>3 DEF Enumerations
    <2>5. Cardinality(U) \in Nat /\ Cardinality(T) = Cardinality(U) + 1
      <3>1. IsFiniteSet(1..(m - 1))
        BY <2>1, FS_Interval
      <3>2. IsFiniteSet(U)
        BY <2>3, <3>1, FS_Subset
      <3> QED BY <2>3, <3>2, FS_CardinalityType, FS_AddElement
    <2> DEFINE c == Cardinality(U)
    <2> HIDE DEF U, c
    <2>6. c \in Nat /\ p \in [1..c -> U] /\ \A i, j \in 1..c : i < j => p[i] < p[j]
      BY <2>4, <2>5 DEF c
    <2> DEFINE q == [i \in 1..(c + 1) |-> IF i <= c THEN p[i] ELSE m]
    <2>7. q \in [1..(c + 1) -> T] /\ \A i, j \in 1..(c + 1) : i < j => q[i] < q[j]
      <3>1. \A i \in 1..c : p[i] \in U /\ p[i] \in 1..(m - 1)
        BY <2>3, <2>6
      <3>2. \A i \in 1..(c + 1) : (i \in 1..c /\ q[i] = p[i]) \/ (i = c + 1 /\ q[i] = m)
        BY <2>6
      <3>3. \A i \in 1..(c + 1) : q[i] \in T
        BY <2>3, <3>1, <3>2
      <3>4. \A i, j \in 1..(c + 1) : i < j => q[i] < q[j]
        <4> HIDE DEF q
        <4> TAKE i, j \in 1..(c + 1)
        <4> HAVE i < j
        <4>1. i \in 1..c /\ q[i] = p[i] /\ p[i] \in 1..(m - 1)
          BY <2>6, <3>1, <3>2
        <4>2. CASE j \in 1..c
          BY <2>6, <3>2, <4>1, <4>2
        <4>3. CASE j = c + 1
          BY <2>1, <2>6, <3>2, <4>1, <4>3
        <4> QED BY <2>6, <4>2, <4>3
      <3> QED BY <3>3, <3>4
    <2>8. q \in Enumerations(T)
      <3>1. Cardinality(T) = c + 1 /\ DOMAIN q = 1..(c + 1)
        BY <2>5 DEF c
      <3> HIDE DEF q
      <3> QED BY <2>7, <3>1 DEF Enumerations
    <2> QED BY <1>3, <2>8
  <1> QED BY <1>4, <1>5

(* What run_loop filters out of an answer is a sequence of its positions,  *)
(* and empty if no call bears one of the names.                            *)
LEMMA PositionsType ==
  ASSUME NEW calls \in Seq(STRING), NEW names
  PROVE  /\ Positions(calls, names) \in Seq(Nat)
         /\ ToSet(calls) \cap names = {} => Positions(calls, names) = <<>>
  <1> DEFINE at == {i \in DOMAIN calls : calls[i] \in names}
  <1>1. Len(calls) \in Nat /\ DOMAIN calls = 1..Len(calls)
    OBVIOUS
  <1>2. at \in SUBSET (1..Len(calls)) /\ Cardinality(at) \in Nat
    <2>1. at \in SUBSET (1..Len(calls))
      BY <1>1
    <2>2. IsFiniteSet(1..Len(calls))
      BY <1>1, FS_Interval
    <2>3. IsFiniteSet(at)
      BY <2>1, <2>2, FS_Subset
    <2> QED BY <2>1, <2>3, FS_CardinalityType
  <1>3. Enumerations(at) # {}
    BY <1>1, <1>2, Enumerable
  <1>4. Positions(calls, names) \in [1..Cardinality(at) -> at]
    BY <1>3 DEF Positions, Enumerations
  <1>5. Positions(calls, names) \in Seq(Nat)
    <2>1. Positions(calls, names) \in [1..Cardinality(at) -> Nat]
      BY <1>1, <1>2, <1>4
    <2> HIDE DEF at
    <2> QED BY <1>2, <2>1
  <1>6. ASSUME ToSet(calls) \cap names = {} PROVE Positions(calls, names) = <<>>
    <2>1. at = {}
      BY <1>6 DEF ToSet
    <2>2. Positions(calls, names) \in [1..0 -> {}]
      BY <1>4, <2>1, FS_EmptySet
    <2>3. Len(Positions(calls, names)) = 0
      BY <1>5, <2>2
    <2> QED BY <1>5, <2>3
  <1> QED BY <1>5, <1>6

-----------------------------------------------------------------------------
(* Every step of the task is a move.                                       *)

LEMMA StepIsMove ==
  ASSUME Types, Awaits, Next
  PROVE  Move
  <1> USE DEF Move, Turn, Phases, Waiting, Acting, Returned, Over
  <1>1. CASE Begin
    BY <1>1
  <1>2. CASE SpawnSandbox
    BY <1>2 DEF SpawnSandbox, Talk
  <1>3. CASE Ask
    BY <1>3 DEF Ask, NoAnswer, OutOfSteps, Talk
  <1>4. CASE EmitTask
    BY <1>4
  <1>5. CASE EndAnswer
    BY <1>5 DEF EndAnswer, Talk
  <1>6. CASE StepBuiltins
    BY <1>6 DEF StepBuiltins, ResultStep, Unusable, Talk
  <1>7. CASE Exec
    BY <1>7 DEF Exec, ResultStep, Awaits
  <1>8. CASE TearDown \/ Return
    BY <1>8 DEF TearDown, Return, Settle, RetryStep, Talk
  <1>9. CASE SpawnFails
    BY <1>9 DEF SpawnFails, RetryStep
  <1>10. CASE AskFails
    BY <1>10 DEF AskFails, Talk
  <1>11. CASE EmitStopped \/ TextFails
    BY <1>11 DEF EmitStopped, TextFails, Talk
  <1>12. CASE Dropped
    BY <1>12 DEF Dropped, RetryStep, Talk
  <1>13. CASE Refuse
    BY <1>13 DEF Refuse, Talk, Conversation
  <1>14. CASE External \/ Serve \/ Collect \/ Leave
    BY <1>14 DEF External, Serve, Collect, Leave, agent, Conversation
  <1> QED BY <1>1, <1>2, <1>3, <1>4, <1>5, <1>6, <1>7, <1>8, <1>9, <1>10, <1>11, <1>12,
             <1>13, <1>14 DEF Next, Advance, Disturb

(* Attempts are numbered from one, and Retry stays below the last.         *)
LEMMA NextAttempt ==
  ASSUME NEW a \in Attempt
  PROVE  a \in Nat /\ (a < LastAttempt => a + 1 \in Attempt)
  <1> DEFINE c == Cardinality(Attempt)
  <1>1. c \in Nat /\ Attempt = 1..c
    BY FS_CardinalityType, AgentAssumption
  <1> HIDE DEF c
  <1>2. c \in Attempt /\ \A m \in Attempt : m <= c
    BY <1>1
  <1>3. LastAttempt \in Attempt
    BY <1>2 DEF LastAttempt
  <1> QED BY <1>1, <1>3

LEMMA InitTypes == ASSUME Init PROVE Types
  <1>1. 1 \in Attempt
    <2>1. Cardinality(Attempt) \in Nat
      BY FS_CardinalityType, AgentAssumption
    <2> QED BY <2>1, AgentAssumption
  <1> QED BY <1>1 DEF Init, Types, Phases

LEMMA MoveTypes ==
  ASSUME Types, Awaits, Move
  PROVE  Types' /\ Awaits'
  <1> USE DEF Types, Awaits, Phases, Waiting, Acting
  <1>1. CASE Begin
    <2>1. <<[role |-> "user", calls |-> <<>>]>> \in Seq(Message)
      BY DEF Message
    <2> QED BY <1>1, <2>1 DEF Begin
  <1>2. ASSUME NEW calls \in Answers, Answered(calls) PROVE Types' /\ Awaits'
    <2>1. calls \in Seq(STRING)
      BY AgentAssumption
    <2>2. Positions(calls, Builtins) \in Seq(Nat) /\ Positions(calls, TaskCalls) \in Seq(Nat)
      BY <2>1, PositionsType
    <2>3. [role |-> "assistant", calls |-> Positions(calls, Builtins)] \in Message
      BY <2>2 DEF Message
    <2>4. /\ phase' \in {"emit", "tool", "text", "error"} /\ step' = step + 1 /\ answer' = calls
          /\ UNCHANGED <<attempt, emitted>>
          /\ todo' \in {Positions(calls, TaskCalls), Positions(calls, Builtins), <<>>}
          /\ messages' \in
               {messages, Append(messages, [role |-> "assistant", calls |-> Positions(calls, Builtins)])}
      <3> HIDE DEF Types, Awaits, Phases, Waiting, Acting
      <3> QED BY <1>2 DEF Answered
    <2>5. todo' \in Seq(Nat) /\ messages' \in Seq(Message)
      <3>1. \A m \in Message : Append(messages, m) \in Seq(Message)
        OBVIOUS
      <3>2. messages \in Seq(Message) /\ <<>> \in Seq(Nat)
        OBVIOUS
      <3> HIDE DEF Types, Awaits
      <3> QED BY <2>2, <2>3, <2>4, <3>1, <3>2
    <2> QED BY <2>1, <2>4, <2>5 DEF Returned
  <1>3. CASE EmitTask
    <2>1. Head(todo) \in Nat /\ Tail(todo) \in Seq(Nat)
      BY <1>3 DEF EmitTask
    <2>2. Append(emitted, <<attempt, step, Head(todo)>>) \in Seq(Attempt \X Nat \X Nat)
      BY <2>1
    <2> QED BY <1>3, <2>1, <2>2 DEF EmitTask, Returned
  <1>4. CASE ResultStep
    <2>1. [role |-> "tool", calls |-> <<Head(todo)>>] \in Message
      BY <1>4 DEF ResultStep, Message
    <2> QED BY <1>4, <2>1 DEF ResultStep, Result
  <1>5. CASE RetryStep
    BY <1>5, NextAttempt DEF RetryStep, Retry, Over
  <1>6. ASSUME NEW q \in Phases, Turn(q) PROVE Types' /\ Awaits'
    BY <1>6 DEF Turn, Talk
  <1>7. CASE UNCHANGED Conversation
    BY <1>7 DEF Conversation
  <1> QED BY <1>1, <1>2, <1>3, <1>4, <1>5, <1>6, <1>7 DEF Move

-----------------------------------------------------------------------------
(* The conversation.                                                       *)

LEMMA CallsType ==
  ASSUME Types, NEW i \in DOMAIN messages
  PROVE  /\ Len(messages) \in Nat /\ i \in 1..Len(messages)
         /\ messages[i].calls \in Seq(Nat) /\ Len(messages[i].calls) \in Nat
  <1>1. messages \in Seq(Message)
    BY DEF Types
  <1>2. Len(messages) \in Nat /\ i \in 1..Len(messages) /\ messages[i] \in Message
    BY <1>1
  <1>3. messages[i].calls \in Seq(Nat)
    BY <1>2 DEF Message
  <1> QED BY <1>2, <1>3

(* A message that is appended disturbs nothing that was answered before.   *)
LEMMA BehindKept ==
  ASSUME Types, Types', NEW i \in DOMAIN messages, Behind(i),
         \/ UNCHANGED messages
         \/ \E m \in Message : messages' = Append(messages, m)
  PROVE  /\ Behind(i)' /\ i \in DOMAIN messages' /\ messages'[i] = messages[i]
         /\ Len(messages[i].calls) \in Nat
  <1>1. /\ messages[i].calls \in Seq(Nat) /\ Len(messages[i].calls) \in Nat
        /\ i \in 1..Len(messages) /\ Len(messages) \in Nat
        /\ messages \in Seq(Message) /\ messages' \in Seq(Message)
    BY CallsType DEF Types
  <1>2. /\ Len(messages) <= Len(messages')
        /\ \A j \in 1..Len(messages) : j \in DOMAIN messages' /\ messages'[j] = messages[j]
    <2>1. CASE UNCHANGED messages
      BY <1>1, <2>1
    <2>2. ASSUME NEW m \in Message, messages' = Append(messages, m)
          PROVE  /\ Len(messages) <= Len(messages')
                 /\ \A j \in 1..Len(messages) : j \in DOMAIN messages' /\ messages'[j] = messages[j]
      BY <1>1, <2>2
    <2> QED BY <2>1, <2>2
  <1>3. \A k \in DOMAIN messages[i].calls : i + k \in 1..Len(messages)
    BY <1>1 DEF Behind
  <1>4. messages'[i] = messages[i] /\ i \in DOMAIN messages'
    BY <1>1, <1>2
  <1>5. \A k \in DOMAIN messages[i].calls : messages'[i + k] = messages[i + k]
    BY <1>2, <1>3
  <1>6. i + Len(messages[i].calls) <= Len(messages')
    <2>1. Len(messages') \in Nat
      BY <1>1
    <2> QED BY <1>1, <1>2, <2>1 DEF Behind
  <1> QED BY <1>1, <1>4, <1>5, <1>6 DEF Behind

(* The start of an attempt: one message, of the user.                      *)
LEMMA BeginTalk ==
  ASSUME Begin
  PROVE  Closed' /\ Open'
  <1>1. phase' \in Waiting
    BY DEF Begin, Waiting
  <1>2. messages' = <<[role |-> "user", calls |-> <<>>]>>
    BY DEF Begin
  <1>3. \A i \in DOMAIN messages' : messages'[i].role # "assistant"
    BY <1>2
  <1> QED BY <1>1, <1>3 DEF Closed, Open, Waiting

(* An answer with built-in calls opens them all.                           *)
LEMMA AnswerTalk ==
  ASSUME AgentInv, Types', NEW calls \in Answers, Answered(calls)
  PROVE  Closed' /\ Open'
  <1>1. phase' \in {"emit", "tool", "error", "text"}
    BY DEF Answered
  <1>2. ASSUME phase' = "tool" PROVE Open'
    <2> DEFINE open == Positions(calls, Builtins)
               m == [role |-> "assistant", calls |-> open]
    <2>1. messages' = Append(messages, m) /\ todo' = open /\ phase = "ask"
      BY <1>2 DEF Answered
    <2>2. open \in Seq(Nat) /\ m \in Message
      <3>1. calls \in Seq(STRING)
        BY AgentAssumption
      <3>2. open \in Seq(Nat)
        BY <3>1, PositionsType
      <3> QED BY <3>2 DEF Message
    <2> HIDE DEF open
    <2>3. messages \in Seq(Message) /\ Len(messages) \in Nat /\ Len(open) \in Nat
      BY <2>2 DEF AgentInv, Types
    <2>4. PICK n \in Nat : n = Len(messages) + 1
      BY <2>3
    <2>5. /\ Len(messages') = n /\ messages'[n] = m /\ n \in DOMAIN messages'
          /\ \A j \in DOMAIN messages : messages'[j] = messages[j]
      BY <2>1, <2>2, <2>3, <2>4
    <2>6. \A i \in 1..(n - 1) : messages'[i].role = "assistant" =>
            LET next == i + Len(messages'[i].calls) + 1
            IN Behind(i)' /\ next <= n /\ messages'[next].role = "assistant"
      <3> TAKE i \in 1..(n - 1)
      <3> HAVE messages'[i].role = "assistant"
      <3>1. i \in DOMAIN messages /\ i \in 1..Len(messages) /\ messages'[i] = messages[i]
        BY <2>3, <2>5, <2>4
      <3> DEFINE next == i + Len(messages[i].calls) + 1
      <3>2. Behind(i) /\ (next <= Len(messages) => messages[next].role = "assistant")
        BY <2>1, <3>1 DEF AgentInv, Closed, Waiting
      <3>3. Behind(i)' /\ Len(messages[i].calls) \in Nat
        BY <2>1, <2>2, <3>1, <3>2, BehindKept DEF AgentInv
      <3>4. next <= n
        BY <2>3, <2>4, <3>1, <3>2, <3>3 DEF Behind
      <3>5. CASE next = n
        BY <2>5, <3>1, <3>3, <3>4, <3>5
      <3>6. CASE next # n
        <4>1. next \in 1..Len(messages) /\ next \in DOMAIN messages
          <5>1. next \in Nat /\ next >= 1 /\ next <= Len(messages)
            BY <2>3, <2>4, <3>1, <3>3, <3>4, <3>6
          <5> QED BY <2>3, <5>1
        <4>2. messages'[next] = messages[next] /\ messages[next].role = "assistant"
          BY <2>5, <3>2, <4>1
        <4> QED BY <3>1, <3>3, <3>4, <4>2
      <3> QED BY <3>5, <3>6
    <2>7. OpenAt(n)'
      <3>1. Len(messages') - n = 0 /\ messages'[n].role = "assistant" /\ messages'[n].calls = todo'
        BY <2>1, <2>3, <2>5, <2>4
      <3>2. Len(todo') \in Nat /\ \A k \in 1..Len(todo') : 0 + k = k
        BY <2>1, <2>3
      <3> HIDE DEF m
      <3> QED BY <2>6, <3>1, <3>2 DEF OpenAt
    <2> HIDE DEF m
    <2> QED BY <2>5, <2>7 DEF Open
  <1> QED BY <1>1, <1>2 DEF Closed, Open, Waiting

(* A result closes the first call that is open.                            *)
LEMMA ResultTalk ==
  ASSUME AgentInv, Types', ResultStep
  PROVE  Closed' /\ Open'
  <1> DEFINE m == [role |-> "tool", calls |-> <<Head(todo)>>]
  <1>1. /\ phase' = "tool" /\ messages' = Append(messages, m) /\ todo' = Tail(todo)
        /\ phase \in {"tool", "exec"} /\ todo # <<>>
    BY DEF ResultStep, Result
  <1>2. /\ messages \in Seq(Message) /\ todo \in Seq(Nat) /\ Len(todo) \in Nat \ {0}
        /\ Head(todo) = todo[1] /\ m \in Message
    BY <1>1 DEF AgentInv, Types, Message
  <1>3. PICK n \in DOMAIN messages : OpenAt(n)
    BY <1>1 DEF AgentInv, Open
  <1> DEFINE calls == messages[n].calls
             said == Len(messages) - n
  <1>4. /\ n \in 1..Len(messages) /\ Len(messages) \in Nat /\ said \in Nat
        /\ calls \in Seq(Nat) /\ Len(calls) \in Nat
    <2>1. n \in DOMAIN messages /\ Types
      BY <1>3 DEF AgentInv
    <2> QED BY <2>1, CallsType
  <1>5. /\ Len(messages') = Len(messages) + 1 /\ messages'[Len(messages) + 1] = m
        /\ n \in DOMAIN messages'
        /\ \A j \in 1..Len(messages) : j \in DOMAIN messages /\ messages'[j] = messages[j]
    <2> HIDE DEF m
    <2> QED BY <1>1, <1>2, <1>4
  <1>6. m = [role |-> "tool", calls |-> <<calls[said + 1]>>]
    <2>1. todo[1] = calls[said + 1] /\ 1 \in 1..Len(todo)
      BY <1>2, <1>3 DEF OpenAt
    <2> QED BY <1>2, <2>1
  <1>7. /\ Len(todo') = Len(todo) - 1
        /\ \A k \in 1..Len(todo') : todo'[k] = calls[said + 1 + k]
    <2>1. Len(todo') = Len(todo) - 1 /\ \A k \in 1..Len(todo') : todo'[k] = todo[k + 1]
      BY <1>1, <1>2
    <2>2. \A k \in 1..Len(todo') : k + 1 \in 1..Len(todo) /\ said + (k + 1) = said + 1 + k
      BY <1>2, <1>4, <2>1
    <2>3. \A k \in 1..Len(todo) : todo[k] = calls[said + k]
      BY <1>3 DEF OpenAt
    <2> QED BY <2>1, <2>2, <2>3
  <1>8. \A k \in 1..(said + 1) : messages'[n + k] = [role |-> "tool", calls |-> <<calls[k]>>]
    <2> TAKE k \in 1..(said + 1)
    <2>1. CASE k = said + 1
      <3>1. n + k = Len(messages) + 1
        BY <1>4, <2>1
      <3> QED BY <1>5, <1>6, <2>1, <3>1
    <2>2. CASE k # said + 1
      <3>1. k \in 1..said /\ n + k \in 1..Len(messages)
        BY <1>4, <2>2
      <3>2. messages[n + k] = [role |-> "tool", calls |-> <<calls[k]>>]
        BY <1>3, <3>1 DEF OpenAt
      <3> QED BY <1>5, <3>1, <3>2
    <2> QED BY <2>1, <2>2
  <1>9. \A i \in 1..(n - 1) : messages'[i].role = "assistant" =>
          LET next == i + Len(messages'[i].calls) + 1
          IN Behind(i)' /\ next <= n /\ messages'[next].role = "assistant"
    <2> TAKE i \in 1..(n - 1)
    <2> HAVE messages'[i].role = "assistant"
    <2>1. i \in 1..Len(messages) /\ i \in DOMAIN messages /\ messages'[i] = messages[i]
      BY <1>4, <1>5
    <2> DEFINE next == i + Len(messages[i].calls) + 1
    <2>2. Behind(i) /\ next <= n /\ messages[next].role = "assistant"
      BY <1>3, <2>1 DEF OpenAt
    <2>3. Behind(i)' /\ Len(messages[i].calls) \in Nat
      BY <1>1, <1>2, <2>1, <2>2, BehindKept DEF AgentInv
    <2>4. next \in 1..Len(messages)
      BY <1>4, <2>2, <2>3
    <2> QED BY <1>5, <2>1, <2>2, <2>3, <2>4
  <1>10. OpenAt(n)'
    <2>1. Len(messages') - n = said + 1 /\ messages'[n] = messages[n]
      BY <1>4, <1>5
    <2>2. messages[n].role = "assistant" /\ said + Len(todo) = Len(calls)
      BY <1>3 DEF OpenAt
    <2>3. said + 1 + Len(todo') = Len(calls)
      BY <1>2, <1>4, <1>7, <2>2
    <2> HIDE DEF m
    <2> QED BY <1>7, <1>8, <1>9, <2>1, <2>2, <2>3 DEF OpenAt
  <1> QED BY <1>1, <1>5, <1>10 DEF Closed, Open, Waiting

LEMMA BehindSame ==
  ASSUME UNCHANGED messages, NEW i \in DOMAIN messages, Behind(i)
  PROVE  Behind(i)'
  BY DEF Behind

(* Every other move leaves the conversation alone, and comes before the    *)
(* model is asked only with nothing open.                                  *)
LEMMA QuietTalk ==
  ASSUME AgentInv, UNCHANGED <<messages, todo>>,
         phase' \in Waiting => phase \in Waiting \/ (phase = "tool" /\ todo = <<>>),
         phase' \in {"tool", "exec"} => phase \in {"tool", "exec"}
  PROVE  Closed' /\ Open'
  <1>1. Open'
    BY DEF AgentInv, Open, OpenAt, Behind
  <1>2. CASE phase' \in Waiting /\ phase \in Waiting
    <2>1. messages' = messages
      OBVIOUS
    <2> QED BY <1>1, <1>2, <2>1, BehindSame DEF AgentInv, Closed, Waiting
  <1>3. CASE phase' \in Waiting /\ phase = "tool" /\ todo = <<>>
    <2>1. PICK n \in DOMAIN messages : OpenAt(n)
      BY <1>3 DEF AgentInv, Open
    <2>2. /\ Len(messages) \in Nat /\ n \in 1..Len(messages)
          /\ messages[n].calls \in Seq(Nat) /\ Len(messages[n].calls) \in Nat
      BY CallsType DEF AgentInv
    <2> DEFINE calls == messages[n].calls
    <2>3. n + Len(calls) = Len(messages)
      <3>1. Len(messages) - n + 0 = Len(calls)
        BY <1>3, <2>1 DEF OpenAt
      <3> QED BY <2>2, <3>1
    <2>4. \A k \in 1..Len(calls) : messages[n + k] = [role |-> "tool", calls |-> <<calls[k]>>]
      <3>1. Len(messages) - n = Len(calls)
        BY <2>2, <2>3
      <3> QED BY <2>1, <3>1 DEF OpenAt
    <2>5. \A i \in DOMAIN messages : messages[i].role = "assistant" =>
            LET next == i + Len(messages[i].calls) + 1
            IN Behind(i) /\ (next <= Len(messages) => messages[next].role = "assistant")
      <3> TAKE i \in DOMAIN messages
      <3> HAVE messages[i].role = "assistant"
      <3>1. i \in 1..Len(messages) /\ Len(messages[i].calls) \in Nat
        BY CallsType DEF AgentInv
      <3>2. CASE i < n
        <4>1. i \in 1..(n - 1)
          BY <2>2, <3>1, <3>2
        <4> QED BY <2>1, <4>1 DEF OpenAt
      <3>3. CASE i = n
        <4>1. Behind(i)
          <5>1. DOMAIN calls = 1..Len(calls) /\ n + Len(calls) <= Len(messages)
            BY <2>2, <2>3
          <5>2. Behind(n)
            BY <2>4, <5>1 DEF Behind
          <5> QED BY <3>3, <5>2
        <4>2. ~(n + Len(calls) + 1 <= Len(messages))
          BY <2>2, <2>3
        <4> QED BY <3>3, <4>1, <4>2
      <3>4. CASE i > n
        <4> DEFINE k == i - n
        <4>1. k \in 1..Len(calls) /\ i = n + k
          <5> HIDE DEF calls
          <5> QED BY <2>2, <2>3, <3>1, <3>4
        <4>2. messages[i].role = "tool"
          <5>1. messages[n + k] = [role |-> "tool", calls |-> <<calls[k]>>]
            BY <2>4, <4>1
          <5> QED BY <4>1, <5>1
        <4> QED BY <4>2
      <3> QED BY <2>2, <3>1, <3>2, <3>3, <3>4
    <2>6. messages' = messages
      OBVIOUS
    <2> QED BY <1>1, <2>5, <2>6, BehindSame DEF Closed
  <1> QED BY <1>1, <1>2, <1>3 DEF Closed

LEMMA MoveTalk ==
  ASSUME AgentInv, Types', Move
  PROVE  Closed' /\ Open'
  <1> USE DEF Waiting, Returned, Over
  <1>1. CASE Begin
    BY <1>1, BeginTalk
  <1>2. CASE \E calls \in Answers : Answered(calls)
    BY <1>2, AnswerTalk
  <1>3. CASE EmitTask
    <2>1. UNCHANGED messages /\ phase' \in {"emit", "error"}
      BY <1>3 DEF EmitTask
    <2> QED BY <2>1 DEF Closed, Open
  <1>4. CASE ResultStep
    BY <1>4, ResultTalk
  <1>5. CASE RetryStep
    <2>1. phase' \in {"queued", "failed"}
      BY <1>5 DEF RetryStep, Retry
    <2> QED BY <2>1 DEF Closed, Open
  <1>6. ASSUME NEW q \in Phases, Turn(q) PROVE Closed' /\ Open'
    BY <1>6, QuietTalk DEF Turn, Talk
  <1>7. CASE UNCHANGED Conversation
    BY <1>7, QuietTalk DEF Conversation
  <1> QED BY <1>1, <1>2, <1>3, <1>4, <1>5, <1>6, <1>7 DEF Move

-----------------------------------------------------------------------------
(* The emitted tasks.                                                      *)

LEMMA EmittedType ==
  ASSUME Types
  PROVE  /\ Len(emitted) \in Nat /\ DOMAIN emitted = 1..Len(emitted)
         /\ Asked \in Seq(Nat) /\ Len(Asked) \in Nat
         /\ attempt \in Nat
  <1>1. answer \in Seq(STRING) /\ emitted \in Seq(Attempt \X Nat \X Nat) /\ attempt \in Attempt
    BY DEF Types
  <1> QED BY <1>1, PositionsType, NextAttempt DEF Asked

(* All that was emitted is of this attempt or of an earlier one.           *)
LEMMA NoneLater ==
  ASSUME AgentInv, phase # "queued"
  PROVE  \A i \in DOMAIN emitted : emitted[i][1] \in Nat /\ emitted[i][1] <= attempt
  <1>1. PICK n \in 0..Len(emitted) : Split(n)
    BY DEF AgentInv, Emission
  <1> TAKE i \in DOMAIN emitted
  <1>2. i \in 1..Len(emitted) /\ n \in Nat /\ n <= Len(emitted) /\ attempt \in Nat
        /\ Len(emitted) \in Nat
    BY <1>1, EmittedType DEF AgentInv
  <1>3. emitted[i][1] \in Nat
    <2>1. emitted[i] \in Attempt \X Nat \X Nat
      BY DEF AgentInv, Types
    <2> QED BY <2>1, NextAttempt
  <1>4. CASE i <= n
    BY <1>1, <1>2, <1>3, <1>4 DEF Split
  <1>5. CASE i > n
    <2>1. i \in (n + 1)..Len(emitted)
      BY <1>2, <1>5
    <2>2. emitted[i] = <<attempt, step, Asked[i - n]>>
      BY <1>1, <2>1 DEF Split
    <2> QED BY <1>2, <2>2
  <1> QED BY <1>2, <1>4, <1>5

LEMMA InitEmission == ASSUME Init PROVE Emission
  BY DEF Init, Emission

(* A new attempt has emitted nothing yet, and asked for nothing.           *)
LEMMA BeginEmission ==
  ASSUME AgentInv, Types', Begin
  PROVE  Emission'
  <1>1. /\ phase = "queued" /\ phase' \in Waiting /\ answer' = <<>>
        /\ UNCHANGED <<attempt, emitted>>
    BY DEF Begin, Waiting
  <1>2. /\ Len(emitted) \in Nat /\ DOMAIN emitted = 1..Len(emitted)
        /\ \A i \in 1..Len(emitted) : emitted[i][1] < attempt
    BY <1>1, EmittedType DEF AgentInv, Emission
  <1>3. Asked' = <<>> /\ "garbled" \notin ToSet(answer')
    <2>1. <<>> \in Seq(STRING) /\ ToSet(<<>>) = {}
      BY DEF ToSet
    <2>2. Positions(<<>>, TaskCalls) = <<>>
      BY <2>1, PositionsType
    <2> QED BY <1>1, <2>1, <2>2 DEF Asked
  <1>4. PICK n \in Nat : n = Len(emitted)
    BY <1>2
  <1>5. Split(n)'
    BY <1>1, <1>2, <1>3, <1>4 DEF Split
  <1>6. Owed(n)'
    BY <1>1, <1>3, <1>4 DEF Owed, Waiting
  <1>7. phase' # "queued" /\ n \in 0..Len(emitted')
    BY <1>1, <1>2, <1>4 DEF Waiting
  <1> QED BY <1>5, <1>6, <1>7 DEF Emission

(* No task of the attempt was emitted when an answer arrives, so that all  *)
(* it asks for is still owed.                                              *)
LEMMA AnswerEmission ==
  ASSUME AgentInv, Types', NEW calls \in Answers, Answered(calls)
  PROVE  Emission'
  <1>1. /\ phase = "ask" /\ answer' = calls
        /\ UNCHANGED <<attempt, emitted>>
        /\ \/ phase' = "emit" /\ Parses(calls) /\ todo' = Positions(calls, TaskCalls)
           \/ phase' = "tool" /\ ToSet(calls) \cap TaskCalls = {}
           \/ phase' = "error"
           \/ phase' = "text" /\ calls = <<>>
    BY DEF Answered
  <1>2. calls \in Seq(STRING) /\ Asked' = Positions(calls, TaskCalls) /\ Asked' \in Seq(Nat)
    BY <1>1, AgentAssumption, PositionsType DEF Asked
  <1>3. PICK n \in 0..Len(emitted) : Split(n) /\ Owed(n)
    BY <1>1 DEF AgentInv, Emission
  <1>4. n = Len(emitted) /\ n \in Nat /\ attempt' = attempt
        /\ \A i \in 1..n : emitted[i][1] < attempt
    BY <1>1, <1>3, EmittedType DEF Split, Owed, Waiting, AgentInv
  <1>5. Split(n)'
    <2>1. Len(Asked') \in Nat /\ Len(emitted') = n
      BY <1>1, <1>2, <1>4
    <2>2. \A i \in (n + 1)..Len(emitted') : FALSE
      BY <1>4, <2>1
    <2> QED BY <1>1, <1>4, <2>1, <2>2 DEF Split
  <1>6. Owed(n)'
    <2>1. CASE phase' = "emit"
      <3>1. "garbled" \notin ToSet(answer') /\ todo' = Asked' /\ Len(emitted') - n = 0
        BY <1>1, <1>2, <1>4, <2>1 DEF Parses
      <3>2. Len(Asked') \in Nat /\ \A k \in 1..Len(Asked') : 0 + k = k
        BY <1>2
      <3> QED BY <2>1, <3>1, <3>2 DEF Owed, Waiting
    <2>2. CASE phase' \in {"tool", "text"}
      <3>1. ToSet(<<>>) = {}
        BY DEF ToSet
      <3>2. ToSet(calls) \cap TaskCalls = {}
        BY <1>1, <2>2, <3>1
      <3>3. Asked' = <<>>
        BY <1>2, <3>2, PositionsType
      <3> QED BY <1>1, <1>4, <2>2, <3>3 DEF Owed, Waiting
    <2>3. CASE phase' = "error"
      BY <2>3 DEF Owed, Waiting
    <2> QED BY <1>1, <2>1, <2>2, <2>3
  <1>7. phase' # "queued" /\ n \in 0..Len(emitted')
    BY <1>1, <1>4
  <1> QED BY <1>5, <1>6, <1>7 DEF Emission

(* An emitted task is the next that is owed.                               *)
LEMMA EmitEmission ==
  ASSUME AgentInv, Types', EmitTask
  PROVE  Emission'
  <1>1. phase = "emit" /\ todo # <<>> /\ UNCHANGED <<attempt, step, answer>>
    BY DEF EmitTask
  <1>2. PICK n \in 0..Len(emitted) : Split(n) /\ Owed(n)
    BY <1>1 DEF AgentInv, Emission
  <1>3. /\ n \in Nat /\ n <= Len(emitted) /\ Len(emitted) \in Nat
        /\ Asked \in Seq(Nat) /\ Len(Asked) \in Nat
        /\ todo \in Seq(Nat) /\ Len(todo) \in Nat \ {0} /\ Asked' = Asked
    BY <1>1, <1>2, EmittedType DEF AgentInv, Types, Asked
  <1>4. /\ "garbled" \notin ToSet(answer)
        /\ Len(emitted) - n + Len(todo) = Len(Asked)
        /\ \A k \in 1..Len(todo) : todo[k] = Asked[Len(emitted) - n + k]
    BY <1>1, <1>2 DEF Owed
  <1>5. CASE phase' = "error" /\ UNCHANGED <<emitted, todo>>
    <2>1. Split(n)' /\ Owed(n)'
      BY <1>1, <1>2, <1>3, <1>5 DEF Split, Owed, Waiting
    <2>2. n \in 0..Len(emitted')
      BY <1>5
    <2> QED BY <1>5, <2>1, <2>2 DEF Emission
  <1>6. CASE /\ emitted' = Append(emitted, <<attempt, step, Head(todo)>>)
             /\ todo' = Tail(todo) /\ UNCHANGED phase
    <2> DEFINE e == <<attempt, step, Head(todo)>>
    <2>1. /\ Len(emitted') = Len(emitted) + 1 /\ emitted'[Len(emitted) + 1] = e
          /\ \A i \in 1..Len(emitted) : emitted'[i] = emitted[i]
      BY <1>6 DEF AgentInv, Types
    <2>2. /\ Len(todo') = Len(todo) - 1 /\ Head(todo) = todo[1] /\ 1 \in 1..Len(todo)
          /\ \A k \in 1..Len(todo') : k + 1 \in 1..Len(todo) /\ todo'[k] = todo[k + 1]
      BY <1>3, <1>6
    <2>3. e = <<attempt, step, Asked[Len(emitted) + 1 - n]>>
      <3>1. Len(emitted) - n + 1 = Len(emitted) + 1 - n
        BY <1>3
      <3> QED BY <1>4, <2>2, <3>1
    <2>4. \A i \in (n + 1)..Len(emitted') : emitted'[i] = <<attempt, step, Asked[i - n]>>
      <3> TAKE i \in (n + 1)..Len(emitted')
      <3>1. CASE i = Len(emitted) + 1
        BY <2>1, <2>3, <3>1
      <3>2. CASE i # Len(emitted) + 1
        <4>1. i \in (n + 1)..Len(emitted) /\ i \in 1..Len(emitted)
          BY <1>3, <2>1, <3>2
        <4>2. emitted[i] = <<attempt, step, Asked[i - n]>>
          BY <1>2, <4>1 DEF Split
        <4> QED BY <2>1, <4>1, <4>2
      <3> QED BY <3>1, <3>2
    <2>5. \A i \in 1..n : emitted'[i][1] < attempt
      <3>1. \A i \in 1..n : i \in 1..Len(emitted)
        BY <1>3
      <3> QED BY <1>2, <2>1, <3>1 DEF Split
    <2>6. Len(emitted') - n + Len(todo') = Len(Asked) /\ Len(emitted') - n <= Len(Asked)
      <3>1. /\ Len(emitted') = Len(emitted) + 1 /\ Len(todo') = Len(todo) - 1
            /\ Len(emitted) - n + Len(todo) = Len(Asked)
        BY <1>4, <2>1, <2>2
      <3>2. Len(emitted) \in Nat /\ Len(todo) \in Nat \ {0} /\ n \in Nat /\ Len(Asked) \in Nat
        BY <1>3
      <3> QED BY <3>1, <3>2
    <2>7. \A k \in 1..Len(todo') : todo'[k] = Asked[Len(emitted') - n + k]
      <3>1. \A k \in 1..Len(todo') : Len(emitted) - n + (k + 1) = Len(emitted') - n + k
        <4>1. \A k \in 1..Len(todo') : k \in Nat
          OBVIOUS
        <4> QED BY <1>3, <2>1, <4>1
      <3> QED BY <1>4, <2>2, <3>1
    <2>8. Split(n)' /\ Owed(n)'
      BY <1>1, <1>3, <1>4, <1>6, <2>4, <2>5, <2>6, <2>7 DEF Split, Owed, Waiting
    <2>9. n \in 0..Len(emitted')
      BY <1>3, <2>1
    <2> QED BY <1>1, <1>6, <2>8, <2>9 DEF Emission
  <1> QED BY <1>5, <1>6 DEF EmitTask

(* Retry: what was emitted belongs to an earlier attempt from now on.      *)
LEMMA RetryEmission ==
  ASSUME AgentInv, Types', RetryStep
  PROVE  Emission'
  <1>1. phase # "queued" /\ UNCHANGED <<step, answer, todo, emitted>>
    BY DEF RetryStep, Retry
  <1>2. CASE phase' = "queued" /\ attempt' = attempt + 1
    <2>1. attempt \in Nat
      BY EmittedType DEF AgentInv
    <2>2. \A i \in DOMAIN emitted : emitted[i][1] < attempt + 1
      BY <1>1, <2>1, NoneLater
    <2> QED BY <1>1, <1>2, <2>2 DEF Emission
  <1>3. CASE phase' = "failed" /\ UNCHANGED attempt
    <2>1. PICK n \in 0..Len(emitted) : Split(n)
      BY <1>1 DEF AgentInv, Emission
    <2>2. Split(n)' /\ Owed(n)'
      BY <1>1, <1>3, <2>1 DEF Split, Owed, Asked, Waiting
    <2> QED BY <1>1, <1>3, <2>1, <2>2 DEF Emission
  <1> QED BY <1>2, <1>3 DEF RetryStep, Retry

(* A move that emits nothing owes no less than the one before it.          *)
LEMMA TurnEmission ==
  ASSUME AgentInv, Types', NEW q \in Phases, Turn(q)
  PROVE  Emission'
  <1>1. /\ phase' = q /\ phase # "queued" /\ q # "queued"
        /\ UNCHANGED <<attempt, step, answer, todo, emitted>>
    BY DEF Turn, Talk, Waiting
  <1>2. PICK n \in 0..Len(emitted) : Split(n) /\ Owed(n)
    BY <1>1 DEF AgentInv, Emission
  <1>3. Asked' = Asked /\ Len(<<>>) = 0 /\ Len(emitted) \in Nat /\ n \in Nat /\ Len(Asked) \in Nat
    BY <1>1, <1>2, EmittedType DEF Asked, AgentInv
  <1>4. Split(n)'
    BY <1>1, <1>2, <1>3 DEF Split
  <1>5. q \in Waiting \cup {"text", "tool", "exec"} =>
          phase \in Waiting \cup {"text", "tool", "exec"}
    BY DEF Turn, Waiting
  <1>6. q # "emit"
    BY DEF Turn, Waiting
  <1>7. q \in {"ended", "done"} => Len(emitted) - n = Len(Asked)
    BY <1>2, <1>3 DEF Turn, Owed, Waiting
  <1>8. Owed(n)'
    BY <1>1, <1>2, <1>3, <1>5, <1>6, <1>7 DEF Owed, Waiting
  <1> QED BY <1>1, <1>2, <1>4, <1>8 DEF Emission

LEMMA MoveEmission ==
  ASSUME AgentInv, Types', Move
  PROVE  Emission'
  <1>1. CASE ResultStep
    <2>1. /\ phase \in {"tool", "exec"} /\ phase' = "tool"
          /\ UNCHANGED <<attempt, step, answer, emitted>>
      BY <1>1 DEF ResultStep, Result
    <2>2. PICK n \in 0..Len(emitted) : Split(n) /\ Owed(n)
      BY <2>1 DEF AgentInv, Emission
    <2>3. Split(n)' /\ Owed(n)'
      BY <2>1, <2>2 DEF Split, Owed, Asked, Waiting
    <2> QED BY <2>1, <2>2, <2>3 DEF Emission
  <1>2. CASE UNCHANGED Conversation
    BY <1>2 DEF Conversation, AgentInv, Emission, Split, Owed, Asked, Waiting
  <1> QED BY <1>1, <1>2, BeginEmission, AnswerEmission, EmitEmission, RetryEmission,
             TurnEmission DEF Move

-----------------------------------------------------------------------------
(* Theorems.                                                               *)

LEMMA InvStep ==
  ASSUME AgentInv, [Next]_vars
  PROVE  AgentInv'
  <1>1. CASE Next
    <2>1. Move
      BY <1>1, StepIsMove DEF AgentInv
    <2>2. Types' /\ Awaits'
      BY <2>1, MoveTypes DEF AgentInv
    <2> QED BY <2>1, <2>2, MoveTalk, MoveEmission DEF AgentInv
  <1>2. CASE UNCHANGED vars
    <2>1. UNCHANGED Conversation
      BY <1>2 DEF vars, agent, Conversation
    <2>2. Move
      BY <2>1 DEF Move
    <2>3. Types' /\ Awaits'
      BY <2>2, MoveTypes DEF AgentInv
    <2> QED BY <2>2, <2>3, MoveTalk, MoveEmission DEF AgentInv
  <1> QED BY <1>1, <1>2

(* The loop of run_loop and step_builtins keeps its invariant, whatever    *)
(* the model answers and wherever process is dropped.                      *)
THEOREM Converses == Spec => []AgentInv
  <1>1. ASSUME Init PROVE AgentInv
    <2>1. Types /\ Emission
      BY <1>1, InitTypes, InitEmission
    <2> QED BY <1>1, <2>1 DEF AgentInv, Init, Awaits, Closed, Open, Waiting
  <1> QED BY <1>1, InvStep, PTL DEF Spec

(* For all answers, steps and attempts: the model is never asked again     *)
(* with one of its built-in calls unanswered, answered twice or out of     *)
(* order (step_builtins).                                                  *)
THEOREM AllAnswered == Spec => []AnswersComplete
  <1>1. ASSUME AgentInv PROVE AnswersComplete
    <2>1. SUFFICES ASSUME phase = "ask", NEW i \in DOMAIN messages, messages[i].role = "assistant"
          PROVE  /\ Behind(i)
                 /\ i + Len(messages[i].calls) < Len(messages) =>
                      messages[i + Len(messages[i].calls) + 1].role = "assistant"
      BY DEF AnswersComplete, Behind
    <2>2. /\ Behind(i)
          /\ i + Len(messages[i].calls) + 1 <= Len(messages) =>
               messages[i + Len(messages[i].calls) + 1].role = "assistant"
      BY <1>1, <2>1 DEF AgentInv, Closed, Waiting
    <2>3. i \in Nat /\ Len(messages) \in Nat /\ Len(messages[i].calls) \in Nat
      BY <1>1, CallsType DEF AgentInv
    <2> QED BY <2>2, <2>3
  <1> QED BY <1>1, Converses, PTL

(* For all answers, steps and attempts: an attempt emits the tasks of its  *)
(* last answer alone, in order, all of them if it succeeds and none if one *)
(* cannot be parsed (run_loop).                                            *)
THEOREM OneAnswerEmitted == Spec => []EmitsOneAnswer
  <1>1. ASSUME AgentInv PROVE EmitsOneAnswer
    <2>1. SUFFICES ASSUME phase # "queued"
          PROVE \E n \in 0..Len(emitted) :
                  Split(n) /\ (phase = "done" => Len(emitted) - n = Len(Asked))
      BY DEF EmitsOneAnswer, Split, Asked
    <2>2. \E n \in 0..Len(emitted) : Split(n) /\ Owed(n)
      BY <1>1, <2>1 DEF AgentInv, Emission
    <2> QED BY <2>2 DEF Owed
  <1> QED BY <1>1, Converses, PTL
=============================================================================
