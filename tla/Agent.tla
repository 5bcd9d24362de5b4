-------------------------------- MODULE Agent --------------------------------
(***************************************************************************)
(* One task whose worker is an Agent: every attempt spawns its sandbox,    *)
(* asks the model for at most MaxSteps answers, runs the built-in tools    *)
(* that an answer calls and ends with the answer that emits tasks.  The    *)
(* engine may drop process wherever it waits (timeout, cancellation) and   *)
(* retries what failed.  The model and its answers are external.           *)
(***************************************************************************)
EXTENDS Sandbox, Sequences, SequencesExt

CONSTANTS
  Answers,    \* the sequences of tool calls a model may answer with
  MaxSteps,
  MaxFaults   \* errors, timeouts and refusals of daemon, model, queue and on_text

ASSUME AgentAssumption ==
  /\ IsFiniteSet(Attempt) /\ Attempt # {} /\ Attempt = 1..Cardinality(Attempt)
  /\ MaxSteps \in Nat \ {0} /\ MaxFaults \in Nat
  /\ Answers \subseteq Seq(STRING)

(* Calls: a task the policy allows, with arguments that fit it, that do    *)
(* not ("misfit") or that are no JSON ("garbled"); a built-in tool (a      *)
(* command, a file, one with unusable arguments); any other name.          *)
TaskCalls == {"task", "misfit", "garbled"}
Builtins == {"run", "file", "unusable"}

VARIABLES
  phase,     \* where process waits; "queued" before it, an outcome after it
  attempt,
  step,      \* answers the attempt has used
  messages,  \* its conversation
  answer,    \* the calls of the last answer
  todo,      \* positions of those still to be carried out
  emitted,   \* <<attempt, step, position>> of every task emitted, in order
  faults

agent == <<phase, attempt, step, messages, answer, todo, emitted, faults>>
vars == <<sandbox, agent>>

LastAttempt == CHOOSE n \in Attempt : \A m \in Attempt : m <= n
Over == {"done", "failed", "cancelled"}
Returned == {"error", "fatal", "ended"}  \* run_loop is over
Fault == faults < MaxFaults /\ faults' = faults + 1

(* The positions of the calls that bear one of the names, in order.        *)
Positions(calls, names) ==
  LET at == {i \in DOMAIN calls : calls[i] \in names}
  IN CHOOSE p \in [1..Cardinality(at) -> at] : \A i, j \in DOMAIN p : i < j => p[i] < p[j]

Init ==
  /\ SandboxInit
  /\ phase = "queued" /\ attempt = 1 /\ step = 0
  /\ messages = <<>> /\ answer = <<>> /\ todo = <<>> /\ emitted = <<>> /\ faults = 0

Talk(p) == phase' = p /\ UNCHANGED <<attempt, step, messages, answer, todo, emitted>>

(* The attempt has failed: once more, or the end.                          *)
Retry ==
  /\ IF attempt < LastAttempt
     THEN phase' = "queued" /\ attempt' = attempt + 1
     ELSE phase' = "failed" /\ UNCHANGED attempt
  /\ UNCHANGED <<step, messages, answer, todo, emitted>>

-----------------------------------------------------------------------------
(* process: spawn, loop, teardown.                                         *)

Begin ==
  /\ phase = "queued"
  /\ phase' = CASE backend = "container" -> "create"
                [] backend = "local" -> "prepare"
                [] OTHER -> "ask"
  /\ messages' = <<[role |-> "user", calls |-> <<>>]>> /\ step' = 0
  /\ answer' = <<>> /\ todo' = <<>>
  /\ UNCHANGED <<attempt, emitted, faults, sandbox>>

SpawnSandbox ==
  /\ UNCHANGED faults
  /\ \/ phase = "create" /\ RequestCreate(attempt) /\ Talk("create")
     \/ phase = "create" /\ RequestStart(attempt) /\ Talk("start")
     \/ phase = "start" /\ Own(attempt) /\ Talk("prepare")
     \/ phase = "prepare" /\ Talk("ask") /\ UNCHANGED sandbox

(* `?` in spawn: what is owned is dropped.                                 *)
SpawnFails ==
  /\ phase \in {"create", "start", "prepare"} /\ Fault
  /\ IF phase = "prepare" THEN Drop(attempt) ELSE UNCHANGED sandbox
  /\ Retry

(* Fault: task calls are parsed one at a time, as they are emitted.        *)
ParsesLazily(calls) == TRUE
(* The arguments of all task calls are parsed before the first is emitted. *)
Parses(calls) == "garbled" \notin ToSet(calls)

(* run_loop: what an answer leads to.  Only its task calls count if it has *)
(* any; only its built-in calls are remembered and carried out otherwise;  *)
(* an answer with neither is an error if it calls something else, and the  *)
(* end if it does not.                                                     *)
Answered(calls) ==
  /\ phase = "ask" /\ step < MaxSteps
  /\ step' = step + 1 /\ answer' = calls
  /\ LET has(names) == ToSet(calls) \cap names # {}
     IN \/ /\ has(TaskCalls) /\ Parses(calls)
           /\ phase' = "emit" /\ todo' = Positions(calls, TaskCalls) /\ UNCHANGED messages
        \/ /\ ~has(TaskCalls) /\ has(Builtins) /\ backend # "none"
           /\ phase' = "tool" /\ todo' = Positions(calls, Builtins)
           /\ messages' = Append(messages, [role |-> "assistant", calls |-> Positions(calls, Builtins)])
        \/ /\ IF has(TaskCalls) THEN ~Parses(calls)
              ELSE (has(Builtins) => backend = "none") /\ calls # <<>>
           /\ phase' = "error" /\ todo' = <<>> /\ UNCHANGED messages
        \/ calls = <<>> /\ phase' = "text" /\ todo' = <<>> /\ UNCHANGED messages
  /\ UNCHANGED <<attempt, emitted, faults, sandbox>>

(* The request fails: marked fatal, or worth a retry.                      *)
AskFails == /\ phase = "ask" /\ step < MaxSteps /\ Fault /\ UNCHANGED sandbox
            /\ Talk("error") \/ Talk("fatal")
NoAnswer == phase = "ask" /\ step < MaxSteps /\ Talk("ended") /\ UNCHANGED <<sandbox, faults>>
OutOfSteps == phase = "ask" /\ step = MaxSteps /\ Talk("error") /\ UNCHANGED <<sandbox, faults>>

(* One emit; arguments that do not fit the task are an error, and so is a  *)
(* queue that is closed.                                                   *)
EmitTask ==
  /\ phase = "emit" /\ todo # <<>>
  /\ IF answer[Head(todo)] = "task"
     THEN /\ emitted' = Append(emitted, <<attempt, step, Head(todo)>>)
          /\ todo' = Tail(todo) /\ UNCHANGED phase
     ELSE phase' = "error" /\ UNCHANGED <<emitted, todo>>
  /\ UNCHANGED <<attempt, step, messages, answer, faults, sandbox>>
EmitStopped == phase = "emit" /\ todo # <<>> /\ Fault /\ Talk("error") /\ UNCHANGED sandbox

(* The text of the last answer goes to on_text, which may fail.            *)
EndAnswer == /\ phase \in {"emit", "text"} /\ todo = <<>>
             /\ Talk("ended") /\ UNCHANGED <<sandbox, faults>>
TextFails == /\ phase \in {"emit", "text"} /\ todo = <<>>
             /\ Fault /\ Talk("error") /\ UNCHANGED sandbox

(* Faults: the result of a call that cannot be carried out is left out.    *)
Skip ==
  /\ phase' = "tool" /\ todo' = Tail(todo)
  /\ UNCHANGED <<attempt, step, messages, answer, emitted>>

(* A failing tool ends the attempt; its result is otherwise answered.      *)
Unusable == Talk("error")
Result ==
  /\ messages' = Append(messages, [role |-> "tool", calls |-> <<Head(todo)>>])
  /\ phase' = "tool" /\ todo' = Tail(todo)
  /\ UNCHANGED <<attempt, step, answer, emitted>>

StepBuiltins ==
  /\ phase = "tool"
  /\ \/ todo = <<>> /\ Talk("ask") /\ UNCHANGED <<sandbox, faults>>
     \/ /\ todo # <<>> /\ answer[Head(todo)] = "unusable"
        /\ Unusable /\ UNCHANGED <<sandbox, faults>>
     \/ /\ todo # <<>> /\ answer[Head(todo)] = "file"
        /\ Result /\ UNCHANGED <<sandbox, faults>>
     \/ /\ todo # <<>> /\ answer[Head(todo)] = "run"
        /\ SpawnCommand /\ Talk("exec") /\ UNCHANGED faults
     \/ /\ todo # <<>> /\ answer[Head(todo)] \in {"file", "run"}
        /\ Fault /\ Talk("error") /\ UNCHANGED sandbox

(* What the command answers is its result, a time-out included; an error   *)
(* of the sandbox is not.                                                  *)
Exec ==
  /\ phase = "exec"
  /\ \/ Result /\ (CommandEnds \/ CommandTimesOut(attempt)) /\ UNCHANGED faults
     \/ Talk("error") /\ CommandFails(attempt) /\ Fault

Settle == CASE phase = "ended" -> Talk("done")
            [] phase = "fatal" -> Talk("failed")
            [] OTHER -> Retry

(* The error of teardown is ignored.                                       *)
TearDown ==
  /\ phase \in Returned /\ backend # "none"
  /\ \/ Teardown(attempt, TRUE) /\ UNCHANGED faults
     \/ backend = "container" /\ Fault /\ Teardown(attempt, FALSE)
  /\ Settle

Return == phase \in Returned /\ backend = "none" /\ Settle /\ UNCHANGED <<sandbox, faults>>

(* The engine drops process where it waits: a timeout, which is retried,   *)
(* or a cancellation, which is not.                                        *)
Dropped ==
  /\ phase \in {"create", "start", "prepare", "ask", "emit", "tool", "exec"} \cup Returned
  /\ phase = "emit" => todo # <<>>
  /\ phase \in Returned => backend = "container"
  /\ Fault
  /\ IF phase \in {"create", "start"} THEN UNCHANGED sandbox ELSE Drop(attempt)
  /\ Retry \/ Talk("cancelled")

-----------------------------------------------------------------------------
External == (ChildExits \/ HeirExits) /\ phase = "exec" /\ UNCHANGED agent
Serve == \E a \in Attempt : StartContainer(a) /\ UNCHANGED agent
Collect == \E a \in Attempt : Removal(a, TRUE) /\ UNCHANGED agent
Refuse == \E a \in Attempt : Removal(a, FALSE) /\ Fault /\ Talk(phase)
Leave == phase \in Over /\ EndRuntime /\ UNCHANGED agent

Ask == (\E calls \in Answers : Answered(calls)) \/ NoAnswer \/ OutOfSteps
Advance == \/ Begin \/ SpawnSandbox \/ Ask \/ EmitTask \/ EndAnswer \/ StepBuiltins \/ Exec
           \/ TearDown \/ Return
Disturb == SpawnFails \/ AskFails \/ EmitStopped \/ TextFails \/ Dropped \/ Refuse

Next == Advance \/ Disturb \/ External \/ Serve \/ Collect \/ Leave

Spec == Init /\ [][Next]_vars

(* The runtime polls what is ready, and the model and the daemon answer;   *)
(* nothing is asked of the commands.                                       *)
FairSpec == Spec /\ WF_vars(Advance) /\ WF_vars(Serve) /\ WF_vars(Collect)

-----------------------------------------------------------------------------
(* Every request carries a complete conversation: each built-in call the   *)
(* model made is answered exactly once, in order, before the model is      *)
(* asked again (step_builtins).                                            *)
AnswersComplete ==
  phase = "ask" =>
    \A i \in DOMAIN messages :
      messages[i].role = "assistant" =>
        LET calls == messages[i].calls
        IN /\ i + Len(calls) <= Len(messages)
           /\ \A k \in DOMAIN calls : messages[i + k] = [role |-> "tool", calls |-> <<calls[k]>>]
           /\ i + Len(calls) < Len(messages) => messages[i + Len(calls) + 1].role = "assistant"

(* The tasks an attempt emits are those of its last answer, in order: all  *)
(* of them if it succeeds, and none if one of them cannot be parsed, so    *)
(* that a retry does not repeat what an unreadable answer began            *)
(* (run_loop).                                                             *)
EmitsOneAnswer ==
  LET asked == Positions(answer, TaskCalls)
  IN phase # "queued" =>
       \E n \in 0..Len(emitted) :  \* what earlier attempts emitted
         /\ \A i \in 1..n : emitted[i][1] < attempt
         /\ Len(emitted) - n <= Len(asked)
         /\ \A i \in (n + 1)..Len(emitted) : emitted[i] = <<attempt, step, asked[i - n]>>
         /\ phase = "done" => Len(emitted) - n = Len(asked)
         /\ "garbled" \in ToSet(answer) => Len(emitted) = n

(* The task settles, whatever its commands do, since they have a time      *)
(* limit (Subprocess::run, max_steps).                                     *)
Settles == <>(phase \in Over)

(* A container that spawn came to own, and with it whatever its commands   *)
(* left running, outlives the attempt only if the daemon refused to remove *)
(* it or the runtime ended first (Drop and teardown of ContainerSandbox).  *)
ContainersGo ==
  <>[](\A a \in owned :
         (ctr[a] = "gone" /\ a \notin left) \/ a \in refused \/ ~runtime)
=============================================================================
