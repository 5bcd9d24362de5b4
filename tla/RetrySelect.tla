----------------------------- MODULE RetrySelect -----------------------------
(***************************************************************************)
(* The group of instances that serves one task type: as the engine builder *)
(* makes it from the registered workers, as dispatch chooses from it for   *)
(* every attempt of a task, and as an instance's retry policy, the hint of *)
(* an error and the emit policy decide what becomes of a failure.          *)
(***************************************************************************)
EXTENDS Naturals, Sequences, FiniteSets, SequencesExt, FiniteSetsExt

CONSTANTS
  Task,        \* the tasks that are followed; others of the type are only load
  Key,         \* attribute names
  Specs,       \* registered workers in order: attributes, concurrency and retry, or None
  Default,     \* the engine's retry policy: max attempts and default selection
  Concurrency, \* the engine's, for a worker without its own
  Emits,       \* task types that a worker may try to emit
  Allowed,     \* what the type's EmitPolicy declares, or None
  None

Select == ({"Any", "AvoidTried", "SameInstance"} \X {None})
            \cup ({"SameAttr", "DifferentAttr", "Where"} \X Key)
RetryPolicy == [max : Nat \ {0}, on : Select]

ASSUME SelectAssumption ==
  /\ Specs \in Seq([attrs : [Key -> {None} \cup STRING],
                    concurrency : Nat \cup {None},
                    retry : RetryPolicy \cup {None}])
  /\ Len(Specs) \in 1..64 /\ Concurrency \in Nat \ {0}
  /\ Default \in RetryPolicy /\ IsFiniteSet(Task)

(* EngineBuilder::build: a worker's id is its position.                    *)
Instance == DOMAIN Specs
Attr(i, k) == Specs[i].attrs[k]
Permits(i) == LET c == Specs[i].concurrency
              IN IF c = None THEN Concurrency ELSE Max({c, 1})
Policy(i) == IF Specs[i].retry = None THEN Default ELSE Specs[i].retry

(* What a worker's error carries: nothing, or a hint; the predicate of     *)
(* AnyWith is that an instance has an attribute.                           *)
Hint == ({"none", "SameInstance", "DifferentInstance", "Fatal"} \X {None})
          \cup ({"DifferentAttr", "AnyWith"} \X Key)
EmitNotAllowed == <<"EmitNotAllowed", None>>

ASSUME NoneAssumption == None \notin Select \cup Hint \cup {EmitNotAllowed} \cup Nat

Terminal(error) == error = <<"Fatal", None>> \/ error = EmitNotAllowed

VARIABLES
  at,       \* where the task is: "queued", "chosen", "running", "done", "failed"
  attempt,  \* Envelope: failed attempts so far
  tried,    \*   ids already tried
  last,     \*   the id it last ran on
  select,   \*   the constraint of the next dispatch, or None
  inst,     \* the chosen instance
  active,   \* tasks inside process, of each instance
  log,      \* the attempts of each task: their instance and the error they returned
  letters   \* dead letters, in order

envelope == <<attempt, tried, last, select>>
vars == <<at, envelope, inst, active, log, letters>>

Init ==
  /\ at = [t \in Task |-> "queued"] /\ attempt = [t \in Task |-> 0]
  /\ tried = [t \in Task |-> {}] /\ last = [t \in Task |-> None]
  /\ select = [t \in Task |-> None] /\ inst = [t \in Task |-> None]
  /\ active = [i \in Instance |-> 0]
  /\ log = [t \in Task |-> <<>>] /\ letters = <<>>

-----------------------------------------------------------------------------
(* Select::resets                                                          *)
Resets(s) == s[1] \in {"Any", "AvoidTried"}

(* Select::eligible                                                        *)
Eligible(i, s, mask, prev) ==
  \/ s[1] = "Any"
  \/ s[1] = "AvoidTried" /\ i \notin mask
  \/ s[1] = "SameInstance" /\ i = prev
  \/ s[1] = "SameAttr" /\ Attr(i, s[2]) = Attr(prev, s[2])
  \/ s[1] = "DifferentAttr" /\ Attr(i, s[2]) # Attr(prev, s[2])
  \/ s[1] = "Where" /\ Attr(i, s[2]) # None

(* Group::select: the least loaded, the first of those.                    *)
LeastLoaded(S) ==
  {i \in S : \A j \in S : active[i] < active[j] \/ (active[i] = active[j] /\ i <= j)}

Choice(t) ==
  LET s == IF select[t] = None THEN <<"AvoidTried", None>> ELSE select[t]
      some == {i \in Instance : Eligible(i, s, tried[t], last[t])}
  IN LeastLoaded(IF some = {} /\ Resets(s) THEN Instance ELSE some)

Letter(t) == letters' = Append(letters, t)

(* dispatch: an instance, or the end of the task.                          *)
Dispatch(t) ==
  /\ at[t] = "queued"
  /\ IF Choice(t) = {}
     THEN /\ at' = [at EXCEPT ![t] = "failed"] /\ Letter(t)
          /\ UNCHANGED inst
     ELSE /\ at' = [at EXCEPT ![t] = "chosen"] /\ UNCHANGED letters
          /\ \E i \in Choice(t) : inst' = [inst EXCEPT ![t] = i]
  /\ UNCHANGED <<envelope, active, log>>

(* It runs once the instance has a permit; only now it counts as load.     *)
Start(t) ==
  /\ at[t] = "chosen" /\ active[inst[t]] < Permits(inst[t])
  /\ at' = [at EXCEPT ![t] = "running"]
  /\ active' = [active EXCEPT ![inst[t]] = @ + 1]
  /\ UNCHANGED <<envelope, inst, log, letters>>

Ran(t, error) ==
  /\ at[t] = "running"
  /\ active' = [active EXCEPT ![inst[t]] = @ - 1]
  /\ log' = [log EXCEPT ![t] = Append(@, [inst |-> inst[t], error |-> error])]

Succeed(t) ==
  /\ Ran(t, None)
  /\ at' = [at EXCEPT ![t] = "done"]
  /\ UNCHANGED <<envelope, inst, letters>>

(* EmitPolicies::check refuses what is not declared; a type without a      *)
(* policy emits freely.                                                    *)
Refused(e) == Allowed # None /\ e \notin Allowed

(* RetryPolicy::decide.  Fault: one attempt too many.                      *)
ExhaustedLate(t, next) == next > Policy(inst[t]).max
Exhausted(t, next) == next >= Policy(inst[t]).max

Resolve(t, hint) ==
  CASE hint[1] = "DifferentInstance" -> <<"AvoidTried", None>>
    [] hint[1] = "AnyWith" -> <<"Where", hint[2]>>
    [] hint[1] = "none" -> Policy(inst[t]).on
    [] OTHER -> hint

(* Fault: the envelope remembers the last attempt only.                    *)
RetryForgets(t, hint) ==
  /\ attempt' = [attempt EXCEPT ![t] = @ + 1]
  /\ tried' = [tried EXCEPT ![t] = {inst[t]}]
  /\ last' = [last EXCEPT ![t] = inst[t]]
  /\ select' = [select EXCEPT ![t] = Resolve(t, hint)]
  /\ at' = [at EXCEPT ![t] = "queued"]

Retry(t, hint) ==
  /\ attempt' = [attempt EXCEPT ![t] = @ + 1]
  /\ tried' = [tried EXCEPT ![t] = @ \cup {inst[t]}]
  /\ last' = [last EXCEPT ![t] = inst[t]]
  /\ select' = [select EXCEPT ![t] = Resolve(t, hint)]
  /\ at' = [at EXCEPT ![t] = "queued"]

Fail(t, error) ==
  /\ Ran(t, error)
  /\ IF Terminal(error) \/ Exhausted(t, attempt[t] + 1)
     THEN at' = [at EXCEPT ![t] = "failed"] /\ Letter(t) /\ UNCHANGED envelope
     ELSE Retry(t, error) /\ UNCHANGED letters
  /\ UNCHANGED inst

(* A worker that emits a type its policy does not declare fails with it.   *)
EmitRefused(t) == \E e \in Emits : Refused(e) /\ Fail(t, EmitNotAllowed)

(* Other tasks of the type come and go.                                    *)
OtherStarts(i) ==
  /\ active[i] < Permits(i) /\ active' = [active EXCEPT ![i] = @ + 1]
  /\ UNCHANGED <<at, envelope, inst, log, letters>>
OtherEnds(i) ==
  /\ active[i] > Cardinality({t \in Task : at[t] = "running" /\ inst[t] = i})
  /\ active' = [active EXCEPT ![i] = @ - 1]
  /\ UNCHANGED <<at, envelope, inst, log, letters>>

Next == \/ \E i \in Instance : OtherStarts(i) \/ OtherEnds(i)
        \/ \E t \in Task : \/ Dispatch(t) \/ Start(t) \/ Succeed(t) \/ EmitRefused(t)
                           \/ \E h \in Hint : Fail(t, h)

Spec == Init /\ [][Next]_vars

-----------------------------------------------------------------------------
Ids(t, n) == {log[t][k].inst : k \in 1..n}

(* What an error asks of the attempt after the n-th, told from the history *)
(* of the attempts alone.                                                  *)
Untried(t, n) == LET rest == Instance \ Ids(t, n) IN IF rest = {} THEN Instance ELSE rest
Wanted(t, n) ==
  LET prev == log[t][n].inst
      error == log[t][n].error
      ask == IF error[1] = "none" THEN Policy(prev).on ELSE error
      value == Attr(prev, ask[2])
  IN CASE ask[1] = "Any" -> Instance
       [] ask[1] \in {"AvoidTried", "DifferentInstance"} -> Untried(t, n)
       [] ask[1] = "SameInstance" -> {prev}
       [] ask[1] = "SameAttr" -> {i \in Instance : Attr(i, ask[2]) = value}
       [] ask[1] = "DifferentAttr" -> {i \in Instance : Attr(i, ask[2]) # value}
       [] ask[1] \in {"Where", "AnyWith"} -> {i \in Instance : Attr(i, ask[2]) # None}

(* Every retry lands where the error that caused it asked for: a targeted  *)
(* constraint is never rerouted, and the default does not come back to an  *)
(* instance before all were tried, however the hints of the earlier        *)
(* attempts were mixed (Select, TriedMask, dispatch).                      *)
RetryLands ==
  \A t \in Task : \A n \in 2..Len(log[t]) : log[t][n].inst \in Wanted(t, n - 1)

(* A task is given up exactly when its last error is terminal, the policy  *)
(* of the instance that ran it is exhausted, or nothing can serve the      *)
(* retry; it then has one dead letter (RetryPolicy::decide, dispatch).     *)
GivenUp(t) ==
  LET n == Len(log[t])  end == log[t][n]
  IN \/ Terminal(end.error) \/ n >= Policy(end.inst).max
     \/ Wanted(t, n) = {}
FailsWhenDue ==
  \A t \in Task :
    /\ at[t] = "failed" <=> t \in ToSet(letters)
    /\ at[t] = "failed" => log[t] # <<>> /\ GivenUp(t)
    /\ \A n \in 1..(Len(log[t]) - 1) :
         log[t][n].error # None /\ n < Policy(log[t][n].inst).max
    /\ IsInjective(letters)
=============================================================================
