---------------------------- MODULE RunContract ----------------------------
(***************************************************************************)
(* What Engine::run promises, with the queue, the permits, the retries and *)
(* the dispatcher loop abstracted away: every task that comes to exist is  *)
(* settled at most once, with one of four outcomes; a task is left         *)
(* unfinished only after a shutdown was asked for; and the run returns     *)
(* only when no task is live, after which nothing happens any more.        *)
(* crates/bask-core/src/report.rs names the outcomes the report counts.    *)
(***************************************************************************)
CONSTANT Task

VARIABLES
  outcome,   \* what became of each task
  asked,     \* has a shutdown been requested?
  returned   \* has run() returned its report?

contractVars == <<outcome, asked, returned>>

(* The counters of a RunReport: stats.processed, stats.failed,             *)
(* stats.skipped and unfinished.                                           *)
Ended == {"processed", "failed", "skipped", "unfinished"}

Alive == {t \in Task : outcome[t] = "live"}

ContractInit ==
  /\ outcome \in [Task -> {"none", "live"}]
  /\ asked = FALSE
  /\ returned = FALSE

(* New tasks come from a live task (a worker emits) or, while nobody asked *)
(* for a shutdown, from a router that is flushed between two epochs.       *)
Spawn(S) ==
  /\ ~returned
  /\ S # {} /\ \A t \in S : outcome[t] = "none"
  /\ Alive # {} \/ ~asked
  /\ outcome' = [t \in Task |-> IF t \in S THEN "live" ELSE outcome[t]]
  /\ UNCHANGED <<asked, returned>>

Settle(t, o) ==
  /\ outcome[t] = "live"
  /\ o = "unfinished" => asked
  /\ outcome' = [outcome EXCEPT ![t] = o]
  /\ UNCHANGED <<asked, returned>>

Ask ==
  /\ asked' = TRUE
  /\ UNCHANGED <<outcome, returned>>

Return ==
  /\ ~returned /\ Alive = {}
  /\ returned' = TRUE
  /\ UNCHANGED <<outcome, asked>>

ContractNext ==
  \/ \E S \in SUBSET Task : Spawn(S)
  \/ \E t \in Task, o \in Ended : Settle(t, o)
  \/ Ask
  \/ Return

ContractSpec == ContractInit /\ [][ContractNext]_contractVars
=============================================================================
