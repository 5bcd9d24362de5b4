------------------------------ MODULE OneShot ------------------------------
(***************************************************************************)
(* What a latch promises, and what Scheduler takes it for: one boolean     *)
(* that is set once and for all.  Whoever waits for it is told after it    *)
(* was set and never before, or stops waiting of its own accord.           *)
(***************************************************************************)
CONSTANT Waiter

VARIABLES
  set,    \* was it set?
  watch   \* each waiter: "out", "waits", "told"

shotVars == <<set, watch>>

ShotInit == set = FALSE /\ watch = [w \in Waiter |-> "out"]

Set == set' = TRUE /\ UNCHANGED watch

Turn(w, s) == watch' = [watch EXCEPT ![w] = s] /\ UNCHANGED set

Begin(w) == watch[w] # "waits" /\ Turn(w, "waits")
Tell(w)  == watch[w] = "waits" /\ set /\ Turn(w, "told")
Leave(w) == watch[w] = "waits" /\ Turn(w, "out")

ShotNext == Set \/ \E w \in Waiter : Begin(w) \/ Tell(w) \/ Leave(w)

ShotSpec == ShotInit /\ [][ShotNext]_shotVars
=============================================================================
