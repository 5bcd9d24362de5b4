------------------------------- MODULE Latch -------------------------------
(***************************************************************************)
(* The latch under Shutdown, Cancel and Cancellation: a flag and a tokio   *)
(* Notify.  A step is one access to either; the threads that set the flag  *)
(* and the tasks that wait for it run side by side.                        *)
(***************************************************************************)
EXTENDS Naturals

CONSTANTS Setter, Waiter   \* threads that call set; tasks that call wait

VARIABLES
  flag,     \* Inner::set
  calls,    \* notify: how often notify_waiters was called, ...
  listed,   \* ... and the waiters in its list
  setter,   \* each setter: "out" or "notify", behind the swap
  waiter,   \* where each wait stands: see InWait; "out" before it and after a drop, "told" when it returned
  seen      \* calls when its Notified was created

notify    == <<calls, listed>>
latchState == <<flag, notify, setter, waiter, seen>>

InWait == {"check", "create", "enable", "recheck", "await"}

LatchInit ==
  /\ flag = FALSE /\ calls = 0 /\ listed = {}
  /\ setter = [s \in Setter |-> "out"]
  /\ waiter = [w \in Waiter |-> "out"] /\ seen = [w \in Waiter |-> 0]

-----------------------------------------------------------------------------
(* Latch::set: the swap, then notify_waiters if the flag was not set.      *)
Swap(s) ==
  /\ setter[s] = "out" /\ flag' = TRUE
  /\ setter' = [setter EXCEPT ![s] = IF flag THEN "out" ELSE "notify"]
  /\ UNCHANGED <<notify, waiter, seen>>

Notify(s) ==
  /\ setter[s] = "notify" /\ setter' = [setter EXCEPT ![s] = "out"]
  /\ calls' = calls + 1 /\ listed' = {}
  /\ UNCHANGED <<flag, waiter, seen>>

-----------------------------------------------------------------------------
(* Latch::wait, called as often as one likes.                              *)
At(w, from, to) == waiter[w] = from /\ waiter' = [waiter EXCEPT ![w] = to]

Call(w) ==
  /\ At(w, "out", "check") \/ At(w, "told", "check")
  /\ UNCHANGED <<flag, notify, setter, seen>>

FirstLook(w) ==
  /\ At(w, "check", IF flag THEN "told" ELSE "create")
  /\ UNCHANGED <<flag, notify, setter, seen>>

Notified(w) ==
  /\ At(w, "create", "enable") /\ seen' = [seen EXCEPT ![w] = calls]
  /\ UNCHANGED <<flag, notify, setter>>

(* enable lists the waiter, unless notify_waiters was called meanwhile.    *)
Enable(w) ==
  /\ At(w, "enable", "recheck")
  /\ listed' = IF calls = seen[w] THEN listed \cup {w} ELSE listed
  /\ UNCHANGED <<flag, calls, setter, seen>>

(* Whoever finds it set leaves its Notified, and the list, behind.         *)
SecondLook(w) ==
  /\ At(w, "recheck", IF flag THEN "told" ELSE "await")
  /\ listed' = IF flag THEN listed \ {w} ELSE listed
  /\ UNCHANGED <<flag, calls, setter, seen>>

Woken(w) ==
  /\ w \notin listed /\ At(w, "await", "told")
  /\ UNCHANGED <<flag, notify, setter, seen>>

(* The select! that polls it goes another way.                             *)
Dropped(w) ==
  /\ At(w, "await", "out") /\ listed' = listed \ {w}
  /\ UNCHANGED <<flag, calls, setter, seen>>

Wait(w) == FirstLook(w) \/ Notified(w) \/ Enable(w) \/ SecondLook(w) \/ Woken(w)

LatchNext ==
  \/ \E s \in Setter : Swap(s) \/ Notify(s)
  \/ \E w \in Waiter : Call(w) \/ Wait(w) \/ Dropped(w)

LatchSpec == LatchInit /\ [][LatchNext]_latchState

(* Threads that are inside set or wait go on; nobody has to call either.   *)
LatchFairSpec ==
  /\ LatchSpec
  /\ \A s \in Setter : WF_latchState(Notify(s))
  /\ \A w \in Waiter : WF_latchState(Wait(w))

-----------------------------------------------------------------------------
(* Nobody sleeps over a set flag, unless the thread that set it has yet to *)
(* notify: however set and wait interleave, no wait is left behind         *)
(* (Latch::wait, which looks again behind enable).                         *)
NoLostWakeup ==
  \A w \in Waiter :
    flag /\ waiter[w] = "await" /\ w \in listed => \E s \in Setter : setter[s] = "notify"

(* The latch is the boolean others take it for: waits return only after it *)
(* was set, and it never resets (Latch, as Scheduler models it).           *)
Watch(w) == IF waiter[w] \in InWait THEN "waits" ELSE waiter[w]
Shot == INSTANCE OneShot WITH set <- flag, watch <- [w \in Waiter |-> Watch(w)]
KeepsLatch == Shot!ShotSpec

(* Whoever waits for a latch that is set stops waiting (Shutdown::         *)
(* triggered, Cancel::cancelled).                                          *)
WaitsEnd == \A w \in Waiter : flag /\ waiter[w] \in InWait ~> waiter[w] \notin InWait
=============================================================================
