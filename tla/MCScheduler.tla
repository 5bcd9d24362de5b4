---------------------------- MODULE MCScheduler ----------------------------
(* Small instances of Scheduler for TLC.                                   *)
EXTENDS Scheduler, TLC

CONSTANTS t1, t2, t3, i1, i2, g, s1, s2, p, q

MCTask2  == {t1, t2}
MCTask3  == {t1, t2, t3}
OneSeed  == {t1}
TwoSeeds == {t1, t2}

(* One instance without pools.                                             *)
MCInstance == {i1}
MCSem      == {g, s1}
MCSlots    == i1 :> <<g, s1>>
OnePermit  == [s \in MCSem |-> 1]

TwoPermits == [s \in MCSem |-> 2]

(* Two instances that draw two pools in the same order.                    *)
PoolInstance == {i1, i2}
PoolSem      == {g, s1, s2, p, q}
PoolSlots    == (i1 :> <<g, s1, p, q>>) @@ (i2 :> <<g, s2, p, q>>)
PoolPermits  == [s \in PoolSem |-> IF s = g THEN 2 ELSE 1]
=============================================================================
