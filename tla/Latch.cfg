\* Setters and waiters that meet between any two accesses.
SPECIFICATION LatchFairSpec
CONSTANTS
  Setter = {s1, s2}
  Waiter = {w1, w2, w3}
INVARIANT
  NoLostWakeup
PROPERTIES
  KeepsLatch
  WaitsEnd
