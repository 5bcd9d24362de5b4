\* Backpressure, retries and flush epochs without shutdown or timeouts: a queue
\* of one and two instances on two one-permit pools that both acquire in the
\* same order; deadlock is checked.
SPECIFICATION FairSpec
CONSTANTS
  t1 = t1  t2 = t2  t3 = t3  i1 = i1  i2 = i2  g = g  s1 = s1  s2 = s2  p = p  q = q
  Task <- MCTask3
  Seeds <- OneSeed
  Instance <- PoolInstance
  Sem <- PoolSem
  Global = g
  Slots <- PoolSlots
  Permits <- PoolPermits
  Capacity = 1
  MaxAttempts = 2
  Nobody = Nobody
  HasRouters = TRUE
  HasTimeout = FALSE
  Durable = FALSE
  CanShutdown = FALSE
  MayPanic = FALSE
PROPERTY Termination
