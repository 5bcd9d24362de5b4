\* A worker that times out while parked in emit.
SPECIFICATION Spec
CONSTANTS
  t1 = t1  t2 = t2  t3 = t3  i1 = i1  i2 = i2  g = g  s1 = s1  s2 = s2  p = p  q = q
  Task <- MCTask3
  Seeds <- OneSeed
  Instance <- MCInstance
  Sem <- MCSem
  Global = g
  Slots <- MCSlots
  Permits <- OnePermit
  Capacity = 1
  MaxAttempts = 2
  Nobody = Nobody
  HasRouters = FALSE
  HasTimeout = TRUE
  Durable = FALSE
  CanShutdown = FALSE
  MayPanic = FALSE
INVARIANT InFlightCountsExisting
CHECK_DEADLOCK FALSE
