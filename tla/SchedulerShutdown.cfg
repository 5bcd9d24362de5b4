\* A shutdown at any moment, with a grace period that may expire, against
\* workers that may never return.
SPECIFICATION HungSpec
CONSTANTS
  t1 = t1  t2 = t2  t3 = t3  i1 = i1  i2 = i2  g = g  s1 = s1  s2 = s2  p = p  q = q
  Task <- MCTask3
  Seeds <- OneSeed
  Instance <- MCInstance
  Sem <- MCSem
  Global = g
  Slots <- MCSlots
  Permits <- OnePermit
  Capacity = 1
  MaxAttempts = 2
  Nobody = Nobody
  HasRouters = TRUE
  HasTimeout = TRUE
  Durable = FALSE
  CanShutdown = TRUE
  MayPanic = FALSE
PROPERTY ShutdownReturns
CHECK_DEADLOCK FALSE
