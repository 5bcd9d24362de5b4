\* Workers that never return, a shutdown, and one more task than permits.
SPECIFICATION HungSpec
CONSTANTS
  t1 = t1  t2 = t2  t3 = t3  i1 = i1  i2 = i2  g = g  s1 = s1  s2 = s2  p = p  q = q
  Task <- MCTask2
  Seeds <- TwoSeeds
  Instance <- MCInstance
  Sem <- MCSem
  Global = g
  Slots <- MCSlots
  Permits <- OnePermit
  Capacity = 1
  MaxAttempts = 1
  Nobody = Nobody
  HasRouters = FALSE
  HasTimeout = FALSE
  Durable = FALSE
  CanShutdown = TRUE
  MayPanic = FALSE
PROPERTY ShutdownEndsRun
CHECK_DEADLOCK FALSE
