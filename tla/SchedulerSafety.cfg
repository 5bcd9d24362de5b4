\* Every control path of a run: shutdown, cancellation, timeouts, retries,
\* routers and checkpoints, one permit, a queue of one.  A lost envelope
\* leaves the run waiting for ever, so deadlock is not checked here.
SPECIFICATION Spec
CONSTANTS
  t1 = t1  t2 = t2  t3 = t3  i1 = i1  i2 = i2  g = g  s1 = s1  s2 = s2  p = p  q = q
  Task <- MCTask3
  Seeds <- OneSeed
  Instance <- MCInstance
  Sem <- MCSem
  Global = g
  Slots <- MCSlots
  Permits <- OnePermit
  Capacity = 1
  MaxAttempts = 2
  Nobody = Nobody
  HasRouters = TRUE
  HasTimeout = TRUE
  Durable = TRUE
  CanShutdown = TRUE
  MayPanic = TRUE
INVARIANTS
  TypeOK
  InFlightLedger
  PermitLedger
  WaitersHoldNothing
  QueueExact
  QuiescentReturn
  CleanExtents
  UnfinishedIsInterrupted
PROPERTY KeepsContract
CHECK_DEADLOCK FALSE
