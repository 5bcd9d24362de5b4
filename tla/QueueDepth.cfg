\* An emitter, a feeder and a retry share a queue of two.
SPECIFICATION FairSpec
CONSTANTS
  Producer = {"emitter", "feeder", "retry"}
  Detached = {"feeder", "retry"}
  Type = {"a", "b"}
  Batch <- MCBatch
  Cap = 2
  Width = 32
INVARIANTS
  DepthLedger
  QueuedLedger
  FinalSampleShort
PROPERTY DepthSettles
\* The run ends: the system stops.
CHECK_DEADLOCK FALSE
