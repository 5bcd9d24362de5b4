\* Files of up to five rows in chunks of two; one part, or parts of at least one or three rows.
SPECIFICATION Spec
CONSTANTS
  Layouts <- MCLayouts
  ChunkRows = 2
  Rotations = {0, 3, None}
  Attempts = 2
  Capacity = 2
  MaxFaults = 2
  None = None
INVARIANTS
  ChunksExact
  RemoveFinds
  PartsKeep
CHECK_DEADLOCK FALSE
