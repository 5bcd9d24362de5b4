\* Batches of two from three rows, folded in any order; two faults.
SPECIFICATION Spec
CONSTANTS
  r1 = r1  r2 = r2  r3 = r3
  Key <- MCKey
  Row <- MCRow
  None = None
  HashOf <- MCHashOf
  Group <- OneGroup
  BatchSize = 2
  Filtered = {}
  RouterShard = {1}
  Permits = 2
  MaxFaults = 2
INVARIANTS
  NewestLive
  LivePresent
  RowsKept
  FinalOnly
SYMMETRY Symmetry
