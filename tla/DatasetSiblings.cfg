\* A router that flushes two groups from one shard: both carry the coverage of
\* all three rows.
SPECIFICATION Spec
CONSTANTS
  r1 = r1  r2 = r2  r3 = r3
  Key <- MCKey
  Row <- MCRow
  None = None
  HashOf <- MCHashOf
  Group <- TwoGroups
  BatchSize = 3
  Filtered = {}
  RouterShard = {1}
  Permits = 2
  MaxFaults = 0
INVARIANT RowsKept
