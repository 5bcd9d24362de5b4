\* Items without a payload.  A retry demands an instance that does not exist: the task fails with its claim.
SPECIFICATION Spec
CONSTANTS
  k = k  l = l
  Key = {k, l}
  Row <- MCRow
  Sourced <- RaceSourced
  Plain <- RacePlain
  KeyFor <- RaceKeys
  RowsOf <- RaceRows
  CovBefore <- NothingBefore
  KeyOnly = TRUE
  Targeted = TRUE
  HasDataset = FALSE
  MaxFaults = 1
INVARIANT NoOrphanClaim
