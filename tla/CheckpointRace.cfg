\* The claim after a materialization ignores that another arrival was faster: two workers run for one key.
SPECIFICATION Spec
CONSTANTS
  k = k  l = l
  Key = {k, l}
  Row <- MCRow
  Sourced <- RaceSourced
  Plain <- RacePlain
  KeyFor <- RaceKeys
  RowsOf <- RaceRows
  CovBefore <- NothingBefore
  KeyOnly = FALSE
  Targeted = FALSE
  HasDataset = FALSE
  MaxFaults = 0
INVARIANT MutualRun
