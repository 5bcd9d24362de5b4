\* An arrival reads the status of an item whose replay is about to finish.
SPECIFICATION Spec
CONSTANTS
  k = k  l = l
  Key = {k, l}
  Row <- MCRow
  Sourced <- RaceSourced
  Plain <- RacePlain
  KeyFor <- RaceKeys
  RowsOf <- RaceRows
  CovBefore <- StoredBefore
  KeyOnly = FALSE
  Targeted = FALSE
  HasDataset = FALSE
  MaxFaults = 0
PROPERTY NeverRunsAgain
