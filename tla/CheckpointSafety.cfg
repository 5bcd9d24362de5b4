\* Two source rows with one key race, a plain seed has another; two faults of
\* any kind.
SPECIFICATION Spec
CONSTANTS
  k = k  l = l
  Key = {k, l}
  Row <- MCRow
  Sourced <- RaceSourced
  Plain <- RacePlain
  KeyFor <- RaceKeys
  RowsOf <- RaceRows
  CovBefore <- NothingBefore
  KeyOnly = FALSE
  Targeted = TRUE
  HasDataset = FALSE
  MaxFaults = 2
INVARIANTS
  TypeOK
  ClaimsAccounted
  TwoWorkRaced
  CoveredIsRecoverable
  CleanRunDone
PROPERTY StoreMonotone
