\* Payloads in a dataset and three faults at most, then runs that nothing disturbs.
SPECIFICATION FairSpec
CONSTANTS
  k = k  l = l
  Key = {k, l}
  Row <- MCRow
  Sourced <- ResumeSourced
  Plain <- ResumePlain
  KeyFor <- ResumeKeys
  RowsOf <- ResumeRows
  CovBefore <- NothingBefore
  KeyOnly = FALSE
  Targeted = TRUE
  HasDataset = TRUE
  MaxFaults = 3
PROPERTIES
  ResumeCompletes
  ResumeSettles
