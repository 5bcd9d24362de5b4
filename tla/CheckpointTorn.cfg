\* A dataset holds the payloads and one fault comes between the two writes.
SPECIFICATION Spec
CONSTANTS
  k = k  l = l
  Key = {k, l}
  Row <- MCRow
  Sourced <- ResumeSourced
  Plain <- ResumePlain
  KeyFor <- ResumeKeys
  RowsOf <- ResumeRows
  CovBefore <- NothingBefore
  KeyOnly = FALSE
  Targeted = FALSE
  HasDataset = TRUE
  MaxFaults = 1
INVARIANT CoveredIsRecoverable
