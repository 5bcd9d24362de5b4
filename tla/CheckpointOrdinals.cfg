\* A plain seed's position equals an ordinal of the source's rows.
SPECIFICATION Spec
CONSTANTS
  k = k  l = l
  Key = {k, l}
  Row <- MCRow
  Sourced <- ResumeSourced
  Plain <- ResumePlain
  KeyFor <- ResumeKeys
  RowsOf <- SharedRows
  CovBefore <- NothingBefore
  KeyOnly = FALSE
  Targeted = FALSE
  HasDataset = FALSE
  MaxFaults = 1
INVARIANT CleanRunDone
