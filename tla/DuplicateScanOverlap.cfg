SPECIFICATION Spec
CONSTANTS
  r1 = r1
  r2 = r2
  r3 = r3
  Records <- MCRecords
  FileOf <- SameFile
  Contents <- MCContents
  Layouts <- OneLayout
  Workers = {w1, w2}
  MaxFiles = 3
  MaxWrites = 0
  MaxFaults = 0
  MayCancel = FALSE
INVARIANT GroupsHoldDistinctFiles
CHECK_DEADLOCK FALSE
