SPECIFICATION FairSpec
CONSTANTS
  r1 = r1
  r2 = r2
  r3 = r3
  Records <- MCRecords
  FileOf <- MCFileOf
  Contents <- MCContents
  Layouts <- MCLayouts
  Workers = {w1, w2}
  MaxFiles = 3
  MaxWrites = 1
  MaxFaults = 1
  MayCancel = TRUE
INVARIANTS
  GroupsAreExact
  SuccessIsComplete
PROPERTIES
  ScanEnds
CHECK_DEADLOCK FALSE
