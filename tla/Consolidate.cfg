SPECIFICATION FairSpec
CONSTANTS
  a = a
  b = b
  c = c
  Group <- MCGroup
  Requests <- MCRequests
  Nothing = Nothing
  Alien = Alien
  Volumes <- MCVolumes
  MaxFaults = 2
  MaxForeign = 2
  MayCancel = TRUE
INVARIANTS
  KeeperIsPinned
PROPERTIES
  RemovalIsBacked
  ForeignFilesStay
  EveryItemIsAnswered
  ImplementsContract
CHECK_DEADLOCK FALSE
