SPECIFICATION FairSpec
CONSTANTS
  top = top
  left = left
  right = right
  f = f
  g = g
  Dirs <- MCDirs
  Files <- MCFiles
  SubDirs <- MCSubDirs
  FilesIn <- MCFilesIn
  RootLists <- MCRootLists
  Workers = {w1, w2, w3}
  MaxRoots = 2
  MaxDirectories = 3
  MaxFiles = 2
  MaxFaults = 1
  MayCancel = TRUE
INVARIANTS
  SleepersHaveAWaker
  SuccessIsComplete
  ErrorsAreDeserved
PROPERTIES
  ScanEnds
  KeepsThePromise
CHECK_DEADLOCK FALSE
