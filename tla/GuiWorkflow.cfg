SPECIFICATION FairSpec
CONSTANTS
  a = a
  b = b
  c = c
  Folders = {f1}
  NoFolder = NoFolder
  MaxGeneration = 5
  MaxRevision = 2
  Files <- MCFiles
  Outcomes <- MCOutcomes
  ModifiedAt <- MCModifiedAt
  PathRank <- MCPathRank
  Copy <- MCCopy
  PriorityFolders = {}
  Below <- MCBelow
  MaxProgress = 1
INVARIANTS
  PublishedBelongsToScreen
  RunningPlanIsOnScreen
  PlansLeaveAKeeper
PROPERTIES
  CloseCompletes
  WorkEndsInControls
  ImplementsOperationState
CHECK_DEADLOCK FALSE
