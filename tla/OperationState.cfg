SPECIFICATION FairSpec
CONSTANTS
  Folders = {f1, f2}
  NoFolder = NoFolder
  MaxGeneration = 7
  MaxRevision = 3
INVARIANTS
  PhaseMatchesOperation
  OrphansAreCancelled
  EffectsOutliveWindow
  OneWorkerForTheScreen
PROPERTIES
  CancelledScansNeverPublish
  ImplementsForeground
CHECK_DEADLOCK TRUE
