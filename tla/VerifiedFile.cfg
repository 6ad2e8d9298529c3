\* One verification of a record while other programs change the disk.
CONSTANTS
  a = a
  b = b
  c = c
  Stranger = Stranger
  Nothing = Nothing
  Group <- MCGroup
  Purposes <- MCPurposes
  Selections <- MCSelections
  Adapters <- MCAdapters
  MaxChanges = 2
  MaxFaults = 1
SPECIFICATION Spec
CHECK_DEADLOCK FALSE
INVARIANTS
  ReadsAreOfTheRecord
  KeeperOutlivesTheFile
  RecycledIsTheRecord
