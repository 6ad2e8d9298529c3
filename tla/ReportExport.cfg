SPECIFICATION Spec
CONSTANTS
  TypedPaths <- MCTypedPaths
  GroupLists <- MCGroupLists
  MaxFaults = 2
  MaxForeign = 1
INVARIANTS
  DestinationIsWhole
  OutcomeIsHonest
  TotalsCountOnce
  ExitCodeIsHonest
PROPERTIES
  OnlyConsentedIsReplaced
CHECK_DEADLOCK FALSE
