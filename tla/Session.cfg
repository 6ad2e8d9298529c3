\* Two processes over one preference file, with panics, faults and power loss.
CONSTANTS
  s1 = s1
  s2 = s2
  Sessions <- MCSessions
  OnScreen <- MCOnScreen
  Defaults = Defaults
  MaxFaults = 1
  Watched = {s1}
  MaxPanics = 2
SPECIFICATION FairSpec
CHECK_DEADLOCK FALSE
INVARIANTS
  PreferencesAreWhole
  PanicsLeaveReports
  LogTellsTheEnd
PROPERTY
  ReportsComplete
