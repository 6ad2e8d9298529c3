SPECIFICATION Spec
CONSTANTS
  a = a
  b = b
  c = c
  Group <- MCGroup
  Requests <- MCRequests
  Nothing = Nothing
  Alien = Alien
  Volumes <- MCVolumes
  MaxFaults = 0
  MaxForeign = 0
  MayCancel = FALSE
INVARIANT UndisturbedRequestsConsolidate
CHECK_DEADLOCK FALSE
