SPECIFICATION Spec
CONSTANTS
  Hosts <- MCHosts
  Everies = {1, 3}
  Minute = 2
  Hour = 2
  Day = 2
  Window = 1
  Grace = 1
  Lines = {l1}
  l1 = l1
  MaxNow = 4
  MaxVerbs = 2
  MaxTouches = 1
INVARIANTS
  TypeOK
  CheckTellsTheClock
  InstalledIsCurrent
  GoneIsGone
PROPERTIES
  ForeignThingsSurvive
CHECK_DEADLOCK FALSE
