SPECIFICATION Spec
CONSTANTS
  Day = 3
  Tolerance = 0
  JobCount = 1
  LastDay = 2
  MaxNow = 7
  MinRows = 1
  RecentDays = 2
  TickDays = 1
  Scenarios <- Standing
INVARIANTS
  WindowsAreLostOnce
  OneWakePerWindow
  YoungRecordIsNoPass
PROPERTIES
  PlanIsKept
  OpenWakesAreKept
CHECK_DEADLOCK FALSE
