SPECIFICATION FairSpec
CONSTANTS
  JobCount = 2
  Passes = 2
  Timeout = 2
  Limit = 1
  MaxAbove = 1
  WorkTimes = {0, 3}
  Door = {2}
  Unset = Unset
INVARIANTS
  MemoryCostsOneTimeout
  SeesItsOwnPast
  DrainedFactsAreRecalled
PROPERTIES
  InvocationEnds
CHECK_DEADLOCK FALSE
