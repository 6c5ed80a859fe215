SPECIFICATION FairSpec
CONSTANTS
  Procs = {p1, p2}
  p1 = p1
  p2 = p2
  Detach = FALSE
  Overruns = TRUE
  Posix = TRUE
  Path = Path
  NoDir = NoDir
  NoHolder = NoHolder
PROPERTIES
  AcquireEnds
  LoneAcquireTakesStaleLock
CHECK_DEADLOCK FALSE
