SPECIFICATION Spec
CONSTANTS
  Procs = {p1, p2, p3}
  p1 = p1
  p2 = p2
  p3 = p3
  Detach = TRUE
  Overruns = FALSE
  Posix = TRUE
  Path = Path
  NoDir = NoDir
  NoHolder = NoHolder
SYMMETRY Symmetry
INVARIANTS
  OneWakeUnlessDisplaced
  DetachedChildIsAlone
  LockInv
PROPERTIES
  BreaksOnlyStale
CHECK_DEADLOCK FALSE
