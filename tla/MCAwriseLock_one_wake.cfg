SPECIFICATION Spec
CONSTANTS
  Procs = {p1, p2, p3, p4}
  p1 = p1
  p2 = p2
  p3 = p3
  p4 = p4
  Detach = FALSE
  Overruns = FALSE
  Posix = TRUE
  Path = Path
  NoDir = NoDir
  NoHolder = NoHolder
SYMMETRY Symmetry
INVARIANTS
  OneWake
CHECK_DEADLOCK FALSE
