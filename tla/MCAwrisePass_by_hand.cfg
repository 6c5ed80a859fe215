SPECIFICATION Spec
CONSTANTS
  Procs = {due1, run1, rec1, rec2, op1}
  RunDue = {due1}
  Run = {run1}
  Reconciler = {rec1, rec2}
  Operator = {op1}
  due1 = due1
  due2 = due2
  due3 = due3
  run1 = run1
  op1 = op1
  rec1 = rec1
  rec2 = rec2
  JobCount = 1
  Interval = 2
  Tolerance = 0
  CardAfter = 1
  Settings <- MCByHand
  NoWake = NoWake
  NoJob = NoJob
  NoReceipt = NoReceipt
  NoProc = NoProc
SYMMETRY Symmetry
INVARIANTS
  StreakCountsWakes
PROPERTIES
  StampedWakeIsNotRefired
CHECK_DEADLOCK FALSE
