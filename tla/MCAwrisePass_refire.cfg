SPECIFICATION FairSpec
CONSTANTS
  Procs = {due1, due2, op1}
  RunDue = {due1, due2}
  Run = {}
  Reconciler = {}
  Operator = {op1}
  due1 = due1
  due2 = due2
  due3 = due3
  run1 = run1
  op1 = op1
  rec1 = rec1
  rec2 = rec2
  JobCount = 2
  Interval = 2
  Tolerance = 0
  CardAfter = 1
  Settings <- MCRefire
  NoWake = NoWake
  NoJob = NoJob
  NoReceipt = NoReceipt
  NoProc = NoProc
SYMMETRY Symmetry
PROPERTIES
  NoRefireInWindow
CHECK_DEADLOCK FALSE
