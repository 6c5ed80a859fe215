SPECIFICATION FairSpec
CONSTANTS
  Procs = {due1, run1}
  RunDue = {due1}
  Run = {run1}
  Reconciler = {}
  Operator = {}
  due1 = due1
  due2 = due2
  due3 = due3
  run1 = run1
  op1 = op1
  rec1 = rec1
  rec2 = rec2
  JobCount = 1
  Interval = 2
  Tolerance = 0
  CardAfter = 1
  Settings <- MCLive
  NoWake = NoWake
  NoJob = NoJob
  NoReceipt = NoReceipt
  NoProc = NoProc
PROPERTIES
  InvocationsEnd
  DeadWakesAreClosed
CHECK_DEADLOCK FALSE
