SPECIFICATION Spec
CONSTANTS
  n1 = n1
  n2 = n2
  Net = {n1, n2}
  IPNet = {1, 2, 3, 4, 5}
  Goals <- MCTwoGoals
  ReadWriteProc = TRUE
  None = None
  MaxFaults = 2
INVARIANTS
  TypeOK
  AppliedIsGoal
  ForwardAgreed
PROPERTIES
  RerunReaches
CHECK_DEADLOCK FALSE
