SPECIFICATION Spec
CONSTANTS
  n1 = n1
  n2 = n2
  Net = {n1}
  IPNet = {1, 2, 3, 4, 5}
  Goals <- MCUnsortedGoals
  ReadWriteProc = FALSE
  None = None
  MaxFaults = 0
INVARIANTS
  ReportsWhatItGot
