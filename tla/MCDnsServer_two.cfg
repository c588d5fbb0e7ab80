SPECIFICATION Spec
CONSTANTS
  a = a
  b = b
  n1 = n1
  n2 = n2
  q = q
  Piece = {a, b, n1, n2, q}
  Dot = Dot
  Network = {n1, n2}
  Device = {a, b}
  Address = {1, 2, 3}
  IsHost = {1, 2}
  ParentConfigs <- MCParentConfigs
  OwnDevice <- MCOwnDevice
  Views <- MCViews
  None = None
  NameLength = 5
  MaxFaults = 0
  MaxChanges = 0
CHECK_DEADLOCK FALSE
INVARIANTS
  ResolvesApplied
