SPECIFICATION Spec
CONSTANTS
  n1 = n1
  n2 = n2
  a = a
  b = b
  NetworkName = {n1, n2}
  DeviceName = {a, b}
  Attribute = {"PublicKey"}
  Value = {0, 1}
  NoKey = 0
  Token = {"ta", "tb"}
  Identities <- MCIdentities
  Configs <- MCConfigs
  NoReport = NoReport
  MaxMarks = 2
INVARIANTS
  TypeOK
  LatestIsCurrent
PROPERTIES
  TracksReports
