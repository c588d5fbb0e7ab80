SPECIFICATION FairSpec
CONSTANTS
  n1 = n1
  a = a
  b = b
  NetworkName = {n1}
  DeviceName = {a, b}
  Attribute = {"PublicKey"}
  Value = {0, 1}
  NoKey = 0
  Token = {a, b}
  Identities <- MCIdentities
  Configs <- MCConfigs
  NoReport = NoReport
  MaxMarks = 1
  Slot = {1, 2, 3}
  Nobody = Nobody
  Requests <- MCRequests
  PatchBody <- MCPatchBody
  PostBody <- MCPostBody
  None = None
INVARIANTS
  TypeOK
  AnswerIsRight
  ListedIsCurrent
PROPERTIES
  Linearizes
  EveryRequestAnswered
