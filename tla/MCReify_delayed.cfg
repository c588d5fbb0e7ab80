SPECIFICATION Spec
CONSTANTS
  n1 = n1
  a = a
  b = b
  c = c
  v4 = v4
  v6 = v6
  NetworkName = {n1}
  DeviceName = {a, b}
  Attribute = {"PublicKey", "Addresses"}
  Value <- MCValue
  NoKey = NoKey
  Token = {a, b}
  Identities <- MCIdentities
  Configs <- MCTwoDevices
  NoReport = NoReport
  MaxMarks = 1
  Client <- MCClient
  TokenOf <- MCTokenOf
  CanForward <- OnlyA
  KeyFile = {}
  DeviceOrder <- MCDeviceOrder
  IPv4 = {v4}
  IPv6 = {v6}
  MaxKeys = 1
  NotApplied = NotApplied
  Faults = {"delayed", "reach"}
  MaxFaults = 2
INVARIANTS
  LatestHasApplied
