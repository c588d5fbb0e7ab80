SPECIFICATION SpecHub
CONSTANTS
  n1 = n1
  a = a
  b = b
  c = c
  v4 = v4
  v6 = v6
  NetworkName = {n1}
  DeviceName = {a, b, c}
  Attribute = {"PublicKey", "Addresses"}
  Value <- MCValue
  NoKey = NoKey
  Token = {a, b, c}
  Identities <- MCIdentities
  Configs <- MCThreeDevices
  NoReport = NoReport
  MaxMarks = 1
  Client <- MCClient
  TokenOf <- MCTokenOf
  CanForward <- AandB
  KeyFile = {}
  DeviceOrder <- MCDeviceOrder
  IPv4 = {v4}
  IPv6 = {v6}
  MaxKeys = 2
  NotApplied = NotApplied
  Faults = {}
  MaxFaults = 0
INVARIANTS
  LatestHasApplied
  KeyBeforeForwarding
  Delivers
