SPECIFICATION Spec
CONSTANTS
  a1 = a1
  a2 = a2
  a3 = a3
  NoAgent = NoAgent
  Agents <- TwoAgents
  EnvEvents <- HostMayClose
  HdrUnits = 1
  PayUnits = 2
  WireCap = 3
  OutLowat = 1
  MaxChunks = 0
  QueueSize = 1
  HostCap = 1
  MaxPackets = 2
CHECK_DEADLOCK FALSE
INVARIANT ClosedWithoutData
