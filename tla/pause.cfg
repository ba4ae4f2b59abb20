SPECIFICATION Spec
CONSTANTS
  a1 = a1
  a2 = a2
  a3 = a3
  NoAgent = NoAgent
  Agents <- TwoAgents
  EnvEvents <- NoEvents
  HdrUnits = 1
  PayUnits = 2
  WireCap = 4
  OutLowat = 2
  MaxChunks = 6
  QueueSize = 1
  HostCap = 1
  MaxPackets = 0
CHECK_DEADLOCK FALSE
INVARIANT PausedHostHasWaker
