SPECIFICATION FairSpec
CONSTANTS
  a1 = a1
  a2 = a2
  NoAgent = NoAgent
  Agents <- TwoAgents
  HdrUnits = 1
  PayUnits = 2
  WireCap = 2
  OutLowat = 1
  QueueSize = 1
  HostCap = 1
  ChunksA = 3
  Inheritable <- OnlyA
  ChunksB = 1
CHECK_DEADLOCK FALSE
INVARIANTS
  DoneMeansDelivered
  NoLateData
  BothKeepPolling
PROPERTIES
  ActsAsStreams
  Arrives
  BothEnd
