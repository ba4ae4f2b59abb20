SPECIFICATION FairSpec
CONSTANTS
  a1 = a1
  a2 = a2
  a3 = a3
  NoAgent = NoAgent
  Agents <- TwoAgents
  EnvEvents <- PeerMayClose
  HdrUnits = 2
  PayUnits = 2
  WireCap = 3
  OutLowat = 1
  MaxChunks = 0
  QueueSize = 2
  HostCap = 1
  MaxPackets = 4
INVARIANTS
  PausedIffFull
  HeadOfLineReadable
  BlockedPacketKept
  OneOwner
  NothingStranded
  NoInternalAbort
PROPERTIES
  InOrderDelivery
  EverythingDelivered
  EndsAfterPeer
