SPECIFICATION Spec
CONSTANTS
  a1 = a1
  a2 = a2
  a3 = a3
  NoAgent = NoAgent
  Agents <- TwoAgents
  EnvEvents <- AllEvents
  HdrUnits = 2
  PayUnits = 2
  WireCap = 2
  OutLowat = 1
  MaxChunks = 1
  QueueSize = 1
  HostCap = 1
  MaxPackets = 2
CHECK_DEADLOCK FALSE
SYMMETRY Symmetry
INVARIANTS
  TypeOK
  PendingIsPolled
  SlotAccounting
  HeadOfLineReadable
  OneOwner
  NeverCornered
PROPERTIES
  InOrderDelivery
  OutboundStriping
