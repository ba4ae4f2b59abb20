SPECIFICATION FairSpec
CONSTANTS
  n1 = n1
  n2 = n2
  t1 = t1
  t2 = t2
  Nodes <- TwoNodes
  Tunnels <- OneTunnel
  Src <- FromN1
  Dst <- ToN2
  Allowed = 2
  MaxGen = 1
  TIMEOUT = 1
  Deliveries <- Lossy
  EnvEvents <- Anything
CHECK_DEADLOCK FALSE
INVARIANTS
  ForkedComplete
  SameConnections
  ForkedLeavesNothing
PROPERTY Settles
