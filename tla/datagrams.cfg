SPECIFICATION Spec
CONSTANTS
  n1 = n1
  n2 = n2
  t1 = t1
  t2 = t2
  Nodes <- TwoNodes
  Tunnels <- OneTunnel
  Src <- FromN1
  Dst <- ToN2
  Allowed = 1
  MaxGen = 4
  TIMEOUT = 1
  Deliveries <- Unreliable
  EnvEvents <- Anything
CHECK_DEADLOCK FALSE
INVARIANTS
  ForkedComplete
  ChildPerDatagram
