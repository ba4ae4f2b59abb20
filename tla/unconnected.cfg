SPECIFICATION Spec
CONSTANTS
  n1 = n1
  n2 = n2
  t1 = t1
  t2 = t2
  Nodes <- TwoNodes
  Tunnels <- OneTunnel
  Src <- FromN1
  Dst <- ToN2
  Allowed = 2
  MaxGen = 1
  TIMEOUT = 1
  Deliveries <- Reliable
  EnvEvents <- Anything
CHECK_DEADLOCK FALSE
INVARIANT UnconnectedCleanedUp
