SPECIFICATION Spec
CONSTANTS
  n1 = n1
  n2 = n2
  t1 = t1
  t2 = t2
  Nodes <- TwoNodes
  Tunnels <- TwoTunnels
  Src <- Opposite
  Dst <- Back
  Allowed = 1
  MaxGen = 2
  TIMEOUT = 1
  Deliveries <- Reliable
  EnvEvents <- NoEvents
CHECK_DEADLOCK FALSE
INVARIANT NoMutualWait
