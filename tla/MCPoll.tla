-------------------------------- MODULE MCPoll --------------------------------
(* Small instances of the parents for TLC. *)
EXTENDS PollProperties, TLC

CONSTANTS n1, n2, t1, t2

TwoNodes   == {n1, n2}
OneTunnel  == {t1}
TwoTunnels == {t1, t2}

\* t1 goes from n1 to n2, and t2 the other way (Opposite, Back) or
\* the same way.
FromN1   == [t \in Tunnels |-> n1]
ToN2     == [t \in Tunnels |-> n2]
Opposite == [t \in Tunnels |-> IF t = t1 THEN n1 ELSE n2]
Back     == [t \in Tunnels |-> IF t = t1 THEN n2 ELSE n1]

NoEvents  == {}
Anything  == {"refuse", "hurry"}

Reliable   == {1}
Lossy      == {0, 1}
Unreliable == {0, 1, 2}

\* Tunnels between the same nodes are interchangeable.
TunnelSymmetry == Permutations(Tunnels)

=============================================================================
