------------------------------- MODULE MCTunnel -------------------------------
(* A small tunnel for TLC. *)
EXTENDS TunnelProperties, TLC

CONSTANTS a1, a2

TwoAgents == {a1, a2}

\* The sockets of one end, or of none, may have been inherited.
OnlyA == {"A"}

=============================================================================
