-------------------------------- MODULE MCChild --------------------------------
(* Small instances of a data-transfer child for TLC. *)
EXTENDS ChildProperties, TLC

CONSTANTS a1, a2, a3

TwoAgents   == {a1, a2}
ThreeAgents == {a1, a2, a3}

NoEvents     == {}
HostMayClose == {"host close"}
PeerMayClose == {"peer close"}
BothMayClose == {"host close", "peer close"}
AllEvents    == {"host close", "peer close", "peer exit", "agent reset", "host reset"}

\* The connections are interchangeable: every loop over them treats all alike.
Symmetry == Permutations(Agents)

=============================================================================
