---------------------------- MODULE PollProperties ----------------------------
(***************************************************************************)
(* What the parents must do, over the state of PollLoop.                   *)
(***************************************************************************)
EXTENDS PollLoop

Client == [here : BOOLEAN, num : 0..(Allowed * MaxGen), host : {"OFF", "IN"},
           age : 0..(TIMEOUT + 1), joined : SUBSET Sockets]

\* Every parent is somewhere in poll_loop(), clients and sockets are in one of
\* their states, no end connects more often than MaxGen allows, and while its
\* parent lives num_parallel_connections of a CLIENT end stays within agent_sock[].
TypeOK ==
  /\ proc \in [Nodes -> {"sweep", "wait", "recv", "send", "dead", "undefined"}]
  /\ busy \in [Nodes -> Sockets \cup {<<>>}]
  /\ \A n \in Nodes : busy[n] # <<>> <=> proc[n] \in {"recv", "send"}
  /\ inbox \in [Ends -> Nat] /\ requests \in [Ends -> Nat]
  /\ client \in [Ends -> Client]
  /\ \A e \in Ends : e[2] = "CLIENT" /\ proc[NodeOf(e)] # "dead"
                       => client[e].num <= Allowed
  /\ gen \in [Ends -> 0..MaxGen]
  /\ sock \in [Sockets -> {"none", "syn", "up", "refused", "accepted", "closed"}]
  /\ uuids \in [Sockets -> 0..3]
  /\ reg \cup dangling \cup inherited \cup pool \subseteq Sockets
  /\ \A c \in children : c.end \in Ends /\ c.socks \subseteq Sockets

\* A child serves exactly allowed_connections sockets, each of them connected
\* and known to the other side by its uuid; a CLIENT end has sent the uuid
\* once, since a second one would be read as the header of a packet.
ForkedComplete ==
  \A c \in children :
    /\ Cardinality(c.socks) = Allowed
    /\ \A k \in c.socks :
         /\ sock[k] \in {"up", "accepted"}
         /\ IF c.end[2] = "CLIENT" THEN uuids[k] = 1
            ELSE sock[k] = "accepted" /\ uuids[k] > 0 /\ k \notin pool

\* Where no parent serves two ends and no datagram comes twice, the children at
\* the two ends of a tunnel serve the same connections: a packet put on a
\* connection the other child does not have is never read.
SameConnections ==
  \A c, d \in children : c.end[1] = d.end[1] => c.socks = d.socks

ChildrenOf(e) == {c \in children : c.end = e}

\* A request is served by one child: it leaves controller.requests with the
\* fork, so connections of the tunnel that come later find nothing, unless the
\* datagram came again; then there is one child for each time it came.
ChildPerDatagram ==
  \A e \in Ends : \E m \in Deliveries :
    Cardinality(ChildrenOf(e)) + requests[e] + inbox[e] <= m

\* Where datagrams are not duplicated, no end has two children.
ForkOnce ==
  \A c, d \in children : c.end = d.end => c = d

\* Where no parent serves two ends and no datagram comes twice, a parent that has
\* forked a child keeps no socket of that tunnel: each has had its event, which
\* would otherwise find the client freed.
ForkedLeavesNothing ==
  \A c \in children : \A k \in reg \cup dangling : k[1] # c.end

\* Parent n loops in get_uuid() on a socket whose opener will never send.
WaitsForever(n) ==
  proc[n] = "recv" /\ uuids[busy[n]] = 0 /\ busy[n] \notin reg

\* A client does not stay for ever: it is forked or given up, unless its parent
\* is lost (exit(1), memory of a freed client, a uuid that never comes).
Settles ==
  \A e \in Ends :
    client[e].here ~>
      \/ ~client[e].here
      \/ proc[NodeOf(e)] \in {"dead", "undefined"}
      \/ WaitsForever(NodeOf(e))

\* poll.c:156-160: a message of the controller connects the sockets "that where
\* waiting on this message", and so nobody connects twice.
OnlyWaitingConnect == \A e \in Ends : gen[e] <= 1

\* network.c:890: there is "some clean up for sockets that didn't connect", so
\* no socket with a connection in progress outlives the client it belongs to.
UnconnectedCleanedUp ==
  \A k \in dangling : client[k[1]].here \/ sock[k] # "syn"

\* network.c:529-531: an accepted agent socket waits in the event pool for its
\* uuid, so two parents that connect to each other do not wait for each other.
NoMutualWait ==
  \A m, n \in Nodes :
    ~ /\ proc[m] = "recv" /\ NodeOf(busy[m][1]) = n /\ uuids[busy[m]] = 0
      /\ proc[n] = "recv" /\ NodeOf(busy[n][1]) = m /\ uuids[busy[n]] = 0

=============================================================================
