------------------------------- MODULE PollLoop -------------------------------
(***************************************************************************)
(* The parents: the agent processes that run poll_loop() and set tunnels   *)
(* up.  A tunnel has two ends.  At its CLIENT end a host is accepted and   *)
(* the parent connects allowed_connections sockets to the other agent; at  *)
(* its AGENT end these are accepted, recognised by the uuid they bring,    *)
(* and the parent connects to the host they are meant for.  Each end       *)
(* learns what to do from a datagram of the controller, before or after    *)
(* the sockets are there; a datagram may be lost or come twice.  A client  *)
(* that is complete has its accept_start wound back, so that the sweep at  *)
(* the head of the loop finds it expired and forks a child for it; one     *)
(* that expires otherwise is given up.                                     *)
(*                                                                         *)
(* A socket is <<end that opened it, index, generation>>: index 0 is the   *)
(* host socket, the others are agent_sock[].  The generation counts how    *)
(* often the end has connected, since connecting again overwrites the      *)
(* descriptors and leaves the old sockets open.                            *)
(*                                                                         *)
(* proc[n] is where the single thread of parent n is:                      *)
(*   "sweep"      at the head of the loop, looking for expired clients     *)
(*   "wait"       in epoll_wait()                                          *)
(*   "recv"       in the loop of get_uuid(), on socket busy[n]             *)
(*   "send"       in the loop of send_uuid(), on socket busy[n]            *)
(*   "dead"       left through exit(1)                                     *)
(*   "undefined"  has used memory of a client it had freed                 *)
(***************************************************************************)
EXTENDS Naturals, FiniteSets

CONSTANTS Nodes, Tunnels,
          Src, Dst,   \* the nodes at the two ends of each tunnel
          Allowed,    \* allowed_connections
          MaxGen,     \* bound: times an end connects
          Deliveries, \* how often the network may deliver a datagram
          TIMEOUT,    \* seconds after which a client expires
          EnvEvents   \* which of the optional environment events may happen

ASSUME TunnelAssumption ==
  /\ Src \in [Tunnels -> Nodes] /\ Dst \in [Tunnels -> Nodes]
  /\ \A t \in Tunnels : Src[t] # Dst[t]
ASSUME NumberAssumption ==
  /\ Allowed \in Nat \ {0} /\ MaxGen \in Nat \ {0} /\ TIMEOUT \in Nat
  /\ Deliveries \subseteq Nat

VARIABLES proc, busy,
          inbox,      \* how often the datagram for each end is still to arrive
          requests,   \* how often the request for each end is in controller.requests
          client,     \* the entry of clients_hashes for each end
          gen,        \* how often each end has connected
          sock,       \* the sockets, as the kernel has them
          reg,        \* those registered in the event_pool of their opener
          dangling,   \* those still registered for a client that was freed
          inherited,  \* those a forked child has a copy of
          pool,       \* agent_fd_pool: accepted, waiting for the uuid
          uuids,      \* how many uuids were sent on each socket
          children    \* the children forked, with the sockets they serve

netVars == <<sock, reg, dangling, inherited, pool, uuids>>
ctlVars == <<inbox, requests, gen, children>>
vars    == <<proc, busy, client, netVars, ctlVars>>

Ends == Tunnels \X {"CLIENT", "AGENT"}

NodeOf(e) == IF e[2] = "CLIENT" THEN Src[e[1]] ELSE Dst[e[1]]
EndsAt(n) == {e \in Ends : NodeOf(e) = n}

Sockets == Ends \X (0..Allowed) \X (0..MaxGen)

\* joined: the accepted sockets in agent_sock[] of an AGENT end.  num is
\* num_parallel_connections, age is the time since accept_start.
NoClient    == [here |-> FALSE, num |-> 0, host |-> "OFF", age |-> 0, joined |-> {}]
FreshClient == [NoClient EXCEPT !.here = TRUE]

Init ==
  /\ proc = [n \in Nodes |-> "sweep"] /\ busy = [n \in Nodes |-> <<>>]
  /\ inbox \in [Ends -> Deliveries] /\ requests = [e \in Ends |-> 0] /\ children = {}
  /\ client = [e \in Ends |-> NoClient] /\ gen = [e \in Ends |-> 0]
  /\ sock = [k \in Sockets |-> "none"] /\ uuids = [k \in Sockets |-> 0]
  /\ reg = {} /\ dangling = {} /\ inherited = {} /\ pool = {}

Becomes(n, p) == proc' = [proc EXCEPT ![n] = p] /\ busy' = [busy EXCEPT ![n] = <<>>]

Spins(n, p, k) == proc' = [proc EXCEPT ![n] = p] /\ busy' = [busy EXCEPT ![n] = k]

\* host_sock and agent_sock[0 .. num - 1] of an end.
HostSock(e)  == <<e, 0, IF e[2] = "CLIENT" THEN 0 ELSE gen[e]>>
AgentSock(e, i) == <<e, i, gen[e]>>
AgentSocks(e) == IF e[2] = "CLIENT" THEN {AgentSock(e, i) : i \in 1..client[e].num}
                 ELSE client[e].joined
DataSocks(e) == AgentSocks(e) \cup {HostSock(e)}

IsHost(k) == k[2] = 0

Requested(e) == requests[e] > 0

MutComplete(e, c) == Requested(e) /\ c.host = "IN"
   \* mutant: the number of connections is not looked at

\* Everything the request of end e asks for is there.
Complete(e, c) == Requested(e) /\ c.num = Allowed /\ c.host = "IN"

WindBack(c) ==
  [c EXCEPT !.age = IF @ + TIMEOUT > TIMEOUT THEN TIMEOUT + 1 ELSE @ + TIMEOUT]

WindBackIfComplete(e, c) == IF Complete(e, c) THEN WindBack(c) ELSE c

(***************************************************************************)
(* The sweep: what happens to an expired client.                           *)
(***************************************************************************)
Expired(e) == client[e].here /\ client[e].age > TIMEOUT

MutDropRequest(e) == UNCHANGED requests  \* mutant: no HASH_DEL

\* HASH_DEL of the request HASH_FIND has found; uthash keeps a second one.
DropRequest(e) == requests' = [requests EXCEPT ![e] = IF @ > 0 THEN @ - 1 ELSE @]

MutRemoved(e) == client  \* mutant: no HASH_DEL of the client

Removed(e) == [client EXCEPT ![e] = NoClient]

\* close_all_data_sockets(), free_client(), HASH_DEL.  A socket leaves the
\* event pool when its last copy is closed; one that stays registered refers
\* to the client just freed.
Forget(e) ==
  /\ client' = Removed(e)
  /\ DropRequest(e)
  /\ reg' = {k \in reg : k[1] # e}
  /\ dangling' = dangling \cup
       {k \in reg : k[1] = e /\ (k \notin DataSocks(e) \/ k \in inherited')}

Fork(e) ==
  /\ proc[NodeOf(e)] = "sweep" /\ Expired(e) /\ Complete(e, client[e])
  /\ children' = children \cup {[end |-> e, socks |-> AgentSocks(e)]}
  /\ inherited' = inherited \cup {k \in reg : NodeOf(k[1]) = NodeOf(e)}
  /\ Forget(e)
  /\ UNCHANGED <<proc, busy, inbox, gen, sock, pool, uuids>>

GiveUp(e) ==
  /\ proc[NodeOf(e)] = "sweep" /\ Expired(e) /\ ~Complete(e, client[e])
  /\ sock' = [k \in Sockets |->
       IF k \in DataSocks(e) \ inherited /\ sock[k] = "syn" THEN "closed" ELSE sock[k]]
  /\ UNCHANGED inherited
  /\ Forget(e)
  /\ UNCHANGED <<proc, busy, inbox, gen, children, pool, uuids>>

SweepDone(n) ==
  /\ proc[n] = "sweep" /\ \A e \in EndsAt(n) : ~Expired(e)
  /\ Becomes(n, "wait")
  /\ UNCHANGED <<client, netVars, ctlVars>>

(***************************************************************************)
(* Connecting: connect_agent_side() at CLIENT ends, connect_host_side() at *)
(* AGENT ends, for each end of S, from given clients and sockets.          *)
(***************************************************************************)
Opened(e) == IF e[2] = "CLIENT" THEN {<<e, i, gen[e] + 1>> : i \in 1..Allowed}
             ELSE {<<e, 0, gen[e] + 1>>}

MutReconnecting(e, c) == c  \* mutant: num_parallel_connections is not reset

\* What connecting (again) does to the client.
Reconnecting(e, c) ==
  IF e[2] = "CLIENT" THEN [c EXCEPT !.num = 0] ELSE [c EXCEPT !.host = "OFF"]

Connect(S, cl, sk, rg) ==
  LET new == UNION {Opened(e) : e \in S} IN
    /\ \A e \in S : gen[e] < MaxGen
    /\ client' = [e \in Ends |-> IF e \in S THEN Reconnecting(e, cl[e]) ELSE cl[e]]
    /\ gen'  = [e \in Ends |-> IF e \in S THEN gen[e] + 1 ELSE gen[e]]
    /\ sock' = [k \in Sockets |-> IF k \in new THEN "syn" ELSE sk[k]]
    /\ reg'  = rg \cup new

(***************************************************************************)
(* The events.                                                             *)
(***************************************************************************)
Waits(n) == proc[n] = "wait"

\* get_controller_message(): the request goes to the table, HASH_ADD_INT does
\* not look whether it is there already.
GetControllerMessage(m) ==
  /\ inbox[m] > 0
  /\ inbox' = [inbox EXCEPT ![m] = @ - 1]
  /\ requests' = [requests EXCEPT ![m] = @ + 1]

\* CONTROLLER_MESSAGE: every client for which a request is in the table
\* connects, whether it has connected already or not.
ControllerMessage(m) ==
  LET n == NodeOf(m) IN
    /\ Waits(n)
    /\ GetControllerMessage(m)
    /\ Connect({e \in EndsAt(n) : client[e].here /\ requests'[e] > 0}, client, sock, reg)
    /\ Becomes(n, "sweep")
    /\ UNCHANGED <<dangling, inherited, pool, uuids, children>>

\* HOST_SIDE_CONNECT: the host of tunnel t is accepted.
HandleHostSideConnect(t) ==
  LET e == <<t, "CLIENT">> IN
    /\ Waits(Src[t]) /\ sock[HostSock(e)] = "none"
    /\ Connect(IF Requested(e) THEN {e} ELSE {},
               [client EXCEPT ![e] = FreshClient],
               [sock EXCEPT ![HostSock(e)] = "up"],
               reg \cup {HostSock(e)})
    /\ Becomes(Src[t], "sweep")
    /\ UNCHANGED <<dangling, inherited, pool, uuids, inbox, requests, children>>

\* HOST_CONNECTED: handle_host_connected().  An event of a host socket that
\* was replaced is taken for one of the new socket, whose connection may still
\* be in progress: SO_ERROR is 0 then.
HandleHostConnected(e) ==
  /\ Waits(NodeOf(e)) /\ client[e].here
  /\ \E k \in reg : k[1] = e /\ IsHost(k) /\ sock[k] # "syn"
  /\ client' = [client EXCEPT ![e] =
       IF sock[HostSock(e)] = "refused" THEN WindBack([@ EXCEPT !.host = "OFF"])
       ELSE WindBackIfComplete(e, [@ EXCEPT !.host = "IN"])]
  /\ Becomes(NodeOf(e), IF HostSock(e) \in reg THEN "sweep" ELSE "dead")
  /\ reg' = reg \ {HostSock(e)}
  /\ UNCHANGED <<sock, dangling, inherited, pool, uuids, ctlVars>>

\* The end of agent_connected_event(): EPOLL_CTL_DEL of socket k, and the
\* client c is looked at.
LeaveEventPool(k, c) ==
  /\ client' = [client EXCEPT ![k[1]] = WindBackIfComplete(k[1], c)]
  /\ reg' = reg \ {k}
  /\ Becomes(NodeOf(k[1]), IF k \in reg THEN "sweep" ELSE "dead")

MutCounted(e, i) == [client[e] EXCEPT !.num = @ + 1]
   \* mutant: a connection that was refused counts

\* num_parallel_connections counts the sockets without SO_ERROR.
Counted(e, i) == IF sock[AgentSock(e, i)] = "refused" THEN client[e]
                 ELSE [client[e] EXCEPT !.num = @ + 1]

\* AGENT_CONNECTED: agent_connected_event() for agent_sock[i - 1].
AgentConnectedEvent(e, i) ==
  LET k == AgentSock(e, i) IN
    /\ Waits(NodeOf(e)) /\ client[e].here
    /\ \E s \in reg : s[1] = e /\ s[2] = i /\ sock[s] # "syn"
    /\ IF sock[k] = "syn"
       THEN /\ client' = [client EXCEPT ![e] = Counted(e, i)]
            /\ Spins(NodeOf(e), "send", k)
            /\ UNCHANGED <<reg, uuids>>
       ELSE /\ LeaveEventPool(k, Counted(e, i))
            /\ uuids' = IF sock[k] = "refused" THEN uuids
                        ELSE [uuids EXCEPT ![k] = @ + 1]
    /\ UNCHANGED <<sock, dangling, inherited, pool, ctlVars>>

\* send_uuid() on a socket that was still connecting comes to its end.
SendUuid(n) ==
  LET k == busy[n] IN
    /\ proc[n] = "send" /\ sock[k] # "syn"
    /\ IF sock[k] = "refused"
       THEN Becomes(n, "dead") /\ UNCHANGED <<client, reg, uuids>>
       ELSE LeaveEventPool(k, client[k[1]]) /\ uuids' = [uuids EXCEPT ![k] = @ + 1]
    /\ UNCHANGED <<sock, dangling, inherited, pool, ctlVars>>

\* AGENT_SIDE_CONNECT: accept_agent_side() accepts socket k.
AcceptAgentSide(k) ==
  /\ Waits(Dst[k[1][1]]) /\ ~IsHost(k) /\ sock[k] = "up"
  /\ sock' = [sock EXCEPT ![k] = "accepted"]
  /\ pool' = pool \cup {k}
  /\ Becomes(Dst[k[1][1]], "sweep")
  /\ UNCHANGED <<client, reg, dangling, inherited, uuids, ctlVars>>

\* AGENT_CONNECTED_UUID: the socket is polled for output, so the event comes
\* at once, and get_uuid() loops until the uuid is there.
AwaitUuid(k) ==
  /\ Waits(Dst[k[1][1]]) /\ k \in pool
  /\ Spins(Dst[k[1][1]], "recv", k)
  /\ UNCHANGED <<client, netVars, ctlVars>>

\* The rest of get_uuid_and_confirm_client(): the socket joins the client
\* with this uuid, a new one if there is none.
ConfirmClient(n) ==
  LET k == busy[n]
      e == <<k[1][1], "AGENT">>
      c == [(IF client[e].here THEN client[e] ELSE FreshClient)
              EXCEPT !.num = @ + 1, !.joined = @ \cup {k}]
  IN
    /\ proc[n] = "recv" /\ uuids[k] > 0
    /\ Connect(IF client[e].here \/ ~Requested(e) THEN {} ELSE {e},
               [client EXCEPT ![e] = WindBackIfComplete(e, c)], sock, reg)
    /\ pool' = pool \ {k}
    /\ Becomes(n, "sweep")
    /\ UNCHANGED <<dangling, inherited, uuids, inbox, requests, children>>

\* An event of a client that was freed.  agent_side_event_info was freed with
\* it.  host_side_event_info is part of client_t, which was not:
\* handle_host_connected() runs and cannot deregister the host_sock it closed.
DanglingEvent(n) ==
  /\ Waits(n)
  /\ \E k \in dangling : /\ NodeOf(k[1]) = n /\ sock[k] # "syn"
                         /\ Becomes(n, IF IsHost(k) THEN "dead" ELSE "undefined")
  /\ UNCHANGED <<client, netVars, ctlVars>>

NoEvent(n) ==
  /\ \A k \in reg \cup dangling : NodeOf(k[1]) = n => sock[k] = "syn"
  /\ \A k \in Sockets : ~IsHost(k) /\ Dst[k[1][1]] = n => k \notin pool /\ sock[k] # "up"

\* epoll_wait() times out.
Idle(n) ==
  /\ Waits(n) /\ NoEvent(n)
  /\ Becomes(n, "sweep")
  /\ UNCHANGED <<client, netVars, ctlVars>>

(***************************************************************************)
(* The environment.                                                        *)
(***************************************************************************)
SockBecomes(k, s) ==
  /\ sock' = [sock EXCEPT ![k] = s]
  /\ UNCHANGED <<proc, busy, client, reg, dangling, inherited, pool, uuids, ctlVars>>

\* A connection is established by the kernel of the other side, whose parent
\* need not have accepted it.
Establish(k) ==
  /\ sock[k] = "syn" /\ (IsHost(k) \/ proc[Dst[k[1][1]]] # "dead")
  /\ SockBecomes(k, "up")

\* A connection fails; an accepted host can be gone before its event.
Refuse(k) ==
  /\ \/ sock[k] = "syn" /\ "refuse" \in EnvEvents
     \/ sock[k] = "syn" /\ ~IsHost(k) /\ proc[Dst[k[1][1]]] = "dead"
     \/ sock[k] = "up" /\ IsHost(k) /\ k \in reg /\ "refuse" \in EnvEvents
  /\ SockBecomes(k, "refused")

\* Nothing but the clock can move.
Quiet ==
  /\ \A n \in Nodes : proc[n] # "sweep" /\ (Waits(n) => NoEvent(n))
  /\ \A k \in Sockets : sock[k] # "syn"
  /\ \A t \in Tunnels : Waits(Src[t]) => sock[HostSock(<<t, "CLIENT">>)] # "none"
  /\ \A m \in Ends : inbox[m] > 0 => ~Waits(NodeOf(m))

\* A second passes: at any time, or only when all is quiet.
Tick ==
  /\ "hurry" \in EnvEvents \/ Quiet
  /\ \E e \in Ends : client[e].here /\ client[e].age <= TIMEOUT
  /\ client' = [e \in Ends |->
       IF client[e].here /\ client[e].age <= TIMEOUT
       THEN [client[e] EXCEPT !.age = @ + 1] ELSE client[e]]
  /\ UNCHANGED <<proc, busy, netVars, ctlVars>>

Step(n) ==
  \/ \E e \in EndsAt(n) :
       \/ Fork(e) \/ GiveUp(e) \/ ControllerMessage(e) \/ HandleHostConnected(e)
       \/ \E i \in 1..Allowed : AgentConnectedEvent(e, i)
  \/ \E t \in Tunnels : Src[t] = n /\ HandleHostSideConnect(t)
  \/ \E k \in Sockets : Dst[k[1][1]] = n /\ (AcceptAgentSide(k) \/ AwaitUuid(k))
  \/ SweepDone(n) \/ SendUuid(n) \/ ConfirmClient(n) \/ DanglingEvent(n) \/ Idle(n)

Next ==
  \/ \E n \in Nodes : Step(n)
  \/ \E k \in Sockets : Establish(k) \/ Refuse(k)
  \/ Tick

Spec == Init /\ [][Next]_vars

\* Each parent runs, and connections do not stay in progress for ever.
Fairness ==
  /\ \A n \in Nodes : WF_vars(Step(n))
  /\ \A k \in Sockets : WF_vars(Establish(k) \/ Refuse(k))
  /\ WF_vars(Tick)

FairSpec == Spec /\ Fairness

=============================================================================
