------------------------------ MODULE PollProofs ------------------------------
(***************************************************************************)
(* Proofs about the parents, for every number of nodes, tunnels and        *)
(* connections, every way the network loses or repeats datagrams, and      *)
(* every environment event.                                                *)
(***************************************************************************)
EXTENDS PollProperties, FiniteSetTheorems, TLAPS

\* A set counts one more element, or none.
LEMMA AddOne ==
  ASSUME NEW S, IsFiniteSet(S), NEW x
  PROVE  /\ IsFiniteSet(S \cup {x}) /\ Cardinality(S \cup {x}) \in Nat
         /\ x \in S => Cardinality(S \cup {x}) = Cardinality(S)
         /\ x \notin S => Cardinality(S \cup {x}) = Cardinality(S) + 1
<1>1. /\ IsFiniteSet(S \cup {x})
      /\ Cardinality(S \cup {x}) = IF x \in S THEN Cardinality(S) ELSE Cardinality(S) + 1
  BY FS_AddElement
<1>2. Cardinality(S \cup {x}) \in Nat
  BY <1>1, FS_CardinalityType
<1> QED
  BY <1>1, <1>2

(***************************************************************************)
(* Requests and children.                                                  *)
(***************************************************************************)

\* The ledger of the controller's messages, with what makes it countable.
LedgerInv ==
  /\ inbox \in [Ends -> Nat] /\ requests \in [Ends -> Nat]
  /\ IsFiniteSet(children) /\ \A c \in children : c.end \in Ends
  /\ ChildPerDatagram

Ledger == <<inbox, requests, children>>

\* Only the sweep and the messages of the controller change the ledger.
LEMMA LedgerSteps ==
  ASSUME [Next]_vars
  PROVE  \/ \E e \in Ends : Fork(e) \/ GiveUp(e) \/ ControllerMessage(e)
         \/ UNCHANGED Ledger
<1>1. ASSUME NEW n \in Nodes, Step(n)
      PROVE  \/ \E e \in Ends : Fork(e) \/ GiveUp(e) \/ ControllerMessage(e)
             \/ UNCHANGED Ledger
  <2>1. EndsAt(n) \subseteq Ends
    BY DEF EndsAt
  <2>2. ASSUME NEW e \in Ends, HandleHostConnected(e) PROVE UNCHANGED Ledger
    BY <2>2 DEF HandleHostConnected, ctlVars, Ledger
  <2>3. ASSUME NEW e \in Ends, NEW i \in 1..Allowed, AgentConnectedEvent(e, i)
        PROVE  UNCHANGED Ledger
    BY <2>3 DEF AgentConnectedEvent, ctlVars, Ledger
  <2>4. ASSUME NEW t \in Tunnels, HandleHostSideConnect(t) PROVE UNCHANGED Ledger
    BY <2>4 DEF HandleHostSideConnect, Ledger
  <2>5. ASSUME NEW k \in Sockets, AcceptAgentSide(k) \/ AwaitUuid(k)
        PROVE  UNCHANGED Ledger
    BY <2>5 DEF AcceptAgentSide, AwaitUuid, ctlVars, Ledger
  <2>6. CASE SweepDone(n) \/ SendUuid(n) \/ ConfirmClient(n) \/ DanglingEvent(n) \/ Idle(n)
    BY <2>6
    DEF SweepDone, SendUuid, ConfirmClient, DanglingEvent, Idle, ctlVars, Ledger
  <2> QED
    BY <1>1, <2>1, <2>2, <2>3, <2>4, <2>5, <2>6 DEF Step
<1>2. ASSUME NEW k \in Sockets, Establish(k) \/ Refuse(k) PROVE UNCHANGED Ledger
  BY <1>2 DEF Establish, Refuse, SockBecomes, ctlVars, Ledger
<1>3. CASE Tick \/ UNCHANGED vars
  BY <1>3 DEF Tick, vars, ctlVars, Ledger
<1> QED
  BY <1>1, <1>2, <1>3 DEF Next

\* The children of each end are finitely many, as all are.
LEMMA ChildrenOfFinite ==
  ASSUME IsFiniteSet(children), NEW e \in Ends
  PROVE  IsFiniteSet(ChildrenOf(e)) /\ Cardinality(ChildrenOf(e)) \in Nat
<1>1. ChildrenOf(e) \subseteq children
  BY DEF ChildrenOf
<1> QED
  BY <1>1, FS_Subset, FS_CardinalityType

\* A fork pays for its child with a request.
LEMMA ForkKeepsLedger ==
  ASSUME LedgerInv, NEW e \in Ends, Fork(e)
  PROVE  LedgerInv'
<1> DEFINE c == [end |-> e, socks |-> AgentSocks(e)]
<1>1. /\ children' = children \cup {c} /\ inbox' = inbox
      /\ requests[e] > 0
      /\ requests' = [requests EXCEPT ![e] = IF @ > 0 THEN @ - 1 ELSE @]
  BY DEF Fork, Forget, DropRequest, Complete, Requested
<1>2. requests' \in [Ends -> Nat] /\ requests'[e] = requests[e] - 1
  BY <1>1 DEF LedgerInv
<1>3. IsFiniteSet(children')
  BY <1>1, AddOne DEF LedgerInv
<1>4. c.end = e
  OBVIOUS
<1> HIDE DEF c
<1>5. ASSUME NEW d \in Ends
      PROVE  Cardinality(ChildrenOf(d)') + requests'[d] + inbox'[d]
               <= Cardinality(ChildrenOf(d)) + requests[d] + inbox[d]
  <2>1. IsFiniteSet(ChildrenOf(d)) /\ Cardinality(ChildrenOf(d)) \in Nat
    BY ChildrenOfFinite DEF LedgerInv
  <2>2. requests[d] \in Nat /\ inbox[d] \in Nat /\ requests[e] \in Nat
    BY DEF LedgerInv
  <2>3. CASE d = e
    <3>1. ChildrenOf(d)' = ChildrenOf(d) \cup {c}
      BY <1>1, <1>4, <2>3 DEF ChildrenOf
    <3>2. Cardinality(ChildrenOf(d)') <= Cardinality(ChildrenOf(d)) + 1
          /\ Cardinality(ChildrenOf(d)') \in Nat
      BY <2>1, <3>1, AddOne
    <3> QED
      BY <1>1, <1>2, <2>1, <2>2, <2>3, <3>2
  <2>4. CASE d # e
    <3>1. ChildrenOf(d)' = ChildrenOf(d)
      BY <1>1, <1>4, <2>4 DEF ChildrenOf
    <3> QED
      BY <1>1, <2>1, <2>2, <2>4, <3>1
  <2> QED
    BY <2>3, <2>4
<1>6. ASSUME NEW d \in Ends
      PROVE  \E m \in Deliveries :
               Cardinality(ChildrenOf(d)') + requests'[d] + inbox'[d] <= m
  <2>1. PICK m \in Deliveries : Cardinality(ChildrenOf(d)) + requests[d] + inbox[d] <= m
    BY DEF LedgerInv, ChildPerDatagram
  <2>2. /\ Cardinality(ChildrenOf(d)) \in Nat /\ Cardinality(ChildrenOf(d)') \in Nat
        /\ requests[d] \in Nat /\ inbox[d] \in Nat
        /\ requests'[d] \in Nat /\ inbox'[d] \in Nat /\ m \in Nat
    <3>1. ChildrenOf(d)' \subseteq children'
      BY DEF ChildrenOf
    <3>2. Cardinality(ChildrenOf(d)') \in Nat
      BY <1>3, <3>1, FS_Subset, FS_CardinalityType
    <3> QED
      BY <1>1, <1>2, <3>2, ChildrenOfFinite, NumberAssumption DEF LedgerInv
  <2> QED
    BY <1>5, <2>1, <2>2
<1>7. \A d \in children' : d.end \in Ends
  BY <1>1, <1>4 DEF LedgerInv
<1> QED
  BY <1>1, <1>2, <1>3, <1>6, <1>7 DEF LedgerInv, ChildPerDatagram

\* Giving up drops a request, a message of the controller only moves.
LEMMA OthersKeepLedger ==
  ASSUME LedgerInv, NEW e \in Ends,
         GiveUp(e) \/ ControllerMessage(e) \/ UNCHANGED Ledger
  PROVE  LedgerInv'
<1>1. /\ children' = children
      /\ requests' \in [Ends -> Nat] /\ inbox' \in [Ends -> Nat]
      /\ \A d \in Ends : requests'[d] + inbox'[d] <= requests[d] + inbox[d]
  <2>1. CASE GiveUp(e)
    BY <2>1 DEF GiveUp, Forget, DropRequest, LedgerInv
  <2>2. CASE ControllerMessage(e)
    BY <2>2 DEF ControllerMessage, GetControllerMessage, LedgerInv
  <2>3. CASE UNCHANGED Ledger
    BY <2>3 DEF Ledger, LedgerInv
  <2> QED
    BY <2>1, <2>2, <2>3
<1>2. ASSUME NEW d \in Ends
      PROVE  \E m \in Deliveries :
               Cardinality(ChildrenOf(d)') + requests'[d] + inbox'[d] <= m
  <2>1. PICK m \in Deliveries : Cardinality(ChildrenOf(d)) + requests[d] + inbox[d] <= m
    BY DEF LedgerInv, ChildPerDatagram
  <2>2. ChildrenOf(d)' = ChildrenOf(d)
    BY <1>1 DEF ChildrenOf
  <2>3. /\ Cardinality(ChildrenOf(d)) \in Nat /\ m \in Nat
        /\ requests[d] \in Nat /\ inbox[d] \in Nat
        /\ requests'[d] \in Nat /\ inbox'[d] \in Nat
    BY <1>1, ChildrenOfFinite, NumberAssumption DEF LedgerInv
  <2>4. requests'[d] + inbox'[d] <= requests[d] + inbox[d]
    BY <1>1
  <2> QED
    BY <2>1, <2>2, <2>3, <2>4
<1> QED
  BY <1>1, <1>2 DEF LedgerInv, ChildPerDatagram

\* At first there are only datagrams.
LEMMA LedgerInit == Init => LedgerInv
<1> SUFFICES ASSUME Init PROVE LedgerInv
  OBVIOUS
<1>1. /\ inbox \in [Ends -> Deliveries] /\ Deliveries \subseteq Nat
      /\ requests = [e \in Ends |-> 0] /\ children = {}
  BY NumberAssumption DEF Init
<1>2. IsFiniteSet(children) /\ \A e \in Ends : Cardinality(ChildrenOf(e)) = 0
  <2>1. \A e \in Ends : ChildrenOf(e) = {}
    BY <1>1 DEF ChildrenOf
  <2> QED
    BY <1>1, <2>1, FS_EmptySet
<1>3. ASSUME NEW e \in Ends
      PROVE  Cardinality(ChildrenOf(e)) + requests[e] + inbox[e] <= inbox[e]
  <2>1. inbox[e] \in Nat /\ requests[e] = 0
    BY <1>1
  <2> QED
    BY <1>2, <2>1
<1> QED
  BY <1>1, <1>2, <1>3 DEF LedgerInv, ChildPerDatagram

\* Every step keeps the ledger.
LEMMA LedgerStep == LedgerInv /\ [Next]_vars => LedgerInv'
<1> SUFFICES ASSUME LedgerInv, [Next]_vars PROVE LedgerInv'
  OBVIOUS
<1>1. CASE UNCHANGED Ledger
  BY <1>1 DEF Ledger, LedgerInv, ChildPerDatagram, ChildrenOf
<1> QED
  BY <1>1, LedgerSteps, ForkKeepsLedger, OthersKeepLedger

\* However often the network repeats or loses the datagrams of the controller,
\* there are never more children for an end than datagrams that came for it.
THEOREM OneChildPerDatagram == Spec => []ChildPerDatagram
BY LedgerInit, LedgerStep, PTL DEF Spec, LedgerInv

\* Where no datagram comes twice, no end has two children: of requests in the
\* table and children forked there is at most one.
THEOREM ForkedOnce ==
  ASSUME Deliveries \subseteq {0, 1}
  PROVE  Spec => []ForkOnce
<1>1. ASSUME LedgerInv PROVE ForkOnce
  <2> SUFFICES ASSUME NEW c \in children, NEW d \in children, c.end = d.end, c # d
               PROVE  FALSE
    BY DEF ForkOnce
  <2> DEFINE e == c.end
  <2>1. e \in Ends /\ c \in ChildrenOf(e) /\ d \in ChildrenOf(e)
    BY <1>1 DEF LedgerInv, ChildrenOf
  <2>2. IsFiniteSet(ChildrenOf(e)) /\ Cardinality(ChildrenOf(e)) \in Nat
    BY <1>1, <2>1, ChildrenOfFinite DEF LedgerInv
  <2>3. Cardinality(ChildrenOf(e)) <= 1
    BY <1>1, <2>1, <2>2 DEF LedgerInv, ChildPerDatagram
  <2>4. /\ IsFiniteSet({c}) /\ Cardinality({c}) = 1
    BY FS_Singleton
  <2>5. Cardinality({c} \cup {d}) = 2
    <3>1. d \notin {c}
      OBVIOUS
    <3>2. Cardinality({c} \cup {d}) = Cardinality({c}) + 1
      BY <2>4, <3>1, AddOne, Zenon
    <3> QED
      BY <2>4, <3>2
  <2>6. Cardinality({c} \cup {d}) <= Cardinality(ChildrenOf(e))
    BY <2>1, <2>2, FS_Subset
  <2> QED
    BY <2>2, <2>3, <2>5, <2>6
<1> QED
  BY <1>1, LedgerInit, LedgerStep, PTL DEF Spec

(***************************************************************************)
(* Sockets, clients and children: why a child that is forked is complete.  *)
(***************************************************************************)

ClientRec == [here : BOOLEAN, num : Nat, host : {"OFF", "IN"}, age : Nat,
              joined : SUBSET Sockets]

ParentTypes ==
  /\ proc \in [Nodes -> {"sweep", "wait", "recv", "send", "dead", "undefined"}]
  /\ busy \in [Nodes -> Sockets \cup {<<>>}]
  /\ client \in [Ends -> ClientRec]
  /\ gen \in [Ends -> 0..MaxGen]
  /\ sock \in [Sockets -> {"none", "syn", "up", "refused", "accepted", "closed"}]
  /\ uuids \in [Sockets -> Nat]
  /\ reg \subseteq Sockets /\ pool \subseteq Sockets
  /\ children \subseteq [end : Ends, socks : SUBSET Sockets]

ClientEnd(e) == e[2] = "CLIENT"

Alive == {"syn", "up", "accepted", "refused"}

\* A socket that is not opened yet is untouched.
FreshSocks ==
  \A k \in Sockets :
    /\ k[3] > gen[k[1]] => sock[k] = "none" /\ uuids[k] = 0
    /\ ~IsHost(k) /\ k[3] = 0 => sock[k] = "none"

\* A socket that waits for its event has not sent a uuid.
RegisteredSocks ==
  \A k \in reg :
    /\ ~ClientEnd(k[1]) => IsHost(k)
    /\ ~IsHost(k) => uuids[k] = 0 /\ sock[k] \in Alive

SentSocks ==
  \A k \in Sockets : uuids[k] > 0 => ~IsHost(k) /\ sock[k] \in {"up", "accepted"}

\* What a parent that is in a loop works on.
BusyOK ==
  \A n \in Nodes :
    /\ proc[n] = "send" =>
         \E e \in Ends, i \in 1..Allowed :
           /\ busy[n] = AgentSock(e, i)
           /\ ClientEnd(e) /\ NodeOf(e) = n /\ client[e].here /\ gen[e] > 0
    /\ proc[n] = "recv" => busy[n] \in pool /\ Dst[busy[n][1][1]] = n

\* The host of a CLIENT end is accepted once.
HostSeen ==
  \A e \in Ends :
    ClientEnd(e) /\ sock[HostSock(e)] = "none"
      => gen[e] = 0 /\ ~client[e].here /\ \A c \in children : c.end # e

SocksAlive ==
  \A e \in Ends, i \in 1..Allowed :
    ClientEnd(e) /\ client[e].here /\ gen[e] > 0 => sock[AgentSock(e, i)] \in Alive

\* The agent sockets of a CLIENT end that are ready for its child.
ReadySock(k) == k \notin reg /\ sock[k] \in {"up", "accepted"} /\ uuids[k] = 1
Ready(e)     == {i \in 1..Allowed : ReadySock(AgentSock(e, i))}

SendingFor(e) == proc[NodeOf(e)] = "send" /\ busy[NodeOf(e)][1] = e

\* num_parallel_connections of a CLIENT end counts the sockets that are ready,
\* and the one send_uuid() is at, unless its parent has left through exit(1).
ClientCount ==
  \A e \in Ends :
    ClientEnd(e) /\ client[e].here /\ proc[NodeOf(e)] # "dead"
      => client[e].num = Cardinality(Ready(e)) + (IF SendingFor(e) THEN 1 ELSE 0)

\* That of an AGENT end counts the sockets that have joined it.
JoinedSocks ==
  /\ \A k \in pool : sock[k] = "accepted"
  /\ \A e \in Ends :
       ~ClientEnd(e) =>
         /\ IsFiniteSet(client[e].joined)
         /\ client[e].num = Cardinality(client[e].joined)
         /\ \A k \in client[e].joined :
              sock[k] = "accepted" /\ uuids[k] > 0 /\ k \notin pool

\* The child of a CLIENT end has only sockets of that end, which is no client
\* of the parent any more.
ChildrenApart ==
  \A c \in children : ClientEnd(c.end) =>
    /\ ~client[c.end].here
    /\ \A k \in c.socks : k[1] = c.end /\ ~IsHost(k)

SocketInv ==
  /\ ParentTypes /\ FreshSocks /\ RegisteredSocks /\ SentSocks
  /\ BusyOK /\ HostSeen /\ SocksAlive /\ ClientCount /\ JoinedSocks
  /\ ChildrenApart /\ ForkedComplete

\* Ends and sockets are tuples.
LEMMA EndParts ==
  /\ \A e \in Ends : e[1] \in Tunnels /\ e[2] \in {"CLIENT", "AGENT"} /\ e = <<e[1], e[2]>>
  /\ \A t \in Tunnels : <<t, "CLIENT">> \in Ends /\ <<t, "AGENT">> \in Ends
  /\ \A e \in Ends : NodeOf(e) \in Nodes
BY TunnelAssumption DEF Ends, NodeOf

\* A socket is its end, its index and its generation.
LEMMA SocketParts ==
  /\ \A k \in Sockets : /\ k[1] \in Ends /\ k[2] \in 0..Allowed /\ k[3] \in 0..MaxGen
                        /\ k = <<k[1], k[2], k[3]>>
  /\ \A e \in Ends, i \in 0..Allowed, g \in 0..MaxGen :
       LET k == <<e, i, g>> IN k \in Sockets /\ k[1] = e /\ k[2] = i /\ k[3] = g
BY DEF Sockets

\* The sockets of an end are sockets.
LEMMA OwnSocks ==
  ASSUME gen \in [Ends -> 0..MaxGen], NEW e \in Ends
  PROVE  /\ HostSock(e) \in Sockets /\ HostSock(e)[1] = e /\ IsHost(HostSock(e))
         /\ \A i \in 1..Allowed :
              /\ AgentSock(e, i) \in Sockets /\ AgentSock(e, i)[1] = e
              /\ AgentSock(e, i)[2] = i /\ AgentSock(e, i)[3] = gen[e]
              /\ ~IsHost(AgentSock(e, i))
<1>1. 0 \in 0..MaxGen /\ 0 \in 0..Allowed /\ gen[e] \in 0..MaxGen
  BY NumberAssumption
<1>2. \A i \in 1..Allowed : i \in 0..Allowed /\ i # 0
  BY NumberAssumption
<1> QED
  BY <1>1, <1>2, SocketParts DEF HostSock, AgentSock, IsHost

\* What looking at a client and connecting it do to it.
LEMMA ClientUpdates ==
  ASSUME NEW e \in Ends, NEW c \in ClientRec
  PROVE  /\ WindBack(c) \in ClientRec
         /\ WindBack(c).here = c.here /\ WindBack(c).num = c.num
         /\ WindBack(c).joined = c.joined /\ WindBack(c).host = c.host
         /\ WindBackIfComplete(e, c) \in {c, WindBack(c)}
         /\ Reconnecting(e, c) \in ClientRec
         /\ Reconnecting(e, c).here = c.here /\ Reconnecting(e, c).joined = c.joined
         /\ Reconnecting(e, c).num = IF ClientEnd(e) THEN 0 ELSE c.num
<1>1. TIMEOUT \in Nat /\ c.age \in Nat
  BY NumberAssumption DEF ClientRec
<1>2. (IF c.age + TIMEOUT > TIMEOUT THEN TIMEOUT + 1 ELSE c.age + TIMEOUT) \in Nat
  BY <1>1
<1>3. /\ WindBack(c) \in ClientRec
      /\ WindBack(c).here = c.here /\ WindBack(c).num = c.num
      /\ WindBack(c).joined = c.joined /\ WindBack(c).host = c.host
  BY <1>2 DEF WindBack, ClientRec
<1>4. WindBackIfComplete(e, c) \in {c, WindBack(c)}
  BY DEF WindBackIfComplete
<1>5. /\ Reconnecting(e, c) \in ClientRec
      /\ Reconnecting(e, c).here = c.here /\ Reconnecting(e, c).joined = c.joined
      /\ Reconnecting(e, c).num = IF ClientEnd(e) THEN 0 ELSE c.num
  BY DEF Reconnecting, ClientRec, ClientEnd
<1> QED
  BY <1>3, <1>4, <1>5

\* No client, and a new one, are clients.
LEMMA NoClientType == NoClient \in ClientRec /\ FreshClient \in ClientRec
BY DEF NoClient, FreshClient, ClientRec

\* The sockets that connecting opens are the next ones of the ends.
NewSocks(S) ==
  {k \in Sockets : /\ k[1] \in S /\ k[3] = gen[k[1]] + 1
                   /\ ClientEnd(k[1]) <=> ~IsHost(k)}

\* So connecting opens those of the next generation.
LEMMA OpenedSocks ==
  ASSUME gen \in [Ends -> 0..MaxGen], NEW S \in SUBSET Ends,
         \A e \in S : gen[e] < MaxGen
  PROVE  UNION {Opened(e) : e \in S} = NewSocks(S)
<1>1. ASSUME NEW e \in S PROVE Opened(e) \subseteq NewSocks(S)
  <2>1. gen[e] + 1 \in 0..MaxGen /\ 0 \in 0..Allowed
    BY NumberAssumption
  <2>2. \A i \in 1..Allowed : i \in 0..Allowed /\ i # 0
    BY NumberAssumption
  <2> QED
    BY <2>1, <2>2, SocketParts DEF Opened, NewSocks, ClientEnd, IsHost
<1>2. ASSUME NEW k \in NewSocks(S) PROVE k \in Opened(k[1])
  <2>1. /\ k[1] \in S /\ k[3] = gen[k[1]] + 1 /\ k[2] \in 0..Allowed
        /\ k = <<k[1], k[2], k[3]>> /\ (ClientEnd(k[1]) <=> k[2] # 0)
    BY SocketParts DEF NewSocks, IsHost
  <2>2. CASE ClientEnd(k[1])
    <3>1. k[2] \in 1..Allowed
      BY <2>1, <2>2, NumberAssumption
    <3> QED
      BY <2>1, <2>2, <3>1 DEF Opened, ClientEnd
  <2>3. CASE ~ClientEnd(k[1])
    BY <2>1, <2>3 DEF Opened, ClientEnd
  <2> QED
    BY <2>2, <2>3
<1>3. ASSUME NEW k \in NewSocks(S) PROVE k[1] \in S
  BY DEF NewSocks
<1> QED
  BY <1>1, <1>2, <1>3

\* Connecting, for the ends of S.
Connected(S, cl, sk, rg) ==
  /\ reg' = rg \cup NewSocks(S)
  /\ \A e \in Ends :
       /\ gen'[e] = IF e \in S THEN gen[e] + 1 ELSE gen[e]
       /\ client'[e].here = cl[e].here /\ client'[e].joined = cl[e].joined
       /\ client'[e].num = IF e \in S /\ ClientEnd(e) THEN 0 ELSE cl[e].num
  /\ \A k \in Sockets : sock'[k] = IF k \in NewSocks(S) THEN "syn" ELSE sk[k]

\* What connecting does, and that it keeps the types.
LEMMA ConnectEffect ==
  ASSUME ParentTypes, NEW S \in SUBSET Ends, NEW cl \in [Ends -> ClientRec],
         NEW sk \in [Sockets -> {"none", "syn", "up", "refused", "accepted", "closed"}],
         NEW rg \in SUBSET Sockets, Connect(S, cl, sk, rg)
  PROVE  /\ client' \in [Ends -> ClientRec]
         /\ gen' \in [Ends -> 0..MaxGen]
         /\ sock' \in [Sockets -> {"none", "syn", "up", "refused", "accepted", "closed"}]
         /\ reg' \subseteq Sockets
         /\ Connected(S, cl, sk, rg)
<1>1. UNION {Opened(e) : e \in S} = NewSocks(S)
  BY OpenedSocks DEF Connect, ParentTypes
<1>2. NewSocks(S) \subseteq Sockets
  BY DEF NewSocks
<1>3. \A e \in S : gen[e] + 1 \in 0..MaxGen
  BY NumberAssumption DEF Connect, ParentTypes
<1>4. \A e \in Ends : gen[e] \in 0..MaxGen
  BY DEF ParentTypes
<1>5. gen' = [e \in Ends |-> IF e \in S THEN gen[e] + 1 ELSE gen[e]]
  BY DEF Connect
<1>6. /\ gen' \in [Ends -> 0..MaxGen]
      /\ \A e \in Ends : gen'[e] = IF e \in S THEN gen[e] + 1 ELSE gen[e]
  BY <1>3, <1>4, <1>5
<1>7. client' = [e \in Ends |-> IF e \in S THEN Reconnecting(e, cl[e]) ELSE cl[e]]
  BY DEF Connect
<1>8. /\ client' \in [Ends -> ClientRec]
      /\ \A e \in Ends :
           /\ client'[e].here = cl[e].here /\ client'[e].joined = cl[e].joined
           /\ client'[e].num = IF e \in S /\ ClientEnd(e) THEN 0 ELSE cl[e].num
  BY <1>7, ClientUpdates
<1>9. sock' = [k \in Sockets |-> IF k \in NewSocks(S) THEN "syn" ELSE sk[k]]
  BY <1>1 DEF Connect
<1>10. reg' = rg \cup NewSocks(S)
  BY <1>1 DEF Connect
<1> QED
  BY <1>2, <1>6, <1>8, <1>9, <1>10 DEF Connected

\* What nearly every step keeps: sockets that are connected stay so, uuids are
\* sent only for ends that are clients, nothing returns to the pool, the host of
\* a CLIENT end comes once.
Steady ==
  /\ \A k \in Sockets :
       /\ sock[k] = "accepted" => sock'[k] = "accepted"
       /\ sock[k] \in {"up", "accepted"} /\ ~IsHost(k) => sock'[k] \in {"up", "accepted"}
       /\ uuids'[k] = uuids[k] \/ (uuids'[k] = uuids[k] + 1 /\ client[k[1]].here)
       /\ k \in pool' => k \in pool \/ sock[k] # "accepted"
  /\ \A e \in Ends :
       ClientEnd(e) /\ client'[e].here => client[e].here \/ sock[HostSock(e)] = "none"

\* Such a step leaves the children as complete as they were.
LEMMA SteadyChildren ==
  ASSUME SocketInv, ParentTypes', Steady, children' = children
  PROVE  ChildrenApart' /\ ForkedComplete'
<1>1. ASSUME NEW c \in children
      PROVE  c.end \in Ends /\ c.socks \subseteq Sockets
  BY DEF SocketInv, ParentTypes
<1>2. ChildrenApart'
  <2> SUFFICES ASSUME NEW c \in children, ClientEnd(c.end)
               PROVE  ~client'[c.end].here
    BY DEF ChildrenApart, Steady, SocketInv, IsHost, ClientEnd
  <2>1. ~client[c.end].here /\ sock[HostSock(c.end)] # "none"
    BY <1>1 DEF SocketInv, ChildrenApart, HostSeen
  <2> QED
    BY <1>1, <2>1 DEF Steady
<1>3. ASSUME NEW c \in children, NEW k \in c.socks
      PROVE  /\ sock'[k] \in {"up", "accepted"}
             /\ IF c.end[2] = "CLIENT" THEN uuids'[k] = 1
                ELSE sock'[k] = "accepted" /\ uuids'[k] > 0 /\ k \notin pool'
  <2>1. k \in Sockets /\ sock[k] \in {"up", "accepted"}
    BY <1>1 DEF SocketInv, ForkedComplete
  <2>2. CASE ClientEnd(c.end)
    <3>1. k[1] = c.end /\ ~IsHost(k) /\ ~client[c.end].here /\ uuids[k] = 1
      BY <2>2 DEF SocketInv, ChildrenApart, ForkedComplete, ClientEnd
    <3> QED
      BY <2>1, <2>2, <3>1 DEF Steady, ClientEnd
  <2>3. CASE ~ClientEnd(c.end)
    <3>1. sock[k] = "accepted" /\ uuids[k] > 0 /\ k \notin pool
      BY <2>3 DEF SocketInv, ForkedComplete, ClientEnd
    <3>2. uuids[k] \in Nat
      BY <2>1 DEF SocketInv, ParentTypes
    <3> QED
      BY <2>1, <2>3, <3>1, <3>2 DEF Steady, ClientEnd
  <2> QED
    BY <2>2, <2>3
<1>4. ForkedComplete'
  BY <1>3 DEF ForkedComplete, SocketInv, Steady
<1> QED
  BY <1>2, <1>4

\* And the AGENT ends as they were.
LEMMA SteadyJoined ==
  ASSUME SocketInv, ParentTypes', Steady,
         \A k \in pool' : sock'[k] = "accepted",
         \A e \in Ends : ~ClientEnd(e) =>
           \/ client'[e].joined = client[e].joined /\ client'[e].num = client[e].num
           \/ client'[e].joined = {} /\ client'[e].num = 0
  PROVE  JoinedSocks'
<1> SUFFICES ASSUME NEW e \in Ends, ~ClientEnd(e)
             PROVE  /\ IsFiniteSet(client'[e].joined)
                    /\ client'[e].num = Cardinality(client'[e].joined)
                    /\ \A k \in client'[e].joined :
                         sock'[k] = "accepted" /\ uuids'[k] > 0 /\ k \notin pool'
  BY DEF JoinedSocks, ClientEnd
<1>1. CASE client'[e].joined = client[e].joined /\ client'[e].num = client[e].num
  <2>1. client[e].joined \subseteq Sockets
    BY DEF SocketInv, ParentTypes, ClientRec
  <2>2. \A k \in client[e].joined : sock[k] = "accepted" /\ uuids[k] > 0 /\ k \notin pool
    BY DEF SocketInv, JoinedSocks
  <2>3. \A k \in Sockets : uuids[k] \in Nat
    BY DEF SocketInv, ParentTypes
  <2>4. \A k \in client[e].joined :
          sock'[k] = "accepted" /\ uuids'[k] > 0 /\ k \notin pool'
    BY <2>1, <2>2, <2>3 DEF Steady
  <2> QED
    BY <1>1, <2>4 DEF SocketInv, JoinedSocks
<1>2. CASE client'[e].joined = {} /\ client'[e].num = 0
  BY <1>2, FS_EmptySet
<1> QED
  BY <1>1, <1>2

\* And the count of a CLIENT end, when its own sockets are left alone.
LEMMA SteadyCount ==
  ASSUME SocketInv, ParentTypes', Steady,
         NEW e \in Ends, ClientEnd(e), client[e].here,
         client'[e].num = client[e].num, gen'[e] = gen[e],
         \A i \in 1..Allowed : /\ AgentSock(e, i) \in reg' <=> AgentSock(e, i) \in reg
                               /\ uuids'[AgentSock(e, i)] = uuids[AgentSock(e, i)],
         proc'[NodeOf(e)] # "dead" => proc[NodeOf(e)] # "dead",
         SendingFor(e)' <=> SendingFor(e), proc'[NodeOf(e)] # "dead"
  PROVE  client'[e].num = Cardinality(Ready(e)') + (IF SendingFor(e)' THEN 1 ELSE 0)
<1>1. \A i \in 1..Allowed : AgentSock(e, i)' = AgentSock(e, i)
  BY DEF AgentSock
<1>2. \A i \in 1..Allowed : AgentSock(e, i) \in Sockets /\ ~IsHost(AgentSock(e, i))
  BY OwnSocks DEF SocketInv, ParentTypes
<1>3. ASSUME NEW i \in 1..Allowed
      PROVE  ReadySock(AgentSock(e, i))' <=> ReadySock(AgentSock(e, i))
  <2> DEFINE k == AgentSock(e, i)
  <2>1. ReadySock(k)' <=> k \notin reg' /\ sock'[k] \in {"up", "accepted"} /\ uuids'[k] = 1
    BY <1>1 DEF ReadySock
  <2>2. sock[k] \in {"up", "accepted"} => sock'[k] \in {"up", "accepted"}
    BY <1>2 DEF Steady
  <2>3. uuids[k] = 1 => sock[k] \in {"up", "accepted"}
    BY <1>2 DEF SocketInv, SentSocks
  <2> HIDE DEF k
  <2>4. (k \in reg' <=> k \in reg) /\ uuids'[k] = uuids[k]
    BY DEF k
  <2>5. ReadySock(k)' <=> ReadySock(k)
    BY <2>1, <2>2, <2>3, <2>4 DEF ReadySock
  <2> QED
    BY <2>5 DEF k
<1>4. Ready(e)' = Ready(e)
  BY <1>3 DEF Ready
<1> QED
  BY <1>4 DEF SocketInv, ClientCount

(***************************************************************************)
(* Steps of one parent.                                                    *)
(***************************************************************************)

\* Parent n goes to p, and works on k there.
Moves(n, p, k) == proc' = [proc EXCEPT ![n] = p] /\ busy' = [busy EXCEPT ![n] = k]

\* A parent that moves on works on a socket it may work on.
LEMMA MoveBusy ==
  ASSUME SocketInv, ParentTypes', NEW n \in Nodes, NEW p, NEW k, Moves(n, p, k),
         \A e \in Ends : NodeOf(e) # n
           => gen'[e] = gen[e] /\ (client[e].here => client'[e].here),
         \A s \in pool : Dst[s[1][1]] # n => s \in pool',
         p = "send" => \E e \in Ends, i \in 1..Allowed :
                         /\ k = AgentSock(e, i)'
                         /\ ClientEnd(e) /\ NodeOf(e) = n
                         /\ client'[e].here /\ gen'[e] > 0,
         p = "recv" => k \in pool' /\ Dst[k[1][1]] = n
  PROVE  BusyOK'
<1>1. ASSUME NEW m \in Nodes, m # n, proc'[m] = "send"
      PROVE  \E e \in Ends, i \in 1..Allowed :
               /\ busy'[m] = AgentSock(e, i)'
               /\ ClientEnd(e) /\ NodeOf(e) = m /\ client'[e].here /\ gen'[e] > 0
  <2>1. proc[m] = "send" /\ busy'[m] = busy[m]
    BY <1>1 DEF Moves, SocketInv, ParentTypes
  <2>2. PICK e \in Ends, i \in 1..Allowed :
          /\ busy[m] = AgentSock(e, i)
          /\ ClientEnd(e) /\ NodeOf(e) = m /\ client[e].here /\ gen[e] > 0
    BY <2>1 DEF SocketInv, BusyOK
  <2>3. gen'[e] = gen[e] /\ client'[e].here /\ gen'[e] > 0
    BY <1>1, <2>2
  <2>4. AgentSock(e, i)' = AgentSock(e, i)
    BY <2>3 DEF AgentSock
  <2> QED
    BY <2>1, <2>2, <2>3, <2>4
<1>2. ASSUME NEW m \in Nodes, m # n, proc'[m] = "recv"
      PROVE  busy'[m] \in pool' /\ Dst[busy'[m][1][1]] = m
  <2>1. proc[m] = "recv" /\ busy'[m] = busy[m]
    BY <1>2 DEF Moves, SocketInv, ParentTypes
  <2> QED
    BY <1>2, <2>1 DEF SocketInv, BusyOK
<1>3. proc'[n] = p /\ busy'[n] = k
  BY DEF Moves, SocketInv, ParentTypes
<1> QED
  BY <1>1, <1>2, <1>3 DEF BusyOK, ClientEnd, NodeOf

\* A parent that neither comes from send_uuid() nor goes there.
LEMMA MoveSending ==
  ASSUME SocketInv, NEW n \in Nodes, NEW p, NEW k, Moves(n, p, k),
         proc[n] \notin {"send", "dead"}, p # "send"
  PROVE  \A e \in Ends : /\ proc'[NodeOf(e)] # "dead" => proc[NodeOf(e)] # "dead"
                         /\ SendingFor(e)' <=> SendingFor(e)
<1> SUFFICES ASSUME NEW e \in Ends
             PROVE  /\ proc'[NodeOf(e)] # "dead" => proc[NodeOf(e)] # "dead"
                    /\ SendingFor(e)' <=> SendingFor(e)
  OBVIOUS
<1>1. NodeOf(e) \in Nodes
  BY EndParts
<1>2. CASE NodeOf(e) = n
  <2>1. proc'[n] = p
    BY DEF Moves, SocketInv, ParentTypes
  <2> QED
    BY <1>2, <2>1 DEF SendingFor, NodeOf
<1>3. CASE NodeOf(e) # n
  <2>1. proc'[NodeOf(e)] = proc[NodeOf(e)] /\ busy'[NodeOf(e)] = busy[NodeOf(e)]
    BY <1>1, <1>3 DEF Moves, SocketInv, ParentTypes
  <2> QED
    BY <2>1 DEF SendingFor, NodeOf
<1> QED
  BY <1>2, <1>3

\* A step that leaves the agent sockets, and all of a client but its age and
\* its host, alone.
LEMMA QuietStep ==
  ASSUME SocketInv, ParentTypes', BusyOK',
         UNCHANGED <<gen, sock, uuids, pool, children>>,
         reg' \subseteq reg, \A k \in reg : IsHost(k) \/ k \in reg',
         \A e \in Ends : /\ client'[e].here = client[e].here
                         /\ client'[e].num = client[e].num
                         /\ client'[e].joined = client[e].joined,
         \A e \in Ends : /\ proc'[NodeOf(e)] # "dead" => proc[NodeOf(e)] # "dead"
                         /\ SendingFor(e)' <=> SendingFor(e)
  PROVE  SocketInv'
<1>1. Steady
  BY DEF Steady
<1>2. ChildrenApart' /\ ForkedComplete'
  BY <1>1, SteadyChildren
<1>3. JoinedSocks'
  BY <1>1, SteadyJoined DEF SocketInv, JoinedSocks
<1>4. FreshSocks' /\ RegisteredSocks' /\ SentSocks'
  BY DEF SocketInv, FreshSocks, RegisteredSocks, SentSocks, IsHost, ClientEnd
<1>5. HostSeen' /\ SocksAlive'
  BY DEF SocketInv, HostSeen, SocksAlive, ClientEnd, HostSock, AgentSock
<1>6. ClientCount'
  <2> SUFFICES ASSUME NEW e \in Ends, ClientEnd(e), client'[e].here,
                      proc'[NodeOf(e)] # "dead"
               PROVE  client'[e].num
                        = Cardinality(Ready(e)') + (IF SendingFor(e)' THEN 1 ELSE 0)
    BY DEF ClientCount, ClientEnd, NodeOf
  <2>1. \A i \in 1..Allowed : AgentSock(e, i) \in reg' <=> AgentSock(e, i) \in reg
    BY OwnSocks DEF SocketInv, ParentTypes
  <2> QED
    BY <1>1, <2>1, SteadyCount
<1> QED
  BY <1>2, <1>3, <1>4, <1>5, <1>6 DEF SocketInv

\* Going to the head of the loop, into epoll_wait(), or into get_uuid().
LEMMA WaitingSteps ==
  ASSUME SocketInv, NEW n \in Nodes,
         \/ SweepDone(n) \/ DanglingEvent(n) \/ Idle(n)
         \/ \E k \in Sockets : Dst[k[1][1]] = n /\ AwaitUuid(k)
  PROVE  SocketInv'
<1> USE DEF netVars, ctlVars
<1>1. PICK p \in {"sweep", "wait", "recv", "dead", "undefined"}, k \in Sockets \cup {<<>>} :
        /\ Moves(n, p, k)
        /\ proc[n] \in {"sweep", "wait"}
        /\ p = "recv" => k \in pool /\ Dst[k[1][1]] = n
        /\ UNCHANGED <<client, netVars, ctlVars>>
  <2>1. CASE SweepDone(n)
    BY <2>1 DEF SweepDone, Becomes, Moves
  <2>2. CASE DanglingEvent(n)
    BY <2>2 DEF DanglingEvent, Becomes, Moves, Waits
  <2>3. CASE Idle(n)
    BY <2>3 DEF Idle, Becomes, Moves, Waits
  <2>4. ASSUME NEW k \in Sockets, Dst[k[1][1]] = n, AwaitUuid(k)
        PROVE  Moves(n, "recv", k) /\ proc[n] = "wait" /\ k \in pool
               /\ UNCHANGED <<client, netVars, ctlVars>>
    BY <2>4 DEF AwaitUuid, Spins, Moves, Waits
  <2> QED
    BY <2>1, <2>2, <2>3, <2>4
<1>2. ParentTypes'
  BY <1>1 DEF SocketInv, ParentTypes, Moves
<1>3. BusyOK'
  BY <1>1, <1>2, MoveBusy
<1>4. \A e \in Ends : /\ proc'[NodeOf(e)] # "dead" => proc[NodeOf(e)] # "dead"
                      /\ SendingFor(e)' <=> SendingFor(e)
  BY <1>1, MoveSending
<1> QED
  BY <1>1, <1>2, <1>3, <1>4, QuietStep

\* The host of a client has its event.
LEMMA HostConnectedStep ==
  ASSUME SocketInv, NEW e \in Ends, HandleHostConnected(e)
  PROVE  SocketInv'
<1> DEFINE n == NodeOf(e)
           p == IF HostSock(e) \in reg THEN "sweep" ELSE "dead"
<1>0. n \in Nodes /\ HostSock(e) \in Sockets /\ IsHost(HostSock(e))
  BY EndParts, OwnSocks DEF SocketInv, ParentTypes
<1>1. Moves(n, p, <<>>) /\ proc[n] = "wait" /\ p \in {"sweep", "dead"}
  BY DEF HandleHostConnected, Becomes, Moves, Waits
<1>2. \E c \in ClientRec :
        /\ client' = [client EXCEPT ![e] = c]
        /\ c.here = client[e].here /\ c.num = client[e].num
        /\ c.joined = client[e].joined
  <2> DEFINE off == [client[e] EXCEPT !.host = "OFF"]
             in  == [client[e] EXCEPT !.host = "IN"]
  <2>1. /\ off \in ClientRec /\ in \in ClientRec
        /\ off.here = client[e].here /\ off.num = client[e].num
        /\ off.joined = client[e].joined
        /\ in.here = client[e].here /\ in.num = client[e].num
        /\ in.joined = client[e].joined
    BY DEF SocketInv, ParentTypes, ClientRec
  <2>2. client' = [client EXCEPT ![e] = IF sock[HostSock(e)] = "refused" THEN WindBack(off)
                                        ELSE WindBackIfComplete(e, in)]
    BY DEF HandleHostConnected
  <2> HIDE DEF off, in
  <2> DEFINE c == IF sock[HostSock(e)] = "refused" THEN WindBack(off)
                  ELSE WindBackIfComplete(e, in)
  <2>3. c \in {off, WindBack(off), in, WindBack(in)}
    BY <2>1, ClientUpdates
  <2>4. \A d \in {off, in} : /\ WindBack(d) \in ClientRec
                             /\ WindBack(d).here = d.here /\ WindBack(d).num = d.num
                             /\ WindBack(d).joined = d.joined
    BY <2>1, ClientUpdates
  <2>5. /\ c \in ClientRec /\ c.here = client[e].here /\ c.num = client[e].num
        /\ c.joined = client[e].joined
    BY <2>1, <2>3, <2>4
  <2> QED
    BY <2>2, <2>5
<1>3. /\ UNCHANGED <<gen, sock, uuids, pool, children>>
      /\ reg' = reg \ {HostSock(e)}
  BY DEF HandleHostConnected, ctlVars
<1> HIDE DEF n, p
<1>4. ParentTypes'
  BY <1>0, <1>1, <1>2, <1>3 DEF SocketInv, ParentTypes, Moves
<1>5. \A d \in Ends : /\ client'[d].here = client[d].here
                      /\ client'[d].num = client[d].num
                      /\ client'[d].joined = client[d].joined
  BY <1>2 DEF SocketInv, ParentTypes
<1>6. BusyOK'
  BY <1>0, <1>1, <1>3, <1>4, <1>5, MoveBusy
<1>7. \A d \in Ends : /\ proc'[NodeOf(d)] # "dead" => proc[NodeOf(d)] # "dead"
                      /\ SendingFor(d)' <=> SendingFor(d)
  BY <1>0, <1>1, MoveSending
<1> QED
  BY <1>0, <1>3, <1>4, <1>5, <1>6, <1>7, QuietStep

\* Time passes, or nothing happens.
LEMMA TickStep ==
  ASSUME SocketInv, Tick \/ UNCHANGED vars
  PROVE  SocketInv'
<1> USE DEF netVars, ctlVars
<1>1. /\ client' \in [Ends -> ClientRec]
      /\ \A d \in Ends : /\ client'[d].here = client[d].here
                         /\ client'[d].num = client[d].num
                         /\ client'[d].joined = client[d].joined
  <2>1. CASE Tick
    <3>1. \A c \in ClientRec :
            /\ [c EXCEPT !.age = @ + 1] \in ClientRec
            /\ [c EXCEPT !.age = @ + 1].here = c.here
            /\ [c EXCEPT !.age = @ + 1].num = c.num
            /\ [c EXCEPT !.age = @ + 1].joined = c.joined
      BY DEF ClientRec
    <3>2. client' = [d \in Ends |-> IF client[d].here /\ client[d].age <= TIMEOUT
                                    THEN [client[d] EXCEPT !.age = @ + 1] ELSE client[d]]
      BY <2>1 DEF Tick
    <3> QED
      BY <3>1, <3>2 DEF SocketInv, ParentTypes
  <2>2. CASE UNCHANGED vars
    BY <2>2 DEF vars, SocketInv, ParentTypes
  <2> QED
    BY <2>1, <2>2
<1>2. UNCHANGED <<proc, busy, gen, sock, uuids, reg, pool, children>>
  BY DEF Tick, vars
<1>3. ParentTypes'
  BY <1>1, <1>2 DEF SocketInv, ParentTypes
<1>4. BusyOK'
  BY <1>1, <1>2 DEF SocketInv, BusyOK, AgentSock, ClientEnd, NodeOf
<1>5. \A d \in Ends : SendingFor(d)' <=> SendingFor(d)
  BY <1>2 DEF SendingFor, NodeOf
<1> QED
  BY <1>1, <1>2, <1>3, <1>4, <1>5, QuietStep

\* Socket k goes from "syn" or "up" to s.
Advances(k, s) ==
  /\ sock' = [sock EXCEPT ![k] = s]
  /\ \/ sock[k] = "syn" /\ s \in {"up", "refused"}
     \/ sock[k] = "up" /\ s = "refused" /\ IsHost(k)
     \/ sock[k] = "up" /\ s = "accepted"

\* A step that only advances a socket, and may put it into the pool.
LEMMA AdvanceStep ==
  ASSUME SocketInv, ParentTypes', BusyOK', NEW k \in Sockets, NEW s, Advances(k, s),
         UNCHANGED <<client, gen, uuids, reg, children>>,
         pool' = pool \/ (s = "accepted" /\ pool' = pool \cup {k}),
         \A e \in Ends : /\ proc'[NodeOf(e)] # "dead" => proc[NodeOf(e)] # "dead"
                         /\ SendingFor(e)' <=> SendingFor(e)
  PROVE  SocketInv'
<1>1. \A j \in Sockets : sock'[j] = IF j = k THEN s ELSE sock[j]
  BY DEF Advances, SocketInv, ParentTypes
<1>2. sock[k] \in {"syn", "up"} /\ s \in {"up", "refused", "accepted"}
  BY DEF Advances
<1>3. uuids[k] > 0 => s \in {"up", "accepted"}
  BY DEF Advances, SocketInv, SentSocks
<1>4. Steady
  BY <1>1, <1>2 DEF Steady, Advances
<1>5. ChildrenApart' /\ ForkedComplete'
  BY <1>4, SteadyChildren
<1>6. JoinedSocks'
  <2>1. \A j \in pool' : sock'[j] = "accepted"
    BY <1>1, <1>2 DEF SocketInv, JoinedSocks, ParentTypes
  <2> QED
    BY <1>4, <2>1, SteadyJoined
<1>7. FreshSocks' /\ RegisteredSocks' /\ SentSocks'
  <2>1. FreshSocks'
    BY <1>1, <1>2 DEF SocketInv, FreshSocks, IsHost
  <2>2. RegisteredSocks'
    BY <1>1, <1>2 DEF SocketInv, RegisteredSocks, ParentTypes, IsHost, ClientEnd, Alive
  <2>3. SentSocks'
    BY <1>1, <1>3 DEF SocketInv, SentSocks, IsHost
  <2> QED
    BY <2>1, <2>2, <2>3
<1>8. HostSeen'
  <2>1. \A e \in Ends : HostSock(e)' = HostSock(e) /\ HostSock(e) \in Sockets
    BY OwnSocks DEF HostSock, SocketInv, ParentTypes
  <2> QED
    BY <1>1, <1>2, <2>1 DEF SocketInv, HostSeen, ClientEnd
<1>9. SocksAlive'
  <2>1. \A e \in Ends, i \in 1..Allowed :
          AgentSock(e, i)' = AgentSock(e, i) /\ AgentSock(e, i) \in Sockets
    BY OwnSocks DEF AgentSock, SocketInv, ParentTypes
  <2> QED
    BY <1>1, <1>2, <2>1 DEF SocketInv, SocksAlive, ClientEnd, Alive
<1>10. ClientCount'
  <2> SUFFICES ASSUME NEW e \in Ends, ClientEnd(e), client'[e].here,
                      proc'[NodeOf(e)] # "dead"
               PROVE  client'[e].num
                        = Cardinality(Ready(e)') + (IF SendingFor(e)' THEN 1 ELSE 0)
    BY DEF ClientCount, ClientEnd, NodeOf
  <2> QED
    BY <1>4, SteadyCount
<1> QED
  BY <1>5, <1>6, <1>7, <1>8, <1>9, <1>10 DEF SocketInv

\* A connection is established, or fails.
LEMMA NetworkStep ==
  ASSUME SocketInv, NEW k \in Sockets, Establish(k) \/ Refuse(k)
  PROVE  SocketInv'
<1>1. PICK s \in {"up", "refused"} : Advances(k, s) /\ SockBecomes(k, s)
  BY DEF Establish, Refuse, SockBecomes, Advances
<1>2. UNCHANGED <<proc, busy, client, gen, uuids, reg, pool, children>>
  BY <1>1 DEF SockBecomes, ctlVars
<1>3. ParentTypes'
  BY <1>1, <1>2 DEF Advances, SocketInv, ParentTypes
<1>4. BusyOK'
  BY <1>2 DEF SocketInv, BusyOK, AgentSock, ClientEnd, NodeOf
<1>5. \A e \in Ends : SendingFor(e)' <=> SendingFor(e)
  BY <1>2 DEF SendingFor, NodeOf
<1> QED
  BY <1>1, <1>2, <1>3, <1>4, <1>5, AdvanceStep

\* A connection is accepted into the pool.
LEMMA AcceptStep ==
  ASSUME SocketInv, NEW k \in Sockets, AcceptAgentSide(k)
  PROVE  SocketInv'
<1> DEFINE n == Dst[k[1][1]]
<1>0. n \in Nodes
  BY SocketParts, EndParts, TunnelAssumption
<1>1. /\ Moves(n, "sweep", <<>>) /\ proc[n] = "wait"
      /\ Advances(k, "accepted")
      /\ pool' = pool \cup {k}
      /\ UNCHANGED <<client, gen, uuids, reg, children>>
  BY DEF AcceptAgentSide, Becomes, Moves, Waits, Advances, ctlVars
<1> HIDE DEF n
<1>2. ParentTypes'
  BY <1>0, <1>1 DEF Advances, Moves, SocketInv, ParentTypes
<1>3. BusyOK'
  BY <1>0, <1>1, <1>2, MoveBusy
<1>4. \A e \in Ends : /\ proc'[NodeOf(e)] # "dead" => proc[NodeOf(e)] # "dead"
                      /\ SendingFor(e)' <=> SendingFor(e)
  BY <1>0, <1>1, MoveSending
<1> QED
  BY <1>1, <1>2, <1>3, <1>4, AdvanceStep

(***************************************************************************)
(* The sockets of a CLIENT end send their uuid.                            *)
(***************************************************************************)

\* Ready depends on the agent sockets of the end alone.
LEMMA ReadyFinite ==
  ASSUME NEW e
  PROVE  IsFiniteSet(Ready(e)) /\ Cardinality(Ready(e)) \in Nat
<1>1. IsFiniteSet(1..Allowed)
  BY FS_Interval, NumberAssumption
<1>2. Ready(e) \subseteq 1..Allowed
  BY DEF Ready
<1> QED
  BY <1>1, <1>2, FS_Subset, FS_CardinalityType

\* A socket that has sent its uuid and left the event pool is ready.
LEMMA ReadyGains ==
  ASSUME SocketInv, NEW e \in Ends, ClientEnd(e), NEW i \in 1..Allowed,
         UNCHANGED <<gen, sock>>, AgentSock(e, i) \in reg,
         sock[AgentSock(e, i)] \in {"up", "accepted"},
         reg' = reg \ {AgentSock(e, i)},
         uuids' = [uuids EXCEPT ![AgentSock(e, i)] = @ + 1]
  PROVE  Cardinality(Ready(e)') = Cardinality(Ready(e)) + 1
<1> DEFINE k == AgentSock(e, i)
<1>1. /\ k \in Sockets /\ uuids[k] = 0
      /\ \A j \in 1..Allowed :
           /\ AgentSock(e, j) \in Sockets
           /\ j # i => AgentSock(e, j) # k
  BY OwnSocks DEF SocketInv, ParentTypes, RegisteredSocks
<1>2. k \in Sockets /\ uuids'[k] = 1 /\ k \notin reg' /\ sock'[k] \in {"up", "accepted"}
  BY <1>1 DEF SocketInv, ParentTypes
<1>3. \A j \in 1..Allowed : AgentSock(e, j)' = AgentSock(e, j)
  BY DEF AgentSock
<1>4. i \in Ready(e)' /\ i \notin Ready(e)
  BY <1>2, <1>3 DEF Ready, ReadySock
<1>5. ASSUME NEW j \in 1..Allowed, j # i PROVE j \in Ready(e)' <=> j \in Ready(e)
  <2> DEFINE s == AgentSock(e, j)
  <2>1. s \in Sockets /\ s # k
    BY <1>1, <1>5
  <2>2. (s \in reg' <=> s \in reg) /\ uuids'[s] = uuids[s] /\ sock'[s] = sock[s]
    BY <2>1 DEF SocketInv, ParentTypes
  <2>3. ReadySock(AgentSock(e, j))' <=> ReadySock(AgentSock(e, j))
    BY <1>3, <2>2 DEF ReadySock
  <2> QED
    BY <2>3 DEF Ready
<1>6. Ready(e)' = Ready(e) \cup {i}
  <2>1. Ready(e) \subseteq 1..Allowed /\ Ready(e)' \subseteq 1..Allowed
    BY DEF Ready
  <2> QED
    BY <1>4, <1>5, <2>1
<1> QED
  BY <1>4, <1>6, ReadyFinite, AddOne

\* A step that at most sends the uuid of one agent socket of end e and takes
\* the socket out of the event pool.
LEMMA SentStep ==
  ASSUME SocketInv, ParentTypes', BusyOK',
         NEW e \in Ends, ClientEnd(e), client[e].here, NEW i \in 1..Allowed,
         UNCHANGED <<gen, sock, pool, children>>,
         reg' = reg \/ reg' = reg \ {AgentSock(e, i)},
         \/ uuids' = uuids
         \/ /\ uuids' = [uuids EXCEPT ![AgentSock(e, i)] = @ + 1]
            /\ sock[AgentSock(e, i)] \in {"up", "accepted"}
            /\ reg' = reg \ {AgentSock(e, i)},
         \A d \in Ends : /\ client'[d].here = client[d].here
                         /\ client'[d].joined = client[d].joined
                         /\ d # e => client'[d].num = client[d].num,
         \A d \in Ends : d # e => /\ proc'[NodeOf(d)] # "dead" => proc[NodeOf(d)] # "dead"
                                  /\ SendingFor(d)' <=> SendingFor(d),
         proc'[NodeOf(e)] # "dead" =>
           client'[e].num = Cardinality(Ready(e)') + (IF SendingFor(e)' THEN 1 ELSE 0)
  PROVE  SocketInv'
<1> DEFINE k == AgentSock(e, i)
<1>1. /\ k \in Sockets /\ k[1] = e /\ ~IsHost(k)
      /\ \A s \in Sockets : /\ uuids[s] \in Nat
                            /\ s # k => uuids'[s] = uuids[s]
                            /\ uuids'[s] = uuids[s] \/ uuids'[s] = uuids[s] + 1
                            /\ uuids'[s] # uuids[s] =>
                                 s = k /\ sock[s] \in {"up", "accepted"} /\ s \notin reg'
  BY OwnSocks DEF SocketInv, ParentTypes
<1>2. reg' \subseteq reg /\ \A s \in reg : s # k => s \in reg'
  OBVIOUS
<1> HIDE DEF k
<1>3. Steady
  BY <1>1 DEF Steady
<1>4. ChildrenApart' /\ ForkedComplete'
  BY <1>3, SteadyChildren
<1>5. JoinedSocks'
  <2>1. \A d \in Ends : ~ClientEnd(d) => d # e
    OBVIOUS
  <2> QED
    BY <1>3, <2>1, SteadyJoined DEF SocketInv, JoinedSocks
<1>6. FreshSocks'
  <2> SUFFICES ASSUME NEW s \in Sockets, s[3] > gen[s[1]] PROVE uuids'[s] = 0
    BY DEF SocketInv, FreshSocks, IsHost
  <2> QED
    BY <1>1 DEF SocketInv, FreshSocks
<1>7. RegisteredSocks' /\ SentSocks'
  <2>1. RegisteredSocks'
    <3> SUFFICES ASSUME NEW s \in reg'
                 PROVE  /\ ~ClientEnd(s[1]) => IsHost(s)
                        /\ ~IsHost(s) => uuids'[s] = 0 /\ sock[s] \in Alive
      BY DEF RegisteredSocks, IsHost, ClientEnd
    <3>1. s \in reg /\ s \in Sockets
      BY <1>2 DEF SocketInv, ParentTypes
    <3>2. uuids'[s] = uuids[s]
      BY <1>1, <3>1
    <3> QED
      BY <3>1, <3>2 DEF SocketInv, RegisteredSocks
  <2>2. SentSocks'
    BY <1>1 DEF SocketInv, SentSocks, IsHost
  <2> QED
    BY <2>1, <2>2
<1>8. HostSeen' /\ SocksAlive'
  BY DEF SocketInv, HostSeen, SocksAlive, ClientEnd, HostSock, AgentSock
<1>9. ClientCount'
  <2> SUFFICES ASSUME NEW d \in Ends, ClientEnd(d), client'[d].here,
                      proc'[NodeOf(d)] # "dead", d # e
               PROVE  client'[d].num
                        = Cardinality(Ready(d)') + (IF SendingFor(d)' THEN 1 ELSE 0)
    BY DEF ClientCount, ClientEnd, NodeOf
  <2>1. \A j \in 1..Allowed : AgentSock(d, j) \in Sockets /\ AgentSock(d, j) # k
    BY <1>1, OwnSocks DEF SocketInv, ParentTypes
  <2>2. \A j \in 1..Allowed : /\ AgentSock(d, j) \in reg' <=> AgentSock(d, j) \in reg
                              /\ uuids'[AgentSock(d, j)] = uuids[AgentSock(d, j)]
    BY <1>1, <1>2, <2>1
  <2> QED
    BY <1>3, <2>2, SteadyCount
<1> QED
  BY <1>4, <1>5, <1>6, <1>7, <1>8, <1>9 DEF SocketInv

\* While its parent waits, a registered agent socket belongs to a CLIENT end
\* that has connected.
LEMMA WaitingSocks ==
  ASSUME SocketInv, NEW s \in reg, ~IsHost(s)
  PROVE  ClientEnd(s[1]) /\ gen[s[1]] > 0
<1>1. s \in Sockets /\ s[1] \in Ends /\ s[3] \in 0..MaxGen /\ gen[s[1]] \in 0..MaxGen
  BY SocketParts DEF SocketInv, ParentTypes
<1>2. ClientEnd(s[1]) /\ sock[s] # "none"
  BY DEF SocketInv, RegisteredSocks, Alive
<1>3. s[3] # 0 /\ ~(s[3] > gen[s[1]])
  BY <1>1, <1>2 DEF SocketInv, FreshSocks
<1> QED
  BY <1>1, <1>2, <1>3, NumberAssumption

\* What the other ends of a parent that goes to send_uuid(), or comes from it,
\* see of this.
LEMMA OthersSending ==
  ASSUME SocketInv, NEW e \in Ends, NEW p, NEW k, Moves(NodeOf(e), p, k),
         proc[NodeOf(e)] # "dead",
         proc[NodeOf(e)] = "send" => busy[NodeOf(e)][1] = e,
         p = "send" => k[1] = e
  PROVE  \A d \in Ends : d # e => /\ proc'[NodeOf(d)] # "dead" => proc[NodeOf(d)] # "dead"
                                  /\ SendingFor(d)' <=> SendingFor(d)
<1> SUFFICES ASSUME NEW d \in Ends, d # e
             PROVE  /\ proc'[NodeOf(d)] # "dead" => proc[NodeOf(d)] # "dead"
                    /\ SendingFor(d)' <=> SendingFor(d)
  OBVIOUS
<1>1. NodeOf(d) \in Nodes /\ NodeOf(e) \in Nodes
  BY EndParts
<1>2. CASE NodeOf(d) = NodeOf(e)
  <2>1. proc'[NodeOf(d)] = p /\ busy'[NodeOf(d)] = k
    BY <1>1, <1>2 DEF Moves, SocketInv, ParentTypes
  <2> QED
    BY <1>2, <2>1 DEF SendingFor, NodeOf
<1>3. CASE NodeOf(d) # NodeOf(e)
  <2>1. proc'[NodeOf(d)] = proc[NodeOf(d)] /\ busy'[NodeOf(d)] = busy[NodeOf(d)]
    BY <1>1, <1>3 DEF Moves, SocketInv, ParentTypes
  <2> QED
    BY <2>1 DEF SendingFor, NodeOf
<1> QED
  BY <1>2, <1>3

\* An agent socket of a CLIENT end has its event.
LEMMA AgentConnectedStep ==
  ASSUME SocketInv, NEW e \in Ends, NEW i \in 1..Allowed, AgentConnectedEvent(e, i)
  PROVE  SocketInv'
<1> DEFINE k == AgentSock(e, i)
           n == NodeOf(e)
           c == Counted(e, i)
<1>1. ClientEnd(e) /\ gen[e] > 0 /\ client[e].here /\ proc[n] = "wait" /\ n \in Nodes
  <2>1. PICK s \in reg : s[1] = e /\ s[2] = i /\ sock[s] # "syn"
    BY DEF AgentConnectedEvent
  <2>2. ~IsHost(s)
    BY <2>1, NumberAssumption DEF IsHost
  <2> QED
    BY <2>1, <2>2, WaitingSocks, EndParts DEF AgentConnectedEvent, Waits
<1>2. k \in Sockets /\ k[1] = e /\ sock[k] \in Alive
  BY <1>1, OwnSocks DEF SocketInv, ParentTypes, SocksAlive
<1>3. /\ c \in ClientRec /\ c.here = client[e].here /\ c.joined = client[e].joined
      /\ c.num = IF sock[k] = "refused" THEN client[e].num ELSE client[e].num + 1
  <2>1. client[e] \in ClientRec
    BY DEF SocketInv, ParentTypes
  <2>2. /\ c = IF sock[k] = "refused" THEN client[e] ELSE [client[e] EXCEPT !.num = @ + 1]
        /\ [client[e] EXCEPT !.num = @ + 1] \in ClientRec
        /\ [client[e] EXCEPT !.num = @ + 1].here = client[e].here
        /\ [client[e] EXCEPT !.num = @ + 1].joined = client[e].joined
        /\ [client[e] EXCEPT !.num = @ + 1].num = client[e].num + 1
    BY <2>1 DEF Counted, ClientRec
  <2> QED
    BY <2>1, <2>2
<1>4. UNCHANGED <<gen, sock, pool, children>>
  BY DEF AgentConnectedEvent, ctlVars
<1>5. client[e].num = Cardinality(Ready(e)) /\ Cardinality(Ready(e)) \in Nat
  BY <1>1, ReadyFinite DEF SocketInv, ClientCount, SendingFor
<1>6. CASE sock[k] = "syn"
  <2>1. /\ client' = [client EXCEPT ![e] = c] /\ Moves(n, "send", k)
        /\ reg' = reg /\ uuids' = uuids
    BY <1>6 DEF AgentConnectedEvent, Spins, Moves
  <2> HIDE DEF n, c
  <2>2. ParentTypes'
    BY <1>1, <1>2, <1>3, <1>4, <2>1 DEF SocketInv, ParentTypes, Moves
  <2>3. \A d \in Ends : /\ client'[d].here = client[d].here
                        /\ client'[d].joined = client[d].joined
                        /\ d # e => client'[d].num = client[d].num
    BY <1>3, <2>1 DEF SocketInv, ParentTypes
  <2>4. BusyOK'
    <3>1. k = AgentSock(e, i)' /\ n = NodeOf(e)
      BY <1>4 DEF AgentSock, n
    <3> HIDE DEF k
    <3>2. \E d \in Ends, j \in 1..Allowed :
            /\ k = AgentSock(d, j)'
            /\ ClientEnd(d) /\ NodeOf(d) = n /\ client'[d].here /\ gen'[d] > 0
      BY <1>1, <1>4, <2>3, <3>1
    <3> QED
      BY <1>1, <1>4, <2>1, <2>2, <2>3, <3>2, MoveBusy
  <2>5. \A d \in Ends : d # e => /\ proc'[NodeOf(d)] # "dead" => proc[NodeOf(d)] # "dead"
                                 /\ SendingFor(d)' <=> SendingFor(d)
    BY <1>1, <1>2, <2>1, OthersSending DEF n
  <2>6. client'[e].num = Cardinality(Ready(e)') + (IF SendingFor(e)' THEN 1 ELSE 0)
    <3>1. Ready(e)' = Ready(e)
      BY <1>4, <2>1 DEF Ready, ReadySock, AgentSock
    <3>2. SendingFor(e)'
      BY <1>1, <1>2, <2>1 DEF SendingFor, n, Moves, SocketInv, ParentTypes, NodeOf
    <3>3. client'[e].num = client[e].num + 1
      BY <1>3, <1>6, <2>1 DEF SocketInv, ParentTypes
    <3> QED
      BY <1>5, <3>1, <3>2, <3>3
  <2> QED
    BY <1>1, <1>4, <2>1, <2>2, <2>3, <2>4, <2>5, <2>6, SentStep
<1>7. CASE sock[k] # "syn"
  <2> DEFINE p == IF k \in reg THEN "sweep" ELSE "dead"
             w == WindBackIfComplete(e, c)
  <2>1. /\ client' = [client EXCEPT ![e] = w] /\ Moves(n, p, <<>>)
        /\ reg' = reg \ {k}
        /\ uuids' = IF sock[k] = "refused" THEN uuids ELSE [uuids EXCEPT ![k] = @ + 1]
    BY <1>2, <1>7 DEF AgentConnectedEvent, LeaveEventPool, Becomes, Moves
  <2>2. /\ w \in ClientRec /\ w.here = client[e].here /\ w.joined = client[e].joined
        /\ w.num = c.num
    BY <1>3, ClientUpdates
  <2>3. p \in {"sweep", "dead"} /\ (p # "dead" => k \in reg)
    OBVIOUS
  <2> HIDE DEF n, c, w, p
  <2>4. ParentTypes'
    BY <1>1, <1>2, <1>4, <2>1, <2>2, <2>3 DEF SocketInv, ParentTypes, Moves
  <2>5. \A d \in Ends : /\ client'[d].here = client[d].here
                        /\ client'[d].joined = client[d].joined
                        /\ d # e => client'[d].num = client[d].num
    BY <2>1, <2>2 DEF SocketInv, ParentTypes
  <2>6. BusyOK'
    BY <1>1, <1>4, <2>1, <2>3, <2>4, <2>5, MoveBusy
  <2>7. \A d \in Ends : d # e => /\ proc'[NodeOf(d)] # "dead" => proc[NodeOf(d)] # "dead"
                                 /\ SendingFor(d)' <=> SendingFor(d)
    BY <1>1, <2>1, <2>3, OthersSending DEF n
  <2>8. ASSUME proc'[NodeOf(e)] # "dead"
        PROVE  client'[e].num = Cardinality(Ready(e)') + (IF SendingFor(e)' THEN 1 ELSE 0)
    <3>1. proc'[NodeOf(e)] = p /\ p = "sweep" /\ k \in reg
      BY <1>1, <2>1, <2>3, <2>8 DEF n, Moves, SocketInv, ParentTypes
    <3>2. ~SendingFor(e)'
      BY <3>1 DEF SendingFor, NodeOf
    <3>3. client'[e].num = c.num
      BY <2>1, <2>2 DEF SocketInv, ParentTypes
    <3>4. CASE sock[k] = "refused"
      <4>1. \A j \in 1..Allowed : ReadySock(AgentSock(e, j))' <=> ReadySock(AgentSock(e, j))
        BY <1>4, <2>1, <3>4 DEF ReadySock, AgentSock
      <4>2. Ready(e)' = Ready(e)
        BY <4>1 DEF Ready
      <4> QED
        BY <1>3, <1>5, <3>2, <3>3, <3>4, <4>2
    <3>5. CASE sock[k] # "refused"
      <4>1. sock[k] \in {"up", "accepted"}
        BY <1>2, <1>7, <3>5 DEF Alive
      <4>2. Cardinality(Ready(e)') = Cardinality(Ready(e)) + 1
        BY <1>1, <1>4, <2>1, <3>1, <3>5, <4>1, ReadyGains
      <4> QED
        BY <1>3, <1>5, <3>2, <3>3, <3>5, <4>2
    <3> QED
      BY <3>4, <3>5
  <2>9. \/ uuids' = uuids
        \/ /\ uuids' = [uuids EXCEPT ![k] = @ + 1]
           /\ sock[k] \in {"up", "accepted"} /\ reg' = reg \ {k}
    BY <1>2, <1>7, <2>1 DEF Alive
  <2> QED
    BY <1>1, <1>4, <2>1, <2>4, <2>5, <2>6, <2>7, <2>8, <2>9, SentStep
<1> QED
  BY <1>6, <1>7

\* send_uuid() comes to its end.
LEMMA SendUuidStep ==
  ASSUME SocketInv, NEW n \in Nodes, SendUuid(n)
  PROVE  SocketInv'
<1>1. PICK e \in Ends, i \in 1..Allowed :
        /\ busy[n] = AgentSock(e, i)
        /\ ClientEnd(e) /\ NodeOf(e) = n /\ client[e].here /\ gen[e] > 0
  BY DEF SendUuid, SocketInv, BusyOK
<1> DEFINE k == AgentSock(e, i)
           w == IF sock[k] = "refused" THEN client[e] ELSE WindBackIfComplete(e, client[e])
           p == IF k \in reg /\ sock[k] # "refused" THEN "sweep" ELSE "dead"
<1>2. /\ proc[n] = "send" /\ sock[k] # "syn"
      /\ UNCHANGED <<gen, sock, pool, children>>
  BY <1>1 DEF SendUuid, ctlVars
<1>3. k \in Sockets /\ k[1] = e /\ sock[k] \in Alive
  BY <1>1, OwnSocks DEF SocketInv, ParentTypes, SocksAlive
<1>4. /\ client' = [client EXCEPT ![e] = w] /\ Moves(n, p, <<>>)
      /\ \/ sock[k] = "refused" /\ reg' = reg /\ uuids' = uuids
         \/ sock[k] # "refused" /\ reg' = reg \ {k} /\ uuids' = [uuids EXCEPT ![k] = @ + 1]
  <2>1. client \in [Ends -> ClientRec]
    BY DEF SocketInv, ParentTypes
  <2>2. CASE sock[k] = "refused"
    BY <1>1, <2>1, <2>2 DEF SendUuid, Becomes, Moves
  <2>3. CASE sock[k] # "refused"
    BY <1>1, <1>3, <2>3 DEF SendUuid, LeaveEventPool, Becomes, Moves
  <2> QED
    BY <2>2, <2>3
<1>5. /\ w \in ClientRec /\ w.here = client[e].here /\ w.joined = client[e].joined
      /\ w.num = client[e].num
  <2>1. client[e] \in ClientRec
    BY DEF SocketInv, ParentTypes
  <2> QED
    BY <2>1, ClientUpdates
<1>6. p \in {"sweep", "dead"} /\ (p # "dead" => k \in reg /\ sock[k] # "refused")
  OBVIOUS
<1>7. \/ uuids' = uuids
      \/ /\ uuids' = [uuids EXCEPT ![k] = @ + 1]
         /\ sock[k] \in {"up", "accepted"} /\ reg' = reg \ {k}
  BY <1>2, <1>3, <1>4 DEF Alive
<1>8. reg' = reg \/ reg' = reg \ {k}
  BY <1>4
<1> HIDE DEF w, p
<1>9. ParentTypes'
  <2> HIDE DEF k
  <2>1. uuids' \in [Sockets -> Nat] /\ reg' \subseteq Sockets
    <3>1. uuids \in [Sockets -> Nat] /\ reg \subseteq Sockets
      BY DEF SocketInv, ParentTypes
    <3>2. [uuids EXCEPT ![k] = @ + 1] \in [Sockets -> Nat]
      BY <1>3, <3>1
    <3> QED
      BY <1>7, <1>8, <3>1, <3>2
  <2>2. client' \in [Ends -> ClientRec]
    BY <1>4, <1>5 DEF SocketInv, ParentTypes
  <2> QED
    BY <1>2, <1>4, <1>6, <2>1, <2>2 DEF SocketInv, ParentTypes, Moves
<1>10. \A d \in Ends : /\ client'[d].here = client[d].here
                       /\ client'[d].joined = client[d].joined
                       /\ d # e => client'[d].num = client[d].num
  BY <1>4, <1>5 DEF SocketInv, ParentTypes
<1>11. BusyOK'
  BY <1>2, <1>4, <1>6, <1>9, <1>10, MoveBusy
<1>12. \A d \in Ends : d # e => /\ proc'[NodeOf(d)] # "dead" => proc[NodeOf(d)] # "dead"
                                /\ SendingFor(d)' <=> SendingFor(d)
  <2>1. /\ Moves(NodeOf(e), p, <<>>) /\ proc[NodeOf(e)] # "dead" /\ p # "send"
        /\ busy[NodeOf(e)][1] = e
    BY <1>1, <1>2, <1>3, <1>4, <1>6
  <2> QED
    BY <2>1, OthersSending
<1>13. ASSUME proc'[NodeOf(e)] # "dead"
       PROVE  client'[e].num = Cardinality(Ready(e)') + (IF SendingFor(e)' THEN 1 ELSE 0)
  <2>1. proc'[NodeOf(e)] = "sweep" /\ k \in reg /\ sock[k] # "refused"
    BY <1>1, <1>4, <1>6, <1>13 DEF Moves, SocketInv, ParentTypes
  <2>2. ~SendingFor(e)' /\ SendingFor(e)
    BY <1>1, <1>2, <1>3, <2>1 DEF SendingFor, NodeOf
  <2>3. client[e].num = Cardinality(Ready(e)) + 1
    BY <1>1, <1>2, <2>2 DEF SocketInv, ClientCount
  <2>4. client'[e].num = client[e].num
    BY <1>4, <1>5 DEF SocketInv, ParentTypes
  <2>5. Cardinality(Ready(e)') = Cardinality(Ready(e)) + 1
    BY <1>1, <1>2, <1>3, <1>4, <2>1, ReadyGains DEF Alive
  <2>6. Cardinality(Ready(e)') \in Nat
    BY <2>5, ReadyFinite
  <2> QED
    BY <2>2, <2>3, <2>4, <2>5, <2>6
<1> QED
  BY <1>1, <1>2, <1>7, <1>8, <1>9, <1>10, <1>11, <1>12, <1>13, SentStep

(***************************************************************************)
(* Steps that connect.                                                     *)
(***************************************************************************)

\* A step that connects the ends of S, from clients and sockets among which
\* the host of a CLIENT end may be new, and a member of an AGENT end.
LEMMA ConnectStep ==
  ASSUME SocketInv, ParentTypes', BusyOK',
         NEW S \in SUBSET Ends, NEW cl \in [Ends -> ClientRec],
         NEW sk \in [Sockets -> {"none", "syn", "up", "refused", "accepted", "closed"}],
         NEW rg \in SUBSET Sockets, Connect(S, cl, sk, rg),
         UNCHANGED <<uuids, children>>, pool' \subseteq pool,
         \A k \in Sockets :
           \/ sk[k] = sock[k]
           \/ IsHost(k) /\ k[3] = 0 /\ sock[k] = "none" /\ sk[k] = "up",
         reg \subseteq rg, \A k \in rg : k \in reg \/ (IsHost(k) /\ k[3] = 0),
         \A e \in Ends : ClientEnd(e) /\ cl[e].here =>
           \/ client[e].here /\ cl[e].num = client[e].num
           \/ sock[HostSock(e)] = "none" /\ sk[HostSock(e)] = "up" /\ cl[e].num = 0,
         \A e \in S : cl[e].here,
         \A e \in Ends : ~ClientEnd(e) =>
           /\ IsFiniteSet(cl[e].joined) /\ cl[e].num = Cardinality(cl[e].joined)
           /\ \A k \in cl[e].joined : sock[k] = "accepted" /\ uuids[k] > 0 /\ k \notin pool',
         \A e \in Ends : client[e].here => cl[e].here,
         \A e \in Ends : /\ proc'[NodeOf(e)] # "dead" => proc[NodeOf(e)] # "dead"
                         /\ \/ ~SendingFor(e) /\ ~SendingFor(e)'
                            \/ /\ SendingFor(e) /\ SendingFor(e)'
                               /\ cl[e] = client[e] /\ e \notin S
  PROVE  SocketInv'
<1>1. /\ reg' = rg \cup NewSocks(S)
      /\ \A e \in Ends :
           /\ gen'[e] = IF e \in S THEN gen[e] + 1 ELSE gen[e]
           /\ client'[e].here = cl[e].here /\ client'[e].joined = cl[e].joined
           /\ client'[e].num = IF e \in S /\ ClientEnd(e) THEN 0 ELSE cl[e].num
      /\ \A k \in Sockets : sock'[k] = IF k \in NewSocks(S) THEN "syn" ELSE sk[k]
  <2>1. ParentTypes
    BY DEF SocketInv
  <2>2. Connected(S, cl, sk, rg)
    BY <2>1, ConnectEffect, Zenon
  <2> QED
    BY <2>2 DEF Connected
<1>2. \A e \in Ends : gen[e] \in Nat /\ gen'[e] \in Nat /\ gen[e] \in 0..MaxGen
  BY NumberAssumption DEF SocketInv, ParentTypes
<1>3. \A k \in Sockets : k[1] \in Ends /\ k[3] \in Nat
  BY SocketParts, NumberAssumption
<1>4. ASSUME NEW k \in NewSocks(S)
      PROVE  /\ k \in Sockets /\ k[1] \in S /\ k[3] = gen'[k[1]] /\ k[3] > gen[k[1]]
             /\ k[3] # 0 /\ sock[k] = "none" /\ uuids[k] = 0
             /\ ClientEnd(k[1]) <=> ~IsHost(k)
  <2>1. /\ k \in Sockets /\ k[1] \in S /\ k[3] = gen[k[1]] + 1
        /\ ClientEnd(k[1]) <=> ~IsHost(k)
    BY DEF NewSocks
  <2>2. gen[k[1]] \in Nat
    BY <1>2, <2>1
  <2> QED
    BY <1>1, <2>1, <2>2 DEF SocketInv, FreshSocks
<1>5. \A k \in Sockets : sock[k] # "none" => sock'[k] = sock[k]
  BY <1>1, <1>4
<1>6. Steady
  <2>1. \A e \in Ends :
          ClientEnd(e) /\ client'[e].here => client[e].here \/ sock[HostSock(e)] = "none"
    BY <1>1
  <2> QED
    BY <1>5, <2>1 DEF Steady
<1>7. ChildrenApart' /\ ForkedComplete'
  BY <1>6, SteadyChildren
<1>8. JoinedSocks'
  <2>1. \A k \in pool' : sock'[k] = "accepted"
    BY <1>5 DEF SocketInv, JoinedSocks, ParentTypes
  <2>2. ASSUME NEW e \in Ends, ~ClientEnd(e)
        PROVE  /\ IsFiniteSet(client'[e].joined)
               /\ client'[e].num = Cardinality(client'[e].joined)
               /\ \A k \in client'[e].joined :
                    sock'[k] = "accepted" /\ uuids'[k] > 0 /\ k \notin pool'
    <3>1. client'[e].joined = cl[e].joined /\ client'[e].num = cl[e].num
      BY <1>1, <2>2
    <3>2. cl[e].joined \subseteq Sockets
      BY DEF ClientRec
    <3> QED
      BY <1>5, <2>2, <3>1, <3>2
  <2> QED
    BY <2>1, <2>2 DEF JoinedSocks, ClientEnd
<1>9. FreshSocks'
  <2> SUFFICES ASSUME NEW k \in Sockets
               PROVE  /\ k[3] > gen'[k[1]] => sock'[k] = "none" /\ uuids'[k] = 0
                      /\ ~IsHost(k) /\ k[3] = 0 => sock'[k] = "none"
    BY DEF FreshSocks, IsHost
  <2>1. ASSUME k[3] > gen'[k[1]] PROVE sock'[k] = "none" /\ uuids'[k] = 0
    <3>1. k[3] > gen[k[1]] /\ k[3] # 0
      BY <1>1, <1>2, <1>3, <2>1
    <3>2. k \notin NewSocks(S)
      BY <1>2, <1>3, <1>4, <2>1
    <3> QED
      BY <1>1, <3>1, <3>2 DEF SocketInv, FreshSocks
  <2>2. ASSUME ~IsHost(k), k[3] = 0 PROVE sock'[k] = "none"
    BY <1>1, <1>4, <2>2 DEF SocketInv, FreshSocks
  <2> QED
    BY <2>1, <2>2
<1>10. RegisteredSocks'
  <2> SUFFICES ASSUME NEW k \in reg'
               PROVE  /\ ~ClientEnd(k[1]) => IsHost(k)
                      /\ ~IsHost(k) => uuids'[k] = 0 /\ sock'[k] \in Alive
    BY DEF RegisteredSocks, IsHost, ClientEnd, Alive
  <2>1. CASE k \in NewSocks(S)
    BY <1>1, <1>4, <2>1 DEF Alive
  <2>2. CASE k \in reg /\ k \notin NewSocks(S)
    <3>1. k \in Sockets
      BY <2>2 DEF SocketInv, ParentTypes
    <3>2. ~IsHost(k) => sock'[k] = sock[k]
      BY <1>1, <2>2, <3>1
    <3> QED
      BY <2>2, <3>2 DEF SocketInv, RegisteredSocks
  <2>3. CASE k \notin reg /\ k \notin NewSocks(S)
    BY <1>1, <2>3
  <2> QED
    BY <2>1, <2>2, <2>3
<1>11. SentSocks'
  <2> SUFFICES ASSUME NEW k \in Sockets, uuids[k] > 0
               PROVE  ~IsHost(k) /\ sock'[k] \in {"up", "accepted"}
    BY DEF SentSocks, IsHost
  <2> QED
    BY <1>5 DEF SocketInv, SentSocks
<1>12. HostSeen'
  <2> SUFFICES ASSUME NEW e \in Ends, ClientEnd(e), sock'[HostSock(e)] = "none"
               PROVE  gen'[e] = 0 /\ ~client'[e].here /\ \A c \in children : c.end # e
    BY DEF HostSeen, ClientEnd, HostSock
  <2>1. HostSock(e) \in Sockets
    BY OwnSocks DEF SocketInv, ParentTypes
  <2>2. sk[HostSock(e)] = "none" /\ sock[HostSock(e)] = "none"
    BY <1>1, <1>5, <2>1
  <2>3. gen[e] = 0 /\ ~client[e].here /\ \A c \in children : c.end # e
    BY <2>2 DEF SocketInv, HostSeen
  <2>4. ~cl[e].here
    BY <2>2, <2>3
  <2> QED
    BY <1>1, <2>3, <2>4
<1>13. SocksAlive'
  <2> SUFFICES ASSUME NEW e \in Ends, NEW i \in 1..Allowed,
                      ClientEnd(e), client'[e].here, gen'[e] > 0
               PROVE  sock'[AgentSock(e, i)'] \in Alive
    BY DEF SocksAlive, ClientEnd, Alive, AgentSock
  <2>1. /\ AgentSock(e, i) \in Sockets
        /\ AgentSock(e, i)' \in Sockets /\ AgentSock(e, i)'[1] = e
        /\ AgentSock(e, i)'[3] = gen'[e] /\ AgentSock(e, i)'[2] = i
    <3>1. gen'[e] \in 0..MaxGen /\ i \in 0..Allowed
      BY NumberAssumption DEF SocketInv, ParentTypes
    <3> QED
      BY <3>1, OwnSocks, SocketParts DEF AgentSock, SocketInv, ParentTypes
  <2>2. CASE e \in S
    <3>1. AgentSock(e, i)' \in NewSocks(S)
      BY <1>1, <2>1, <2>2 DEF NewSocks, IsHost
    <3> QED
      BY <1>1, <2>1, <3>1 DEF Alive
  <2>3. CASE e \notin S
    <3>1. gen'[e] = gen[e] /\ AgentSock(e, i)' = AgentSock(e, i)
      BY <1>1, <2>3 DEF AgentSock
    <3>2. client[e].here
      BY <1>1, <3>1 DEF SocketInv, HostSeen
    <3>3. sock[AgentSock(e, i)] \in Alive
      BY <3>1, <3>2 DEF SocketInv, SocksAlive
    <3> QED
      BY <1>5, <2>1, <3>1, <3>3 DEF Alive
  <2> QED
    BY <2>2, <2>3
<1>14. ClientCount'
  <2> SUFFICES ASSUME NEW e \in Ends, ClientEnd(e), client'[e].here,
                      proc'[NodeOf(e)] # "dead"
               PROVE  client'[e].num
                        = Cardinality(Ready(e)') + (IF SendingFor(e)' THEN 1 ELSE 0)
    BY DEF ClientCount, ClientEnd, NodeOf
  <2>0. \A i \in 1..Allowed :
          /\ AgentSock(e, i) \in Sockets /\ ~IsHost(AgentSock(e, i))
          /\ AgentSock(e, i)[1] = e /\ AgentSock(e, i)[3] = gen[e]
    BY OwnSocks DEF SocketInv, ParentTypes
  <2>1. CASE e \in S
    <3>1. \A i \in 1..Allowed : AgentSock(e, i)' \in NewSocks(S)
      <4> SUFFICES ASSUME NEW i \in 1..Allowed PROVE AgentSock(e, i)' \in NewSocks(S)
        OBVIOUS
      <4>1. gen'[e] \in 0..MaxGen /\ i \in 0..Allowed /\ i # 0 /\ gen'[e] = gen[e] + 1
        BY <1>1, <2>1, NumberAssumption DEF SocketInv, ParentTypes
      <4> QED
        BY <2>1, <4>1, SocketParts DEF AgentSock, NewSocks, IsHost
    <3>2. Ready(e)' = {}
      BY <1>1, <3>1 DEF Ready, ReadySock
    <3> QED
      BY <1>1, <2>1, <3>2, FS_EmptySet
  <2>2. CASE e \notin S /\ client[e].here /\ cl[e].num = client[e].num
    <3>1. client'[e].num = client[e].num /\ gen'[e] = gen[e]
      BY <1>1, <2>2
    <3>2. \A i \in 1..Allowed :
            /\ AgentSock(e, i) \in reg' <=> AgentSock(e, i) \in reg
            /\ uuids'[AgentSock(e, i)] = uuids[AgentSock(e, i)]
      <4>1. \A i \in 1..Allowed : AgentSock(e, i) \notin NewSocks(S)
        BY <1>4, <2>0, <2>2
      <4> QED
        BY <1>1, <2>0, <4>1
    <3>3. /\ proc'[NodeOf(e)] # "dead" => proc[NodeOf(e)] # "dead"
          /\ SendingFor(e)' <=> SendingFor(e)
      OBVIOUS
    <3> QED
      BY <1>6, <2>2, <3>1, <3>2, <3>3, SteadyCount
  <2>3. CASE e \notin S /\ sock[HostSock(e)] = "none" /\ cl[e].num = 0
    <3>1. client'[e].num = 0 /\ gen'[e] = 0 /\ gen[e] = 0 /\ ~client[e].here
      BY <1>1, <2>3 DEF SocketInv, HostSeen
    <3>2. \A i \in 1..Allowed : AgentSock(e, i)' = AgentSock(e, i)
      BY <3>1 DEF AgentSock
    <3>3. \A i \in 1..Allowed : sock'[AgentSock(e, i)] = "none"
      <4> SUFFICES ASSUME NEW i \in 1..Allowed PROVE sock'[AgentSock(e, i)] = "none"
        OBVIOUS
      <4> DEFINE k == AgentSock(e, i)
      <4>1. k \in Sockets /\ ~IsHost(k) /\ k[3] = 0
        BY <2>0, <3>1
      <4> HIDE DEF k
      <4>2. sock[k] = "none" /\ k \notin NewSocks(S)
        BY <1>4, <4>1 DEF SocketInv, FreshSocks
      <4>3. sock'[k] = "none"
        BY <1>1, <4>1, <4>2
      <4> QED
        BY <4>3 DEF k
    <3>4. Ready(e)' = {}
      BY <3>2, <3>3 DEF Ready, ReadySock
    <3>5. ~SendingFor(e)'
      BY <2>3, <3>1, <1>1
    <3> QED
      BY <3>1, <3>4, <3>5, FS_EmptySet
  <2> QED
    BY <1>1, <2>1, <2>2, <2>3
<1> QED
  BY <1>7, <1>8, <1>9, <1>10, <1>11, <1>12, <1>13, <1>14 DEF SocketInv

\* Parent n connects, and goes back to the head of the loop.
LEMMA ConnectMoves ==
  ASSUME SocketInv, NEW n \in Nodes, Moves(n, "sweep", <<>>), proc[n] \notin {"send", "dead"},
         NEW S \in SUBSET Ends, NEW cl \in [Ends -> ClientRec],
         NEW sk \in [Sockets -> {"none", "syn", "up", "refused", "accepted", "closed"}],
         NEW rg \in SUBSET Sockets, Connect(S, cl, sk, rg),
         UNCHANGED <<uuids, children>>, pool' \subseteq pool,
         \A s \in pool : Dst[s[1][1]] # n => s \in pool',
         \A e \in Ends : NodeOf(e) # n => cl[e] = client[e] /\ e \notin S
  PROVE  /\ ParentTypes' /\ BusyOK'
         /\ \A e \in Ends :
              /\ proc'[NodeOf(e)] # "dead" => proc[NodeOf(e)] # "dead"
              /\ \/ ~SendingFor(e) /\ ~SendingFor(e)'
                 \/ /\ SendingFor(e) /\ SendingFor(e)'
                    /\ cl[e] = client[e] /\ e \notin S
<1>1. ParentTypes
  BY DEF SocketInv
<1>2. /\ client' \in [Ends -> ClientRec] /\ gen' \in [Ends -> 0..MaxGen]
      /\ sock' \in [Sockets -> {"none", "syn", "up", "refused", "accepted", "closed"}]
      /\ reg' \subseteq Sockets
      /\ Connected(S, cl, sk, rg)
  BY <1>1, ConnectEffect
<1>3. ParentTypes'
  BY <1>1, <1>2 DEF ParentTypes, Moves
<1>4. BusyOK'
  <2>1. \A e \in Ends : NodeOf(e) # n
          => gen'[e] = gen[e] /\ (client[e].here => client'[e].here)
    BY <1>2 DEF Connected
  <2> QED
    BY <1>3, <2>1, MoveBusy
<1>5. \A e \in Ends : /\ proc'[NodeOf(e)] # "dead" => proc[NodeOf(e)] # "dead"
                      /\ SendingFor(e)' <=> SendingFor(e)
  BY MoveSending
<1>6. \A e \in Ends : SendingFor(e) => NodeOf(e) # n
  BY DEF SendingFor
<1> QED
  BY <1>3, <1>4, <1>5, <1>6

\* A message of the controller connects the clients that have a request.
LEMMA ControllerMessageStep ==
  ASSUME SocketInv, NEW m \in Ends, ControllerMessage(m)
  PROVE  SocketInv'
<1> DEFINE n == NodeOf(m)
           S == {e \in EndsAt(n) : client[e].here /\ requests'[e] > 0}
<1>1. n \in Nodes /\ S \in SUBSET Ends /\ \A e \in Ends : NodeOf(e) # n => e \notin S
  BY EndParts DEF EndsAt
<1>2. /\ Moves(n, "sweep", <<>>) /\ proc[n] = "wait"
      /\ Connect(S, client, sock, reg)
      /\ UNCHANGED <<uuids, pool, children>>
  BY DEF ControllerMessage, Becomes, Moves, Waits
<1>3. \A e \in S : client[e].here
  OBVIOUS
<1> HIDE DEF n, S
<1>4. /\ client \in [Ends -> ClientRec] /\ reg \in SUBSET Sockets
      /\ sock \in [Sockets -> {"none", "syn", "up", "refused", "accepted", "closed"}]
  BY DEF SocketInv, ParentTypes
<1>5. /\ ParentTypes' /\ BusyOK'
      /\ \A e \in Ends :
           /\ proc'[NodeOf(e)] # "dead" => proc[NodeOf(e)] # "dead"
           /\ \/ ~SendingFor(e) /\ ~SendingFor(e)'
              \/ /\ SendingFor(e) /\ SendingFor(e)'
                 /\ client[e] = client[e] /\ e \notin S
  BY <1>1, <1>2, <1>4, ConnectMoves
<1>6. \A e \in Ends : ~ClientEnd(e) =>
        /\ IsFiniteSet(client[e].joined) /\ client[e].num = Cardinality(client[e].joined)
        /\ \A k \in client[e].joined : sock[k] = "accepted" /\ uuids[k] > 0 /\ k \notin pool'
  BY <1>2 DEF SocketInv, JoinedSocks
<1> QED
  BY <1>1, <1>2, <1>3, <1>4, <1>5, <1>6, ConnectStep

\* The host of a tunnel is accepted.
LEMMA HostSideStep ==
  ASSUME SocketInv, NEW t \in Tunnels, HandleHostSideConnect(t)
  PROVE  SocketInv'
<1> DEFINE e == <<t, "CLIENT">>
           n == Src[t]
           S == IF Requested(e) THEN {e} ELSE {}
           cl == [client EXCEPT ![e] = FreshClient]
           sk == [sock EXCEPT ![HostSock(e)] = "up"]
           rg == reg \cup {HostSock(e)}
<1>1. /\ e \in Ends /\ n \in Nodes /\ NodeOf(e) = n /\ ClientEnd(e)
      /\ HostSock(e) \in Sockets /\ HostSock(e)[3] = 0 /\ IsHost(HostSock(e))
  BY EndParts, OwnSocks DEF NodeOf, ClientEnd, HostSock, SocketInv, ParentTypes
<1>2. /\ Moves(n, "sweep", <<>>) /\ proc[n] = "wait" /\ sock[HostSock(e)] = "none"
      /\ Connect(S, cl, sk, rg)
      /\ UNCHANGED <<uuids, pool, children>>
  BY DEF HandleHostSideConnect, Becomes, Moves, Waits
<1>3. /\ cl \in [Ends -> ClientRec] /\ rg \in SUBSET Sockets
      /\ sk \in [Sockets -> {"none", "syn", "up", "refused", "accepted", "closed"}]
      /\ cl[e] = FreshClient /\ \A d \in Ends : d # e => cl[d] = client[d]
      /\ sk[HostSock(e)] = "up" /\ \A k \in Sockets : k # HostSock(e) => sk[k] = sock[k]
      /\ reg \subseteq rg /\ \A k \in rg : k \in reg \/ k = HostSock(e)
  BY <1>1, NoClientType DEF SocketInv, ParentTypes
<1>4. S \in SUBSET Ends /\ \A d \in S : d = e
  BY <1>1
<1>5. FreshClient.here = TRUE /\ FreshClient.num = 0
  BY DEF FreshClient, NoClient
<1> HIDE DEF e, n, S, cl, sk, rg
<1>6. /\ ParentTypes' /\ BusyOK'
      /\ \A d \in Ends :
           /\ proc'[NodeOf(d)] # "dead" => proc[NodeOf(d)] # "dead"
           /\ \/ ~SendingFor(d) /\ ~SendingFor(d)'
              \/ /\ SendingFor(d) /\ SendingFor(d)'
                 /\ cl[d] = client[d] /\ d \notin S
  <2>1. \A d \in Ends : NodeOf(d) # n => cl[d] = client[d] /\ d \notin S
    BY <1>1, <1>3, <1>4
  <2> QED
    BY <1>1, <1>2, <1>3, <1>4, <2>1, ConnectMoves
<1>7. \A k \in Sockets :
        \/ sk[k] = sock[k]
        \/ IsHost(k) /\ k[3] = 0 /\ sock[k] = "none" /\ sk[k] = "up"
  BY <1>1, <1>2, <1>3
<1>8. \A k \in rg : k \in reg \/ (IsHost(k) /\ k[3] = 0)
  BY <1>1, <1>3
<1>9. \A d \in Ends : ClientEnd(d) /\ cl[d].here =>
        \/ client[d].here /\ cl[d].num = client[d].num
        \/ sock[HostSock(d)] = "none" /\ sk[HostSock(d)] = "up" /\ cl[d].num = 0
  BY <1>2, <1>3, <1>5
<1>10. /\ \A d \in S : cl[d].here
       /\ \A d \in Ends : client[d].here => cl[d].here
  BY <1>3, <1>4, <1>5
<1>11. \A d \in Ends : ~ClientEnd(d) =>
         /\ IsFiniteSet(cl[d].joined) /\ cl[d].num = Cardinality(cl[d].joined)
         /\ \A k \in cl[d].joined : sock[k] = "accepted" /\ uuids[k] > 0 /\ k \notin pool'
  <2>1. \A d \in Ends : ~ClientEnd(d) => cl[d] = client[d]
    BY <1>1, <1>3
  <2> QED
    BY <1>2, <2>1 DEF SocketInv, JoinedSocks
<1>12. UNCHANGED <<uuids, children>> /\ pool' \subseteq pool /\ Connect(S, cl, sk, rg)
  BY <1>2
<1> QED
  BY <1>3, <1>4, <1>6, <1>7, <1>8, <1>9, <1>10, <1>11, <1>12, ConnectStep

\* A socket of the pool has its uuid and joins its AGENT end.
LEMMA ConfirmStep ==
  ASSUME SocketInv, NEW n \in Nodes, ConfirmClient(n)
  PROVE  SocketInv'
<1> DEFINE k == busy[n]
           e == <<k[1][1], "AGENT">>
           b == IF client[e].here THEN client[e] ELSE FreshClient
           c == [b EXCEPT !.num = @ + 1, !.joined = @ \cup {k}]
           w == WindBackIfComplete(e, c)
           S == IF client[e].here \/ ~Requested(e) THEN {} ELSE {e}
           cl == [client EXCEPT ![e] = w]
<1>1. proc[n] = "recv" /\ uuids[k] > 0 /\ k \in pool /\ Dst[k[1][1]] = n
  BY DEF ConfirmClient, SocketInv, BusyOK
<1>2. k \in Sockets /\ sock[k] = "accepted" /\ e \in Ends /\ ~ClientEnd(e) /\ NodeOf(e) = n
  <2>1. k \in Sockets /\ sock[k] = "accepted"
    BY <1>1 DEF SocketInv, ParentTypes, JoinedSocks
  <2>2. k[1][1] \in Tunnels
    BY <2>1, SocketParts, EndParts
  <2> QED
    BY <1>1, <2>1, <2>2, EndParts DEF ClientEnd, NodeOf
<1>3. /\ Moves(n, "sweep", <<>>)
      /\ Connect(S, cl, sock, reg)
      /\ pool' = pool \ {k}
      /\ UNCHANGED <<uuids, children>>
  BY DEF ConfirmClient, Becomes, Moves
<1>4. /\ b \in ClientRec /\ IsFiniteSet(b.joined) /\ b.num = Cardinality(b.joined)
      /\ \A s \in b.joined : sock[s] = "accepted" /\ uuids[s] > 0 /\ s \notin pool
  <2>1. CASE client[e].here
    BY <1>2, <2>1 DEF SocketInv, ParentTypes, JoinedSocks
  <2>2. CASE ~client[e].here
    <3>1. FreshClient.joined = {} /\ FreshClient.num = 0
      BY DEF FreshClient, NoClient
    <3> QED
      BY <2>2, <3>1, NoClientType, FS_EmptySet
  <2> QED
    BY <2>1, <2>2
<1>5. S \in SUBSET Ends /\ (\A d \in S : d = e) /\ (client[e].here => b.here)
      /\ b.here
  BY <1>2 DEF FreshClient, NoClient
<1> HIDE DEF k, b, S
<1>6. /\ c \in ClientRec /\ c.joined = b.joined \cup {k} /\ c.num = b.num + 1
      /\ c.here = b.here
  <2> HIDE DEF e, w, cl
  <2>1. b.num \in Nat /\ b.joined \subseteq Sockets /\ k \in Sockets
    BY <1>2, <1>4 DEF ClientRec
  <2> DEFINE d == [b EXCEPT !.num = @ + 1]
  <2>2. c \in ClientRec
    <3>1. d \in ClientRec /\ d.joined = b.joined
      BY <1>4, <2>1 DEF ClientRec
    <3>2. c = [d EXCEPT !.joined = @ \cup {k}]
      OBVIOUS
    <3> HIDE DEF c, d
    <3>3. [d EXCEPT !.joined = @ \cup {k}] \in ClientRec
      BY <2>1, <3>1 DEF ClientRec
    <3> QED
      BY <3>2, <3>3
  <2>3. c.joined = b.joined \cup {k} /\ c.num = b.num + 1 /\ c.here = b.here
    BY <1>4 DEF ClientRec
  <2> QED
    BY <2>2, <2>3
<1> HIDE DEF c, e
<1>7. w \in ClientRec /\ w.joined = b.joined \cup {k} /\ w.num = b.num + 1 /\ w.here = b.here
  BY <1>2, <1>6, ClientUpdates
<1> HIDE DEF w
<1>8. /\ cl \in [Ends -> ClientRec] /\ cl[e] = w /\ \A d \in Ends : d # e => cl[d] = client[d]
      /\ reg \in SUBSET Sockets
      /\ sock \in [Sockets -> {"none", "syn", "up", "refused", "accepted", "closed"}]
  BY <1>2, <1>7 DEF SocketInv, ParentTypes
<1> HIDE DEF cl
<1>9. /\ ParentTypes' /\ BusyOK'
      /\ \A d \in Ends :
           /\ proc'[NodeOf(d)] # "dead" => proc[NodeOf(d)] # "dead"
           /\ \/ ~SendingFor(d) /\ ~SendingFor(d)'
              \/ /\ SendingFor(d) /\ SendingFor(d)'
                 /\ cl[d] = client[d] /\ d \notin S
  <2>1. \A d \in Ends : NodeOf(d) # n => cl[d] = client[d] /\ d \notin S
    BY <1>2, <1>5, <1>8
  <2>2. proc[n] \notin {"send", "dead"} /\ pool' \subseteq pool
        /\ \A s \in pool : Dst[s[1][1]] # n => s \in pool'
    BY <1>1, <1>3
  <2> QED
    BY <1>3, <1>5, <1>8, <2>1, <2>2, ConnectMoves
<1>10. \A d \in Ends : ClientEnd(d) /\ cl[d].here =>
         \/ client[d].here /\ cl[d].num = client[d].num
         \/ sock[HostSock(d)] = "none" /\ sock[HostSock(d)] = "up" /\ cl[d].num = 0
  BY <1>2, <1>8
<1>11. /\ \A d \in S : cl[d].here
       /\ \A d \in Ends : client[d].here => cl[d].here
  BY <1>5, <1>7, <1>8
<1>12. \A d \in Ends : ~ClientEnd(d) =>
         /\ IsFiniteSet(cl[d].joined) /\ cl[d].num = Cardinality(cl[d].joined)
         /\ \A s \in cl[d].joined : sock[s] = "accepted" /\ uuids[s] > 0 /\ s \notin pool'
  <2>1. ASSUME NEW d \in Ends, ~ClientEnd(d), d # e
        PROVE  /\ IsFiniteSet(cl[d].joined) /\ cl[d].num = Cardinality(cl[d].joined)
               /\ \A s \in cl[d].joined :
                    sock[s] = "accepted" /\ uuids[s] > 0 /\ s \notin pool'
    BY <1>3, <1>8, <2>1 DEF SocketInv, JoinedSocks
  <2>2. /\ IsFiniteSet(w.joined) /\ w.num = Cardinality(w.joined)
        /\ \A s \in w.joined : sock[s] = "accepted" /\ uuids[s] > 0 /\ s \notin pool'
    <3>1. k \notin b.joined
      BY <1>1, <1>4
    <3>2. IsFiniteSet(b.joined \cup {k})
          /\ Cardinality(b.joined \cup {k}) = Cardinality(b.joined) + 1
      BY <1>4, <3>1, AddOne
    <3> QED
      BY <1>1, <1>2, <1>3, <1>4, <1>7, <3>2
  <2> QED
    BY <1>8, <2>1, <2>2
<1>13. UNCHANGED <<uuids, children>> /\ pool' \subseteq pool
  BY <1>3
<1> QED
  BY <1>3, <1>5, <1>8, <1>9, <1>10, <1>11, <1>12, <1>13, ConnectStep

(***************************************************************************)
(* The sweep.                                                              *)
(***************************************************************************)

\* What forgetting a client leaves alone; children, if any, are for its end.
LEMMA ForgetStep ==
  ASSUME SocketInv, ParentTypes', NEW e \in Ends, client[e].here, Forget(e),
         proc[NodeOf(e)] = "sweep", UNCHANGED <<proc, busy, gen, pool, uuids>>,
         \A k \in Sockets :
           sock'[k] = sock[k] \/ (k[1] = e /\ sock[k] = "syn" /\ sock'[k] = "closed"),
         \A c \in children' : c \in children \/ c.end = e
  PROVE  /\ FreshSocks' /\ RegisteredSocks' /\ SentSocks' /\ BusyOK' /\ HostSeen'
         /\ SocksAlive' /\ ClientCount' /\ JoinedSocks' /\ Steady
         /\ ~client'[e].here
<1>1. /\ client'[e] = NoClient /\ \A d \in Ends : d # e => client'[d] = client[d]
      /\ reg' = {k \in reg : k[1] # e}
      /\ ~NoClient.here /\ NoClient.joined = {} /\ NoClient.num = 0
  BY DEF Forget, Removed, NoClient, SocketInv, ParentTypes
<1>2. FreshSocks' /\ RegisteredSocks' /\ SentSocks'
  <2>1. FreshSocks'
    BY DEF SocketInv, FreshSocks, IsHost
  <2>2. RegisteredSocks'
    BY <1>1 DEF SocketInv, RegisteredSocks, ParentTypes, IsHost, ClientEnd, Alive
  <2>3. SentSocks'
    BY DEF SocketInv, SentSocks, IsHost
  <2> QED
    BY <2>1, <2>2, <2>3
<1>3. BusyOK'
  <2>1. ASSUME NEW n \in Nodes, proc[n] = "send"
        PROVE  \E d \in Ends, i \in 1..Allowed :
                 /\ busy[n] = AgentSock(d, i)'
                 /\ ClientEnd(d) /\ NodeOf(d) = n /\ client'[d].here /\ gen[d] > 0
    <3>1. PICK d \in Ends, i \in 1..Allowed :
            /\ busy[n] = AgentSock(d, i)
            /\ ClientEnd(d) /\ NodeOf(d) = n /\ client[d].here /\ gen[d] > 0
      BY <2>1 DEF SocketInv, BusyOK
    <3>2. d # e
      BY <2>1, <3>1
    <3>3. AgentSock(d, i)' = AgentSock(d, i) /\ client'[d].here
      BY <1>1, <3>1, <3>2 DEF AgentSock
    <3> QED
      BY <3>1, <3>3
  <2> QED
    BY <2>1 DEF SocketInv, BusyOK, ClientEnd, NodeOf
<1>4. HostSeen'
  <2> SUFFICES ASSUME NEW d \in Ends, ClientEnd(d), sock'[HostSock(d)] = "none"
               PROVE  gen[d] = 0 /\ ~client'[d].here /\ \A c \in children' : c.end # d
    BY DEF HostSeen, ClientEnd, HostSock
  <2>1. sock[HostSock(d)] = "none"
    BY OwnSocks DEF SocketInv, ParentTypes
  <2>2. d # e /\ gen[d] = 0 /\ ~client[d].here /\ \A c \in children : c.end # d
    BY <2>1 DEF SocketInv, HostSeen
  <2> QED
    BY <1>1, <2>2
<1>5. Steady
  BY <1>1 DEF Steady
<1>6. JoinedSocks'
  <2>1. \A k \in pool' : sock'[k] = "accepted"
    BY DEF SocketInv, JoinedSocks, ParentTypes
  <2> QED
    BY <1>1, <1>5, <2>1, SteadyJoined
<1>7. ASSUME NEW d \in Ends, ClientEnd(d), client'[d].here
      PROVE  /\ d # e /\ client[d].here
             /\ \A i \in 1..Allowed :
                  /\ AgentSock(d, i)' = AgentSock(d, i)
                  /\ sock'[AgentSock(d, i)] = sock[AgentSock(d, i)]
                  /\ AgentSock(d, i) \in reg' <=> AgentSock(d, i) \in reg
  <2>1. d # e /\ client[d].here
    BY <1>1, <1>7
  <2>2. \A i \in 1..Allowed : /\ AgentSock(d, i) \in Sockets /\ AgentSock(d, i)[1] # e
                              /\ AgentSock(d, i)' = AgentSock(d, i)
    BY <2>1, OwnSocks DEF AgentSock, SocketInv, ParentTypes
  <2> QED
    BY <1>1, <2>1, <2>2
<1>8. SocksAlive'
  BY <1>7 DEF SocketInv, SocksAlive, ClientEnd, Alive
<1>9. ClientCount'
  <2> SUFFICES ASSUME NEW d \in Ends, ClientEnd(d), client'[d].here,
                      proc'[NodeOf(d)] # "dead"
               PROVE  client'[d].num
                        = Cardinality(Ready(d)') + (IF SendingFor(d)' THEN 1 ELSE 0)
    BY DEF ClientCount, ClientEnd, NodeOf
  <2>1. client'[d].num = client[d].num /\ client[d].here
    BY <1>1, <1>7
  <2>2. SendingFor(d)' <=> SendingFor(d)
    BY DEF SendingFor, NodeOf
  <2> QED
    BY <1>5, <1>7, <2>1, <2>2, SteadyCount
<1> QED
  BY <1>1, <1>2, <1>3, <1>4, <1>5, <1>6, <1>8, <1>9

\* A client that is given up.
LEMMA GiveUpStep ==
  ASSUME SocketInv, NEW e \in Ends, GiveUp(e)
  PROVE  SocketInv'
<1>1. /\ client[e].here /\ proc[NodeOf(e)] = "sweep" /\ Forget(e)
      /\ UNCHANGED <<proc, busy, gen, pool, uuids, children>>
  BY DEF GiveUp, Expired
<1>2. /\ client' = [client EXCEPT ![e] = NoClient] /\ reg' \subseteq reg
      /\ sock' \in [Sockets -> {"none", "syn", "up", "refused", "accepted", "closed"}]
  BY DEF GiveUp, Forget, Removed, SocketInv, ParentTypes
<1>3. ParentTypes'
  BY <1>1, <1>2, NoClientType DEF SocketInv, ParentTypes
<1>4. ASSUME NEW k \in DataSocks(e), sock[k] = "syn" PROVE k[1] = e
  <2>1. k \notin client[e].joined \/ ClientEnd(e)
    BY <1>4 DEF SocketInv, JoinedSocks
  <2> QED
    BY <2>1, OwnSocks DEF DataSocks, AgentSocks, HostSock, AgentSock, ClientEnd
<1>5. \A k \in Sockets :
        sock'[k] = sock[k] \/ (k[1] = e /\ sock[k] = "syn" /\ sock'[k] = "closed")
  BY <1>4 DEF GiveUp
<1>6. /\ FreshSocks' /\ RegisteredSocks' /\ SentSocks' /\ BusyOK' /\ HostSeen'
      /\ SocksAlive' /\ ClientCount' /\ JoinedSocks' /\ Steady
  BY <1>1, <1>3, <1>5, ForgetStep
<1>7. ChildrenApart' /\ ForkedComplete'
  BY <1>1, <1>3, <1>6, SteadyChildren
<1> QED
  BY <1>3, <1>6, <1>7 DEF SocketInv

\* The sockets a child is forked with.
LEMMA ForkedSocks ==
  ASSUME SocketInv, NEW e \in Ends, client[e].here, proc[NodeOf(e)] = "sweep",
         client[e].num = Allowed
  PROVE  /\ Cardinality(AgentSocks(e)) = Allowed /\ AgentSocks(e) \subseteq Sockets
         /\ \A k \in AgentSocks(e) :
              /\ sock[k] \in {"up", "accepted"}
              /\ ClientEnd(e) => uuids[k] = 1 /\ k[1] = e /\ ~IsHost(k) /\ k \notin reg
              /\ ~ClientEnd(e) => sock[k] = "accepted" /\ uuids[k] > 0 /\ k \notin pool
<1>1. CASE ClientEnd(e)
  <2>1. AgentSocks(e) = {AgentSock(e, i) : i \in 1..Allowed}
    BY <1>1 DEF AgentSocks, ClientEnd
  <2>2. Cardinality(Ready(e)) = Allowed
    BY <1>1, ReadyFinite DEF SocketInv, ClientCount, SendingFor
  <2>3. Ready(e) = 1..Allowed
    <3>1. IsFiniteSet(1..Allowed) /\ Cardinality(1..Allowed) = Allowed
      BY FS_Interval, NumberAssumption
    <3>2. Ready(e) \in SUBSET (1..Allowed)
      BY DEF Ready
    <3> QED
      BY <2>2, <3>1, <3>2, FS_Subset
  <2>4. \A i \in 1..Allowed :
          /\ ReadySock(AgentSock(e, i))
          /\ AgentSock(e, i) \in Sockets
          /\ AgentSock(e, i)[1] = e /\ AgentSock(e, i)[2] = i /\ ~IsHost(AgentSock(e, i))
    BY <2>3, OwnSocks DEF Ready, SocketInv, ParentTypes
  <2>5. Cardinality(AgentSocks(e)) = Allowed
    <3> DEFINE f == [i \in 1..Allowed |-> AgentSock(e, i)]
    <3>1. f \in Injection(1..Allowed, AgentSocks(e))
      BY <2>1, <2>4 DEF Injection, IsInjective
    <3>2. f \in Surjection(1..Allowed, AgentSocks(e))
      BY <2>1 DEF Surjection
    <3>3. ExistsBijection(1..Allowed, AgentSocks(e))
      BY <3>1, <3>2 DEF ExistsBijection, Bijection
    <3> QED
      BY <3>3, FS_CountingElements, NumberAssumption
  <2> QED
    BY <1>1, <2>1, <2>4, <2>5 DEF ReadySock
<1>2. CASE ~ClientEnd(e)
  <2>1. AgentSocks(e) = client[e].joined
    BY <1>2 DEF AgentSocks, ClientEnd
  <2>2. client[e].joined \subseteq Sockets
    BY DEF SocketInv, ParentTypes, ClientRec
  <2> QED
    BY <1>2, <2>1, <2>2 DEF SocketInv, JoinedSocks
<1> QED
  BY <1>1, <1>2

\* A client that is complete.
LEMMA ForkStep ==
  ASSUME SocketInv, NEW e \in Ends, Fork(e)
  PROVE  SocketInv'
<1> DEFINE c == [end |-> e, socks |-> AgentSocks(e)]
<1>1. /\ client[e].here /\ proc[NodeOf(e)] = "sweep" /\ Forget(e)
      /\ client[e].num = Allowed
      /\ UNCHANGED <<proc, busy, gen, pool, uuids, sock>>
      /\ children' = children \cup {c}
  BY DEF Fork, Expired, Complete
<1>2. client' = [client EXCEPT ![e] = NoClient] /\ reg' \subseteq reg
  BY <1>1 DEF Forget, Removed
<1>3. /\ Cardinality(c.socks) = Allowed /\ c.socks \subseteq Sockets /\ c.end = e
      /\ \A k \in c.socks :
           /\ sock[k] \in {"up", "accepted"}
           /\ ClientEnd(e) => uuids[k] = 1 /\ k[1] = e /\ ~IsHost(k)
           /\ ~ClientEnd(e) => sock[k] = "accepted" /\ uuids[k] > 0 /\ k \notin pool
  BY <1>1, ForkedSocks
<1>4. c \in [end : Ends, socks : SUBSET Sockets]
  BY <1>3
<1> HIDE DEF c
<1>5. ParentTypes'
  BY <1>1, <1>2, <1>4, NoClientType DEF SocketInv, ParentTypes
<1>6. \A d \in children' : d \in children \/ d.end = e
  BY <1>1, <1>3
<1>7. /\ FreshSocks' /\ RegisteredSocks' /\ SentSocks' /\ BusyOK' /\ HostSeen'
      /\ SocksAlive' /\ ClientCount' /\ JoinedSocks' /\ Steady /\ ~client'[e].here
  BY <1>1, <1>5, <1>6, ForgetStep
<1>8. ChildrenApart'
  <2> SUFFICES ASSUME NEW d \in children', ClientEnd(d.end)
               PROVE  /\ ~client'[d.end].here
                      /\ \A k \in d.socks : k[1] = d.end /\ ~IsHost(k)
    BY DEF ChildrenApart, ClientEnd, IsHost
  <2>1. CASE d = c
    BY <1>3, <1>7, <2>1
  <2>2. CASE d \in children
    <3>1. d.end \in Ends /\ ~client[d.end].here /\ d.end # e
      BY <1>1, <2>2 DEF SocketInv, ChildrenApart, ParentTypes
    <3>2. client'[d.end] = client[d.end]
      BY <1>2, <3>1 DEF SocketInv, ParentTypes
    <3> QED
      BY <2>2, <3>1, <3>2 DEF SocketInv, ChildrenApart
  <2> QED
    BY <1>1, <2>1, <2>2
<1>9. ForkedComplete'
  <2> SUFFICES ASSUME NEW d \in children'
               PROVE  /\ Cardinality(d.socks) = Allowed
                      /\ \A k \in d.socks :
                           /\ sock[k] \in {"up", "accepted"}
                           /\ IF ClientEnd(d.end) THEN uuids[k] = 1
                              ELSE sock[k] = "accepted" /\ uuids[k] > 0 /\ k \notin pool
    BY <1>1 DEF ForkedComplete, ClientEnd
  <2>1. CASE d = c
    BY <1>3, <2>1
  <2>2. CASE d \in children
    BY <2>2 DEF SocketInv, ForkedComplete, ClientEnd
  <2> QED
    BY <1>1, <2>1, <2>2
<1> QED
  BY <1>5, <1>7, <1>8, <1>9 DEF SocketInv

(***************************************************************************)
(* The invariant.                                                          *)
(***************************************************************************)
LEMMA SocketInit == Init => SocketInv
<1> SUFFICES ASSUME Init PROVE SocketInv
  OBVIOUS
<1>1. 0 \in 0..MaxGen
  BY NumberAssumption
<1>2. ~NoClient.here /\ NoClient.joined = {} /\ NoClient.num = 0
  BY DEF NoClient
<1>3. ParentTypes
  BY <1>1, NoClientType DEF Init, ParentTypes
<1>4. FreshSocks /\ RegisteredSocks /\ SentSocks /\ BusyOK /\ ChildrenApart /\ ForkedComplete
  BY DEF Init, FreshSocks, RegisteredSocks, SentSocks, BusyOK, ChildrenApart, ForkedComplete
<1>5. HostSeen /\ SocksAlive /\ ClientCount
  BY <1>2 DEF Init, HostSeen, SocksAlive, ClientCount
<1>6. JoinedSocks
  BY <1>2, FS_EmptySet DEF Init, JoinedSocks
<1> QED
  BY <1>3, <1>4, <1>5, <1>6 DEF SocketInv

\* Every step keeps the sockets, clients and children right.
LEMMA SocketStep == SocketInv /\ [Next]_vars => SocketInv'
<1> SUFFICES ASSUME SocketInv, [Next]_vars PROVE SocketInv'
  OBVIOUS
<1>1. ASSUME NEW n \in Nodes, Step(n) PROVE SocketInv'
  <2>1. EndsAt(n) \subseteq Ends
    BY DEF EndsAt
  <2>2. ASSUME NEW e \in EndsAt(n), Fork(e) PROVE SocketInv'
    BY <2>1, <2>2, ForkStep
  <2>3. ASSUME NEW e \in EndsAt(n), GiveUp(e) PROVE SocketInv'
    BY <2>1, <2>3, GiveUpStep
  <2>4. ASSUME NEW e \in EndsAt(n), ControllerMessage(e) PROVE SocketInv'
    BY <2>1, <2>4, ControllerMessageStep
  <2>5. ASSUME NEW e \in EndsAt(n), HandleHostConnected(e) PROVE SocketInv'
    BY <2>1, <2>5, HostConnectedStep
  <2>6. ASSUME NEW e \in EndsAt(n), NEW i \in 1..Allowed, AgentConnectedEvent(e, i)
        PROVE  SocketInv'
    BY <2>1, <2>6, AgentConnectedStep
  <2>7. ASSUME NEW t \in Tunnels, HandleHostSideConnect(t) PROVE SocketInv'
    BY <2>7, HostSideStep
  <2>8. ASSUME NEW k \in Sockets, AcceptAgentSide(k) PROVE SocketInv'
    BY <2>8, AcceptStep
  <2>9. ASSUME NEW k \in Sockets, Dst[k[1][1]] = n, AwaitUuid(k) PROVE SocketInv'
    BY <2>9, WaitingSteps
  <2>10. CASE SweepDone(n) \/ DanglingEvent(n) \/ Idle(n)
    BY <2>10, WaitingSteps
  <2>11. CASE SendUuid(n)
    BY <2>11, SendUuidStep
  <2>12. CASE ConfirmClient(n)
    BY <2>12, ConfirmStep
  <2> QED
    BY <1>1, <2>2, <2>3, <2>4, <2>5, <2>6, <2>7, <2>8, <2>9, <2>10, <2>11, <2>12 DEF Step
<1>2. ASSUME NEW k \in Sockets, Establish(k) \/ Refuse(k) PROVE SocketInv'
  BY <1>2, NetworkStep
<1>3. CASE Tick \/ UNCHANGED vars
  BY <1>3, TickStep
<1> QED
  BY <1>1, <1>2, <1>3 DEF Next

\* Whatever the network does to datagrams and connections, a child serves
\* allowed_connections sockets, all of them connected and known by their uuid,
\* which a CLIENT end has sent exactly once on each.
THEOREM ForkedAreComplete == Spec => []ForkedComplete
BY SocketInit, SocketStep, PTL DEF Spec, SocketInv

(***************************************************************************)
(* Parents that serve one end each: why the children of a tunnel have the  *)
(* same connections, and a fork leaves no socket behind.                   *)
(***************************************************************************)

\* Which sockets there are, for any parents.  AGENT ends connect their host only, one
\* for each generation; the sockets that join one are of the CLIENT end of its tunnel; a
\* host that is there has left the event pool.
SocketsKnown ==
  /\ \A k \in Sockets : ~IsHost(k) /\ ~ClientEnd(k[1]) => sock[k] = "none"
  /\ \A k \in reg \cup dangling :
       k \in Sockets /\ k[3] <= gen[k[1]] /\ (k[3] = 0 <=> ClientEnd(k[1]) /\ IsHost(k))
  /\ \A e \in Ends : client[e].here /\ client[e].host = "IN" => HostSock(e) \notin reg
  /\ \A e \in Ends : ~ClientEnd(e) => \A k \in client[e].joined : k[1][1] = e[1]
  /\ \A c \in children : ~ClientEnd(c.end) => \A k \in c.socks : k[1][1] = c.end[1]

\* End e will not be forked for, or connect, any more.
Settled(e) ==
  IF ClientEnd(e) THEN ~client[e].here /\ sock[HostSock(e)] # "none"
  ELSE requests[e] = 0 /\ inbox[e] = 0

\* An end connects once: when it has, its message is not under way any more, and the
\* request is in use.
OnceConnected ==
  \A e \in Ends :
    gen[e] > 0 => gen[e] = 1 /\ inbox[e] = 0 /\ (requests[e] = 0 \/ client[e].here)

\* What is left behind belongs to an end that is settled, and has no child.
LeftBehind ==
  /\ \A k \in dangling : k[1] \in Ends /\ Settled(k[1])
  /\ \A c \in children : Settled(c.end)
  /\ ForkedLeavesNothing

OnceInv == SocketInv /\ LedgerInv /\ SocketsKnown /\ OnceConnected /\ LeftBehind

\* No parent serves two ends.
OneEndEach == \A d, e \in Ends : NodeOf(d) = NodeOf(e) => d = e

\* What most steps do to that: sockets go on, and leave the event pool.
Plain ==
  /\ UNCHANGED <<gen, dangling, Ledger>> /\ reg' \subseteq reg
  /\ \A k \in Sockets : sock'[k] = "none" <=> sock[k] = "none"
  /\ \A e \in Ends :
       /\ client'[e].here = client[e].here /\ client'[e].joined = client[e].joined
       /\ client'[e].host = "IN" => client[e].host = "IN" \/ HostSock(e) \notin reg'

\* Counting a connection and looking at the client change neither its host nor what
\* has joined it.
LEMMA SameClient ==
  ASSUME SocketInv, NEW e \in Ends, NEW c \in ClientRec,
         c.here = client[e].here, c.joined = client[e].joined, c.host = client[e].host,
         \/ client' = [client EXCEPT ![e] = c]
         \/ client' = [client EXCEPT ![e] = WindBackIfComplete(e, c)]
  PROVE  \A d \in Ends : /\ client'[d].here = client[d].here
                         /\ client'[d].joined = client[d].joined
                         /\ client'[d].host = client[d].host
<1>1. WindBackIfComplete(e, c) \in {c, WindBack(c)}
  BY ClientUpdates
<1>2. /\ WindBack(c).here = c.here /\ WindBack(c).joined = c.joined
      /\ WindBack(c).host = c.host
  BY ClientUpdates
<1>3. \E w \in {c, WindBack(c)} : client' = [client EXCEPT ![e] = w]
  BY <1>1
<1> QED
  BY <1>2, <1>3 DEF SocketInv, ParentTypes

\* The events of sockets.
LEMMA PlainEvents ==
  ASSUME SocketInv,
         \/ \E e \in Ends : \/ HandleHostConnected(e)
                            \/ \E i \in 1..Allowed : AgentConnectedEvent(e, i)
         \/ \E n \in Nodes : SendUuid(n)
  PROVE  Plain
<1>1. ASSUME NEW e \in Ends, HandleHostConnected(e) PROVE Plain
  <2> DEFINE off == [client[e] EXCEPT !.host = "OFF"]
             in  == [client[e] EXCEPT !.host = "IN"]
  <2>1. /\ off \in ClientRec /\ in \in ClientRec
        /\ off.here = client[e].here /\ off.joined = client[e].joined
        /\ in.here = client[e].here /\ in.joined = client[e].joined
    BY DEF SocketInv, ParentTypes, ClientRec
  <2>2. client' = [client EXCEPT ![e] = IF sock[HostSock(e)] = "refused" THEN WindBack(off)
                                        ELSE WindBackIfComplete(e, in)]
    BY <1>1 DEF HandleHostConnected
  <2> HIDE DEF off, in
  <2>3. \E c \in {off, WindBack(off), in, WindBack(in)} : client' = [client EXCEPT ![e] = c]
    BY <2>1, <2>2, ClientUpdates
  <2>4. \A c \in {off, WindBack(off), in, WindBack(in)} :
          c.here = client[e].here /\ c.joined = client[e].joined
    BY <2>1, ClientUpdates
  <2>5. \A d \in Ends : /\ client'[d].here = client[d].here
                        /\ client'[d].joined = client[d].joined
                        /\ d # e => client'[d] = client[d]
    BY <2>3, <2>4 DEF SocketInv, ParentTypes
  <2>6. /\ UNCHANGED <<gen, sock, dangling, inbox, requests, children>>
        /\ reg' = reg \ {HostSock(e)}
    BY <1>1 DEF HandleHostConnected, ctlVars
  <2> QED
    BY <2>5, <2>6 DEF Plain, Ledger
<1>2. ASSUME NEW e \in Ends, NEW i \in 1..Allowed, AgentConnectedEvent(e, i) PROVE Plain
  <2> DEFINE k == AgentSock(e, i)
             c == Counted(e, i)
  <2>1. k[1] = e
    BY OwnSocks DEF SocketInv, ParentTypes
  <2>2. /\ c \in ClientRec /\ c.here = client[e].here /\ c.joined = client[e].joined
        /\ c.host = client[e].host
    <3>1. client[e] \in ClientRec
      BY DEF SocketInv, ParentTypes
    <3>2. /\ [client[e] EXCEPT !.num = @ + 1] \in ClientRec
          /\ [client[e] EXCEPT !.num = @ + 1].here = client[e].here
          /\ [client[e] EXCEPT !.num = @ + 1].joined = client[e].joined
          /\ [client[e] EXCEPT !.num = @ + 1].host = client[e].host
      BY <3>1 DEF ClientRec
    <3>3. c = IF sock[k] = "refused" THEN client[e] ELSE [client[e] EXCEPT !.num = @ + 1]
      BY DEF Counted
    <3> QED
      BY <3>1, <3>2, <3>3
  <2>3. /\ \/ client' = [client EXCEPT ![e] = c]
           \/ client' = [client EXCEPT ![e] = WindBackIfComplete(e, c)]
        /\ reg' \subseteq reg
    BY <1>2, <2>1 DEF AgentConnectedEvent, LeaveEventPool
  <2>4. UNCHANGED <<gen, sock, dangling, inbox, requests, children>>
    BY <1>2 DEF AgentConnectedEvent, ctlVars
  <2> HIDE DEF c, k
  <2>5. \A d \in Ends : /\ client'[d].here = client[d].here
                        /\ client'[d].joined = client[d].joined
                        /\ client'[d].host = client[d].host
    BY <2>2, <2>3, SameClient
  <2> QED
    BY <2>3, <2>4, <2>5 DEF Plain, Ledger
<1>3. ASSUME NEW n \in Nodes, SendUuid(n) PROVE Plain
  <2> DEFINE k == busy[n]
  <2>1. k[1] \in Ends
    BY <1>3, OwnSocks DEF SendUuid, SocketInv, BusyOK, ParentTypes
  <2>2. /\ \/ client' = client
           \/ client' = [client EXCEPT ![k[1]] = WindBackIfComplete(k[1], client[k[1]])]
        /\ reg' \subseteq reg
    BY <1>3 DEF SendUuid, LeaveEventPool
  <2>3. UNCHANGED <<gen, sock, dangling, inbox, requests, children>>
    BY <1>3 DEF SendUuid, ctlVars
  <2> HIDE DEF k
  <2>4. client[k[1]] \in ClientRec
    BY <2>1 DEF SocketInv, ParentTypes
  <2>5. \A d \in Ends : /\ client'[d].here = client[d].here
                        /\ client'[d].joined = client[d].joined
                        /\ client'[d].host = client[d].host
    BY <2>1, <2>2, <2>4, SameClient
  <2> QED
    BY <2>2, <2>3, <2>5 DEF Plain, Ledger
<1> QED
  BY <1>1, <1>2, <1>3

\* The steps of the network, of the clock, and of a parent that only waits.
LEMMA PlainOthers ==
  ASSUME SocketInv,
         \/ \E k \in Sockets : AcceptAgentSide(k) \/ AwaitUuid(k) \/ Establish(k) \/ Refuse(k)
         \/ \E n \in Nodes : SweepDone(n) \/ DanglingEvent(n) \/ Idle(n)
         \/ Tick \/ UNCHANGED vars
  PROVE  Plain
<1>1. ASSUME NEW k \in Sockets, AcceptAgentSide(k) \/ Establish(k) \/ Refuse(k) PROVE Plain
  <2>1. /\ UNCHANGED <<client, gen, reg, dangling, inbox, requests, children>>
        /\ sock[k] \in {"syn", "up"}
        /\ \E s \in {"up", "accepted", "refused"} : sock' = [sock EXCEPT ![k] = s]
    BY <1>1 DEF AcceptAgentSide, Establish, Refuse, SockBecomes, ctlVars
  <2> QED
    BY <2>1 DEF Plain, Ledger, SocketInv, ParentTypes
<1>2. ASSUME \/ \E k \in Sockets : AwaitUuid(k)
             \/ \E n \in Nodes : SweepDone(n) \/ DanglingEvent(n) \/ Idle(n)
             \/ UNCHANGED vars
      PROVE  Plain
  <2>1. UNCHANGED <<client, gen, sock, reg, dangling, inbox, requests, children>>
    BY <1>2 DEF AwaitUuid, SweepDone, DanglingEvent, Idle, vars, netVars, ctlVars
  <2> QED
    BY <2>1 DEF Plain, Ledger
<1>3. CASE Tick
  <2>1. /\ client' = [d \in Ends |-> IF client[d].here /\ client[d].age <= TIMEOUT
                                     THEN [client[d] EXCEPT !.age = @ + 1] ELSE client[d]]
        /\ UNCHANGED <<gen, sock, reg, dangling, inbox, requests, children>>
    BY <1>3 DEF Tick, netVars, ctlVars
  <2>2. \A c \in ClientRec : /\ [c EXCEPT !.age = @ + 1].here = c.here
                             /\ [c EXCEPT !.age = @ + 1].joined = c.joined
                             /\ [c EXCEPT !.age = @ + 1].host = c.host
    BY DEF ClientRec
  <2>3. \A d \in Ends : /\ client'[d].here = client[d].here
                        /\ client'[d].joined = client[d].joined
                        /\ client'[d].host = client[d].host
    BY <2>1, <2>2 DEF SocketInv, ParentTypes
  <2> QED
    BY <2>1, <2>3 DEF Plain, Ledger
<1> QED
  BY <1>1, <1>2, <1>3

\* Every other step connects, or forgets a client.
LEMMA StepKinds ==
  ASSUME SocketInv, [Next]_vars
  PROVE  \/ Plain
         \/ \E e \in Ends : ControllerMessage(e) \/ Fork(e) \/ GiveUp(e)
         \/ \E t \in Tunnels : HandleHostSideConnect(t)
         \/ \E n \in Nodes : ConfirmClient(n)
<1>1. ASSUME NEW n \in Nodes, Step(n)
      PROVE  \/ Plain
             \/ \E e \in Ends : ControllerMessage(e) \/ Fork(e) \/ GiveUp(e)
             \/ \E t \in Tunnels : HandleHostSideConnect(t)
             \/ ConfirmClient(n)
  <2>1. EndsAt(n) \subseteq Ends
    BY DEF EndsAt
  <2> QED
    BY <1>1, <2>1, PlainEvents, PlainOthers DEF Step
<1>2. ASSUME \/ \E k \in Sockets : Establish(k) \/ Refuse(k)
             \/ Tick \/ UNCHANGED vars
      PROVE  Plain
  BY <1>2, PlainOthers
<1> QED
  BY <1>1, <1>2 DEF Next

\* Such a step opens no socket, so what is known of them stays known.
LEMMA PlainKeepsKnown ==
  ASSUME SocketInv, SocketsKnown, Plain
  PROVE  SocketsKnown'
<1>1. \A e \in Ends : HostSock(e)' = HostSock(e)
  BY DEF Plain, HostSock
<1>2. \A k \in Sockets : ~IsHost(k) /\ ~ClientEnd(k[1]) => sock'[k] = "none"
  BY DEF Plain, SocketsKnown
<1>3. \A k \in reg' \cup dangling' :
        k \in Sockets /\ k[3] <= gen'[k[1]] /\ (k[3] = 0 <=> ClientEnd(k[1]) /\ IsHost(k))
  BY DEF Plain, SocketsKnown
<1>4. \A e \in Ends : client'[e].here /\ client'[e].host = "IN" => HostSock(e)' \notin reg'
  BY <1>1 DEF Plain, SocketsKnown
<1>5. \A e \in Ends : ~ClientEnd(e) => \A k \in client'[e].joined : k[1][1] = e[1]
  BY DEF Plain, SocketsKnown
<1> QED
  BY <1>2, <1>3, <1>4, <1>5 DEF Plain, Ledger, SocketsKnown, IsHost, ClientEnd

\* And it connects and forgets nothing.
LEMMA PlainKeepsOnce ==
  ASSUME OnceInv, Plain
  PROVE  OnceConnected' /\ LeftBehind'
<1>1. UNCHANGED <<gen, inbox, requests, children, dangling>> /\ reg' \subseteq reg
  BY DEF Plain, Ledger
<1>2. \A e \in Ends : Settled(e) => Settled(e)'
  <2>1. \A e \in Ends : HostSock(e)' = HostSock(e) /\ HostSock(e) \in Sockets
    BY OwnSocks DEF Plain, HostSock, OnceInv, SocketInv, ParentTypes
  <2> QED
    BY <1>1, <2>1 DEF Plain, Settled, ClientEnd
<1>3. OnceConnected'
  BY <1>1 DEF Plain, OnceInv, OnceConnected
<1>4. \A c \in children : c.end \in Ends
  BY DEF OnceInv, LedgerInv
<1> QED
  BY <1>1, <1>2, <1>3, <1>4 DEF OnceInv, LeftBehind, ForkedLeavesNothing

(***************************************************************************)
(* Connecting.                                                             *)
(***************************************************************************)

\* A host of an AGENT end that is connected to again has to have its event again.
LEMMA ReconnectedHost ==
  ASSUME NEW S \in SUBSET Ends, NEW cl \in [Ends -> ClientRec], NEW sk, NEW rg,
         Connect(S, cl, sk, rg)
  PROVE  \A e \in Ends :
           client'[e].host = IF e \in S /\ ~ClientEnd(e) THEN "OFF" ELSE cl[e].host
<1>1. client' = [e \in Ends |-> IF e \in S THEN Reconnecting(e, cl[e]) ELSE cl[e]]
  BY DEF Connect
<1>2. \A e \in Ends, c \in ClientRec :
        Reconnecting(e, c).host = IF ClientEnd(e) THEN c.host ELSE "OFF"
  BY DEF Reconnecting, ClientRec, ClientEnd
<1> QED
  BY <1>1, <1>2

\* What is known of sockets stays known.
LEMMA ConnectKnown ==
  ASSUME SocketInv, SocketsKnown, NEW S \in SUBSET Ends, NEW cl \in [Ends -> ClientRec],
         NEW sk \in [Sockets -> {"none", "syn", "up", "refused", "accepted", "closed"}],
         NEW rg \in SUBSET Sockets, Connect(S, cl, sk, rg),
         UNCHANGED <<dangling, children>>,
         \A k \in Sockets : sk[k] = sock[k] \/ IsHost(k),
         \A k \in rg : k \in reg \/ (k[3] = 0 /\ ClientEnd(k[1]) /\ IsHost(k)),
         \A e \in Ends : cl[e].here /\ cl[e].host = "IN" => HostSock(e) \notin rg,
         \A e \in Ends : ~ClientEnd(e) => \A k \in cl[e].joined : k[1][1] = e[1]
  PROVE  SocketsKnown'
<1>1. ParentTypes
  BY DEF SocketInv
<1>2. Connected(S, cl, sk, rg)
  BY <1>1, ConnectEffect
<1>3. /\ reg' = rg \cup NewSocks(S)
      /\ \A e \in Ends : gen'[e] = IF e \in S THEN gen[e] + 1 ELSE gen[e]
      /\ \A e \in Ends : client'[e].here = cl[e].here /\ client'[e].joined = cl[e].joined
      /\ \A k \in Sockets : sock'[k] = IF k \in NewSocks(S) THEN "syn" ELSE sk[k]
  BY <1>2 DEF Connected
<1>4. \A k \in NewSocks(S) :
        k \in Sockets /\ k[1] \in S /\ k[3] = gen[k[1]] + 1 /\ (ClientEnd(k[1]) <=> ~IsHost(k))
  BY DEF NewSocks
<1>5. \A e \in Ends : gen[e] \in Nat
  BY <1>1, NumberAssumption DEF ParentTypes
<1>6. \A k \in Sockets : k[1] \in Ends
  BY SocketParts
<1>7. reg \subseteq Sockets
  BY <1>1 DEF ParentTypes
<1>8. \A k \in Sockets : ~IsHost(k) /\ ~ClientEnd(k[1]) => sock'[k] = "none"
  BY <1>3, <1>4 DEF SocketsKnown
<1>9. \A k \in reg' \cup dangling' :
        k \in Sockets /\ k[3] <= gen'[k[1]] /\ (k[3] = 0 <=> ClientEnd(k[1]) /\ IsHost(k))
  <2>1. ASSUME NEW k \in NewSocks(S)
        PROVE  k \in Sockets /\ k[3] <= gen'[k[1]] /\ (k[3] = 0 <=> ClientEnd(k[1]) /\ IsHost(k))
    BY <1>3, <1>4, <1>5
  <2>2. \A e \in Ends : gen[e] <= gen'[e] /\ gen'[e] \in Nat
    BY <1>3, <1>5
  <2>3. ASSUME NEW k \in Sockets, k \in rg
        PROVE  k \in Sockets /\ k[3] <= gen'[k[1]] /\ (k[3] = 0 <=> ClientEnd(k[1]) /\ IsHost(k))
    <3>1. k[1] \in Ends /\ k[3] \in Nat
      BY SocketParts, NumberAssumption
    <3>2. CASE k \in reg
      BY <1>5, <2>2, <3>1, <3>2 DEF SocketsKnown
    <3>3. CASE k[3] = 0 /\ ClientEnd(k[1]) /\ IsHost(k)
      BY <2>2, <3>1, <3>3
    <3> QED
      BY <2>3, <3>2, <3>3
  <2>4. ASSUME NEW k \in dangling
        PROVE  k \in Sockets /\ k[3] <= gen'[k[1]] /\ (k[3] = 0 <=> ClientEnd(k[1]) /\ IsHost(k))
    <3>1. k \in Sockets /\ k[1] \in Ends /\ k[3] \in Nat
      BY SocketParts, NumberAssumption DEF SocketsKnown
    <3> QED
      BY <1>5, <2>2, <3>1 DEF SocketsKnown
  <2> QED
    BY <1>3, <2>1, <2>3, <2>4
<1>10. \A e \in Ends : client'[e].here /\ client'[e].host = "IN" => HostSock(e)' \notin reg'
  <2> SUFFICES ASSUME NEW e \in Ends, client'[e].here, client'[e].host = "IN"
               PROVE  HostSock(e)' \notin reg'
    OBVIOUS
  <2>1. cl[e].here /\ cl[e].host = "IN" /\ ~(e \in S /\ ~ClientEnd(e))
    BY <1>3, ReconnectedHost
  <2>2. HostSock(e)' = HostSock(e)
    BY <1>3, <2>1 DEF HostSock, ClientEnd
  <2>3. HostSock(e)[1] = e /\ IsHost(HostSock(e))
    BY <1>1, OwnSocks DEF ParentTypes
  <2>4. HostSock(e) \notin NewSocks(S)
    BY <1>4, <2>1, <2>3
  <2> QED
    BY <1>3, <2>1, <2>2, <2>4
<1>11. \A e \in Ends : ~ClientEnd(e) => \A k \in client'[e].joined : k[1][1] = e[1]
  BY <1>3
<1> QED
  BY <1>8, <1>9, <1>10, <1>11 DEF SocketsKnown, IsHost, ClientEnd

\* Where the network repeats nothing, a message is under way, or its request is in the
\* table, or the end has a child.
LEMMA MessageOnce ==
  ASSUME LedgerInv, Deliveries \subseteq {0, 1}, NEW e \in Ends
  PROVE  /\ requests[e] \in Nat /\ inbox[e] \in Nat /\ requests[e] + inbox[e] <= 1
<1>1. IsFiniteSet(ChildrenOf(e)) /\ Cardinality(ChildrenOf(e)) \in Nat
  BY ChildrenOfFinite DEF LedgerInv
<1>2. requests[e] \in Nat /\ inbox[e] \in Nat
  BY DEF LedgerInv
<1>3. PICK m \in Deliveries : Cardinality(ChildrenOf(e)) + requests[e] + inbox[e] <= m
  BY DEF LedgerInv, ChildPerDatagram
<1> QED
  BY <1>1, <1>2, <1>3

\* An end that connects has not connected before, and what is settled stays so.
LEMMA ConnectOnce ==
  ASSUME OnceInv, NEW S \in SUBSET Ends, NEW cl \in [Ends -> ClientRec],
         NEW sk \in [Sockets -> {"none", "syn", "up", "refused", "accepted", "closed"}],
         NEW rg \in SUBSET Sockets, Connect(S, cl, sk, rg),
         UNCHANGED <<dangling, children>>,
         \A e \in S : gen[e] = 0 /\ inbox'[e] = 0 /\ cl[e].here /\ ~Settled(e),
         \A e \in Ends : e \notin S /\ gen[e] > 0 =>
           /\ inbox'[e] = inbox[e] /\ requests'[e] = requests[e]
           /\ client[e].here => cl[e].here,
         \A e \in Ends : Settled(e) =>
           IF ClientEnd(e) THEN ~cl[e].here /\ sk[HostSock(e)] # "none"
           ELSE requests'[e] = 0 /\ inbox'[e] = 0,
         \A k \in rg : k \in reg \/ ~Settled(k[1])
  PROVE  OnceConnected' /\ LeftBehind'
<1>1. ParentTypes
  BY DEF OnceInv, SocketInv
<1>2. Connected(S, cl, sk, rg)
  BY <1>1, ConnectEffect
<1>3. /\ reg' = rg \cup NewSocks(S)
      /\ \A e \in Ends : gen'[e] = IF e \in S THEN gen[e] + 1 ELSE gen[e]
      /\ \A e \in Ends : client'[e].here = cl[e].here
      /\ \A k \in Sockets : sock'[k] = IF k \in NewSocks(S) THEN "syn" ELSE sk[k]
  BY <1>2 DEF Connected
<1>4. OnceConnected'
  <2> SUFFICES ASSUME NEW e \in Ends, gen'[e] > 0
               PROVE  /\ gen'[e] = 1 /\ inbox'[e] = 0
                      /\ requests'[e] = 0 \/ client'[e].here
    BY DEF OnceConnected
  <2>1. CASE e \in S
    BY <1>3, <2>1
  <2>2. CASE e \notin S
    BY <1>3, <2>2 DEF OnceInv, OnceConnected
  <2> QED
    BY <2>1, <2>2
<1>5. \A e \in Ends : Settled(e) => Settled(e)'
  <2> SUFFICES ASSUME NEW e \in Ends, Settled(e) PROVE Settled(e)'
    OBVIOUS
  <2>1. CASE ClientEnd(e)
    <3>1. HostSock(e)' = HostSock(e) /\ HostSock(e) \in Sockets
      BY <1>1, <2>1, OwnSocks DEF HostSock, ClientEnd, ParentTypes
    <3>2. ~client'[e].here /\ sock'[HostSock(e)] # "none"
      BY <1>3, <2>1, <3>1
    <3> QED
      BY <2>1, <3>1, <3>2 DEF Settled, ClientEnd
  <2>2. CASE ~ClientEnd(e)
    BY <2>2 DEF Settled, ClientEnd
  <2> QED
    BY <2>1, <2>2
<1>6. ForkedLeavesNothing'
  <2> SUFFICES ASSUME NEW c \in children, NEW k \in reg' \cup dangling PROVE k[1] # c.end
    BY DEF ForkedLeavesNothing
  <2>1. Settled(c.end)
    BY DEF OnceInv, LeftBehind
  <2>2. k \in reg \cup dangling \/ ~Settled(k[1])
    BY <1>3 DEF NewSocks
  <2> QED
    BY <2>1, <2>2 DEF OnceInv, LeftBehind, ForkedLeavesNothing
<1>7. \A c \in children : c.end \in Ends
  BY DEF OnceInv, LedgerInv
<1> QED
  BY <1>4, <1>5, <1>6, <1>7 DEF OnceInv, LeftBehind

\* A message of the controller.
LEMMA MessageKnown ==
  ASSUME SocketInv, SocketsKnown, NEW m \in Ends, ControllerMessage(m)
  PROVE  SocketsKnown'
<1> DEFINE S == {e \in EndsAt(NodeOf(m)) : client[e].here /\ requests'[e] > 0}
<1>1. S \in SUBSET Ends
  BY DEF EndsAt
<1>2. Connect(S, client, sock, reg) /\ UNCHANGED <<dangling, children>>
  BY DEF ControllerMessage
<1> HIDE DEF S
<1>3. /\ client \in [Ends -> ClientRec] /\ reg \in SUBSET Sockets
      /\ sock \in [Sockets -> {"none", "syn", "up", "refused", "accepted", "closed"}]
  BY DEF SocketInv, ParentTypes
<1>4. /\ \A e \in Ends : client[e].here /\ client[e].host = "IN" => HostSock(e) \notin reg
      /\ \A e \in Ends : ~ClientEnd(e) => \A k \in client[e].joined : k[1][1] = e[1]
  BY DEF SocketsKnown
<1> QED
  BY <1>1, <1>2, <1>3, <1>4, ConnectKnown

\* Where the parent serves the end it is for only, it connects that end or none.
LEMMA MessageOnceMore ==
  ASSUME OnceInv, Deliveries \subseteq {0, 1}, OneEndEach, NEW m \in Ends, ControllerMessage(m)
  PROVE  OnceConnected' /\ LeftBehind'
<1> DEFINE S == {e \in EndsAt(NodeOf(m)) : client[e].here /\ requests'[e] > 0}
<1>1. S \in SUBSET Ends /\ (\A e \in S : e = m /\ client[e].here)
  BY DEF EndsAt, OneEndEach
<1>2. /\ Connect(S, client, sock, reg) /\ UNCHANGED <<dangling, children>>
      /\ inbox[m] > 0 /\ inbox' = [inbox EXCEPT ![m] = @ - 1]
      /\ requests' = [requests EXCEPT ![m] = @ + 1]
  BY DEF ControllerMessage, GetControllerMessage
<1> HIDE DEF S
<1>3. /\ client \in [Ends -> ClientRec] /\ reg \in SUBSET Sockets
      /\ sock \in [Sockets -> {"none", "syn", "up", "refused", "accepted", "closed"}]
  BY DEF OnceInv, SocketInv, ParentTypes
<1>4. /\ inbox \in [Ends -> Nat] /\ requests \in [Ends -> Nat]
  BY DEF OnceInv, LedgerInv
<1>5. inbox[m] = 1 /\ inbox'[m] = 0
  <2>1. requests[m] \in Nat /\ inbox[m] \in Nat /\ requests[m] + inbox[m] <= 1
    BY MessageOnce DEF OnceInv
  <2>2. inbox'[m] = inbox[m] - 1
    BY <1>2, <1>4
  <2> QED
    BY <1>2, <2>1, <2>2
<1>6. \A e \in Ends : e # m => inbox'[e] = inbox[e] /\ requests'[e] = requests[e]
  BY <1>2, <1>4
<1>7. gen[m] = 0
  <2>1. gen[m] \in Nat
    BY NumberAssumption DEF OnceInv, SocketInv, ParentTypes
  <2> QED
    BY <1>5, <2>1 DEF OnceInv, OnceConnected
<1>8. \A e \in S : gen[e] = 0 /\ inbox'[e] = 0 /\ client[e].here /\ ~Settled(e)
  BY <1>1, <1>5, <1>7 DEF Settled
<1>9. \A e \in Ends : e \notin S /\ gen[e] > 0 =>
        /\ inbox'[e] = inbox[e] /\ requests'[e] = requests[e]
        /\ client[e].here => client[e].here
  BY <1>6, <1>7
<1>10. \A e \in Ends : Settled(e) =>
         IF ClientEnd(e) THEN ~client[e].here /\ sock[HostSock(e)] # "none"
         ELSE requests'[e] = 0 /\ inbox'[e] = 0
  BY <1>5, <1>6 DEF Settled
<1> QED
  BY <1>1, <1>2, <1>3, <1>8, <1>9, <1>10, ConnectOnce

\* The host of a tunnel is accepted.
LEMMA HostSideKnown ==
  ASSUME SocketInv, SocketsKnown, NEW t \in Tunnels, HandleHostSideConnect(t)
  PROVE  /\ SocketsKnown'
         /\ OnceInv /\ Deliveries \subseteq {0, 1} => OnceConnected' /\ LeftBehind'
<1> DEFINE e == <<t, "CLIENT">>
           S == IF Requested(e) THEN {e} ELSE {}
           cl == [client EXCEPT ![e] = FreshClient]
           sk == [sock EXCEPT ![HostSock(e)] = "up"]
           rg == reg \cup {HostSock(e)}
<1>1. /\ e \in Ends /\ ClientEnd(e) /\ HostSock(e) \in Sockets /\ HostSock(e)[1] = e
      /\ HostSock(e)[3] = 0 /\ IsHost(HostSock(e))
  BY EndParts, OwnSocks DEF ClientEnd, HostSock, SocketInv, ParentTypes
<1>2. /\ sock[HostSock(e)] = "none" /\ Connect(S, cl, sk, rg)
      /\ UNCHANGED <<dangling, children, inbox, requests>>
  BY DEF HandleHostSideConnect
<1>3. /\ cl \in [Ends -> ClientRec] /\ rg \in SUBSET Sockets
      /\ sk \in [Sockets -> {"none", "syn", "up", "refused", "accepted", "closed"}]
      /\ cl[e] = FreshClient /\ \A d \in Ends : d # e => cl[d] = client[d]
      /\ sk[HostSock(e)] = "up" /\ \A k \in Sockets : k # HostSock(e) => sk[k] = sock[k]
      /\ \A k \in rg : k \in reg \/ k = HostSock(e)
  BY <1>1, NoClientType DEF SocketInv, ParentTypes
<1>4. S \in SUBSET Ends /\ \A d \in S : d = e /\ requests[e] > 0
  BY <1>1 DEF Requested
<1>5. FreshClient.here = TRUE /\ FreshClient.host = "OFF"
  BY DEF FreshClient, NoClient
<1>6. \A d \in Ends : HostSock(d) \in Sockets /\ HostSock(d)[1] = d
  BY OwnSocks DEF SocketInv, ParentTypes
<1> HIDE DEF e, S, cl, sk, rg
<1>7. SocketsKnown'
  <2>1. \A k \in Sockets : sk[k] = sock[k] \/ IsHost(k)
    BY <1>1, <1>3
  <2>2. \A k \in rg : k \in reg \/ (k[3] = 0 /\ ClientEnd(k[1]) /\ IsHost(k))
    BY <1>1, <1>3
  <2>3. \A d \in Ends : cl[d].here /\ cl[d].host = "IN" => HostSock(d) \notin rg
    BY <1>1, <1>3, <1>5, <1>6 DEF SocketsKnown
  <2>4. \A d \in Ends : ~ClientEnd(d) => \A k \in cl[d].joined : k[1][1] = d[1]
    BY <1>1, <1>3 DEF SocketsKnown
  <2> QED
    BY <1>2, <1>3, <1>4, <2>1, <2>2, <2>3, <2>4, ConnectKnown
<1>8. ASSUME OnceInv, Deliveries \subseteq {0, 1} PROVE OnceConnected' /\ LeftBehind'
  <2>1. gen[e] = 0 /\ ~Settled(e)
    BY <1>1, <1>2 DEF SocketInv, HostSeen, Settled
  <2>2. requests[e] > 0 => inbox[e] = 0
    BY <1>1, <1>8, MessageOnce DEF OnceInv
  <2>3. \A d \in S : gen[d] = 0 /\ inbox'[d] = 0 /\ cl[d].here /\ ~Settled(d)
    BY <1>2, <1>3, <1>4, <1>5, <2>1, <2>2
  <2>4. \A d \in Ends : d \notin S /\ gen[d] > 0 =>
          /\ inbox'[d] = inbox[d] /\ requests'[d] = requests[d]
          /\ client[d].here => cl[d].here
    BY <1>2, <1>3, <1>5
  <2>5. \A d \in Ends : Settled(d) =>
          IF ClientEnd(d) THEN ~cl[d].here /\ sk[HostSock(d)] # "none"
          ELSE requests'[d] = 0 /\ inbox'[d] = 0
    BY <1>1, <1>2, <1>3, <1>6, <2>1 DEF Settled
  <2>6. \A k \in rg : k \in reg \/ ~Settled(k[1])
    BY <1>1, <1>3, <2>1
  <2> QED
    BY <1>2, <1>3, <1>4, <1>8, <2>3, <2>4, <2>5, <2>6, ConnectOnce
<1> QED
  BY <1>7, <1>8

\* A socket joins the AGENT end its uuid names.
LEMMA ConfirmKnown ==
  ASSUME SocketInv, SocketsKnown, NEW n \in Nodes, ConfirmClient(n)
  PROVE  /\ SocketsKnown'
         /\ OnceInv /\ Deliveries \subseteq {0, 1} => OnceConnected' /\ LeftBehind'
<1> DEFINE k == busy[n]
           e == <<k[1][1], "AGENT">>
           b == IF client[e].here THEN client[e] ELSE FreshClient
           c == [b EXCEPT !.num = @ + 1, !.joined = @ \cup {k}]
           w == WindBackIfComplete(e, c)
           S == IF client[e].here \/ ~Requested(e) THEN {} ELSE {e}
           cl == [client EXCEPT ![e] = w]
<1>1. k \in Sockets /\ e \in Ends /\ ~ClientEnd(e) /\ e[1] = k[1][1]
  <2>1. k \in Sockets
    BY DEF ConfirmClient, SocketInv, BusyOK, ParentTypes
  <2>2. k[1][1] \in Tunnels
    BY <2>1, SocketParts, EndParts
  <2> QED
    BY <2>1, <2>2, EndParts DEF ClientEnd
<1>2. Connect(S, cl, sock, reg) /\ UNCHANGED <<dangling, children, inbox, requests>>
  BY DEF ConfirmClient
<1>3. /\ b \in ClientRec /\ b.here
      /\ \A s \in b.joined : s[1][1] = e[1]
      /\ b.host = "IN" => HostSock(e) \notin reg
  <2>1. FreshClient.joined = {} /\ FreshClient.here /\ FreshClient.host = "OFF"
    BY DEF FreshClient, NoClient
  <2> QED
    BY <1>1, <2>1, NoClientType DEF SocketInv, ParentTypes, SocketsKnown
<1>4. S \in SUBSET Ends /\ \A d \in S : d = e /\ ~client[e].here /\ requests[e] > 0
  BY <1>1 DEF Requested
<1> HIDE DEF k, b, S
<1>5. c \in ClientRec /\ c.joined = b.joined \cup {k} /\ c.here = b.here /\ c.host = b.host
  <2> HIDE DEF e, w, cl
  <2>1. b.num \in Nat /\ b.joined \subseteq Sockets /\ k \in Sockets
    BY <1>1, <1>3 DEF ClientRec
  <2> DEFINE d == [b EXCEPT !.num = @ + 1]
  <2>2. c \in ClientRec
    <3>1. d \in ClientRec /\ d.joined = b.joined
      BY <1>3, <2>1 DEF ClientRec
    <3>2. c = [d EXCEPT !.joined = @ \cup {k}]
      OBVIOUS
    <3> HIDE DEF c, d
    <3>3. [d EXCEPT !.joined = @ \cup {k}] \in ClientRec
      BY <2>1, <3>1 DEF ClientRec
    <3> QED
      BY <3>2, <3>3
  <2>3. c.joined = b.joined \cup {k} /\ c.here = b.here /\ c.host = b.host
    BY <1>3 DEF ClientRec
  <2> QED
    BY <2>2, <2>3
<1> HIDE DEF e, c
<1>6. /\ w \in ClientRec /\ w.joined = b.joined \cup {k} /\ w.here /\ w.host = b.host
  BY <1>1, <1>3, <1>5, ClientUpdates
<1> HIDE DEF w
<1>7. /\ cl \in [Ends -> ClientRec] /\ cl[e] = w /\ \A d \in Ends : d # e => cl[d] = client[d]
      /\ reg \in SUBSET Sockets
      /\ sock \in [Sockets -> {"none", "syn", "up", "refused", "accepted", "closed"}]
  BY <1>1, <1>6 DEF SocketInv, ParentTypes
<1> HIDE DEF cl
<1>8. SocketsKnown'
  <2>1. \A d \in Ends : cl[d].here /\ cl[d].host = "IN" => HostSock(d) \notin reg
    BY <1>3, <1>6, <1>7 DEF SocketsKnown
  <2>2. \A d \in Ends : ~ClientEnd(d) => \A s \in cl[d].joined : s[1][1] = d[1]
    BY <1>1, <1>3, <1>6, <1>7 DEF SocketsKnown
  <2> QED
    BY <1>2, <1>4, <1>7, <2>1, <2>2, ConnectKnown
<1>9. ASSUME OnceInv, Deliveries \subseteq {0, 1} PROVE OnceConnected' /\ LeftBehind'
  <2>1. requests[e] > 0 => inbox[e] = 0
    BY <1>1, <1>9, MessageOnce DEF OnceInv
  <2>2. gen[e] \in Nat
    BY <1>1, NumberAssumption DEF SocketInv, ParentTypes
  <2>3. \A d \in S : gen[d] = 0 /\ inbox'[d] = 0 /\ cl[d].here /\ ~Settled(d)
    BY <1>1, <1>2, <1>4, <1>6, <1>7, <1>9, <2>1, <2>2 DEF OnceInv, OnceConnected, Settled
  <2>4. \A d \in Ends : d \notin S /\ gen[d] > 0 =>
          /\ inbox'[d] = inbox[d] /\ requests'[d] = requests[d]
          /\ client[d].here => cl[d].here
    BY <1>2, <1>6, <1>7
  <2>5. \A d \in Ends : Settled(d) =>
          IF ClientEnd(d) THEN ~cl[d].here /\ sock[HostSock(d)] # "none"
          ELSE requests'[d] = 0 /\ inbox'[d] = 0
    BY <1>1, <1>2, <1>7 DEF Settled
  <2> QED
    BY <1>2, <1>4, <1>7, <1>9, <2>3, <2>4, <2>5, ConnectOnce
<1> QED
  BY <1>8, <1>9

(***************************************************************************)
(* Forgetting a client.                                                    *)
(***************************************************************************)

\* A client is forgotten, and perhaps a child forked with its sockets.
LEMMA ForgetKnown ==
  ASSUME SocketInv, SocketsKnown, NEW e \in Ends, Fork(e) \/ GiveUp(e)
  PROVE  SocketsKnown'
<1>1. /\ Forget(e) /\ gen' = gen
      /\ \A c \in children' : c \in children \/ c = [end |-> e, socks |-> AgentSocks(e)]
      /\ \A k \in Sockets : sock'[k] = sock[k] \/ (sock[k] = "syn" /\ sock'[k] = "closed")
  BY DEF Fork, GiveUp
<1>2. /\ client'[e] = NoClient /\ \A d \in Ends : d # e => client'[d] = client[d]
      /\ reg' \subseteq reg /\ dangling' \subseteq dangling \cup reg
      /\ ~NoClient.here /\ NoClient.joined = {}
  BY <1>1 DEF Forget, Removed, NoClient, SocketInv, ParentTypes
<1>3. \A k \in Sockets : ~IsHost(k) /\ ~ClientEnd(k[1]) => sock'[k] = "none"
  BY <1>1 DEF SocketsKnown
<1>4. \A k \in reg' \cup dangling' :
        /\ k \in Sockets /\ k[3] <= gen'[k[1]]
        /\ (k[3] = 0 <=> ClientEnd(k[1]) /\ IsHost(k))
  BY <1>1, <1>2 DEF SocketsKnown
<1>5. \A d \in Ends : client'[d].here /\ client'[d].host = "IN" => HostSock(d)' \notin reg'
  <2>1. \A d \in Ends : HostSock(d)' = HostSock(d)
    BY <1>1 DEF HostSock
  <2> QED
    BY <1>2, <2>1 DEF SocketsKnown
<1>6. \A d \in Ends : ~ClientEnd(d) => \A k \in client'[d].joined : k[1][1] = d[1]
  BY <1>2 DEF SocketsKnown
<1>7. \A c \in children' : ~ClientEnd(c.end) => \A k \in c.socks : k[1][1] = c.end[1]
  <2>1. ~ClientEnd(e) => AgentSocks(e) = client[e].joined
    BY DEF AgentSocks, ClientEnd
  <2> QED
    BY <1>1, <2>1 DEF SocketsKnown
<1> QED
  BY <1>3, <1>4, <1>5, <1>6, <1>7 DEF SocketsKnown, IsHost, ClientEnd

\* Where an end has connected once, it has a child only when all its sockets have left
\* the event pool.
LEMMA ForkedClean ==
  ASSUME OnceInv, NEW e \in Ends, Fork(e)
  PROVE  \A k \in reg \cup dangling : k[1] # e
<1>1. /\ client[e].here /\ proc[NodeOf(e)] = "sweep"
      /\ client[e].num = Allowed /\ client[e].host = "IN" /\ requests[e] > 0
  BY DEF Fork, Expired, Complete, Requested
<1>2. ASSUME NEW k \in dangling PROVE k[1] # e
  <2>1. ~Settled(e)
    BY <1>1 DEF Settled
  <2> QED
    BY <2>1 DEF OnceInv, LeftBehind
<1>3. ASSUME NEW k \in reg, k[1] = e PROVE FALSE
  <2>1. /\ k \in Sockets /\ k[3] \in Nat /\ k[2] \in 0..Allowed /\ k = <<e, k[2], k[3]>>
        /\ k[3] <= gen[e] /\ (k[3] = 0 <=> ClientEnd(e) /\ IsHost(k))
    BY <1>3, SocketParts, NumberAssumption DEF OnceInv, SocketsKnown
  <2>2. gen[e] \in Nat /\ (gen[e] > 0 => gen[e] = 1)
    BY NumberAssumption DEF OnceInv, OnceConnected, SocketInv, ParentTypes
  <2>3. HostSock(e) \notin reg
    BY <1>1 DEF OnceInv, SocketsKnown
  <2>4. CASE IsHost(k)
    <3>1. k = HostSock(e)
      BY <2>1, <2>2, <2>4 DEF HostSock, IsHost, ClientEnd
    <3> QED
      BY <1>3, <2>3, <3>1
  <2>5. CASE ~IsHost(k)
    <3>1. ClientEnd(e)
      BY <1>3, <2>5 DEF OnceInv, SocketInv, RegisteredSocks
    <3>2. k[3] = gen[e] /\ k[2] \in 1..Allowed
      BY <2>1, <2>2, <2>5, NumberAssumption DEF IsHost
    <3>3. k \in AgentSocks(e)
      BY <1>1, <2>1, <3>1, <3>2 DEF AgentSocks, AgentSock, ClientEnd
    <3> QED
      BY <1>1, <1>3, <3>1, <3>3, ForkedSocks DEF OnceInv
  <2> QED
    BY <2>4, <2>5
<1> QED
  BY <1>2, <1>3

\* A client that is forgotten is settled, unless nothing of it was ever open.
LEMMA ForgetOnce ==
  ASSUME OnceInv, Deliveries \subseteq {0, 1}, NEW e \in Ends, Fork(e) \/ GiveUp(e)
  PROVE  OnceConnected' /\ LeftBehind'
<1>1. /\ client[e].here /\ Forget(e) /\ UNCHANGED <<gen, inbox>>
      /\ \A k \in Sockets : sock'[k] = sock[k] \/ (sock[k] = "syn" /\ sock'[k] = "closed")
  BY DEF Fork, GiveUp, Expired
<1>2. /\ client'[e] = NoClient /\ \A d \in Ends : d # e => client'[d] = client[d]
      /\ reg' \subseteq reg /\ \A k \in dangling' : k \in dangling \/ (k \in reg /\ k[1] = e)
      /\ ~NoClient.here
  BY <1>1 DEF Forget, Removed, NoClient, OnceInv, SocketInv, ParentTypes
<1>3. /\ requests[e] \in Nat /\ inbox[e] \in Nat /\ requests[e] + inbox[e] <= 1
      /\ requests'[e] = 0
      /\ \A d \in Ends : d # e => requests'[d] = requests[d]
  <2>1. requests[e] \in Nat /\ inbox[e] \in Nat /\ requests[e] + inbox[e] <= 1
    BY MessageOnce DEF OnceInv
  <2>2. requests' = [requests EXCEPT ![e] = IF @ > 0 THEN @ - 1 ELSE @]
    BY <1>1 DEF Forget, DropRequest
  <2>3. requests \in [Ends -> Nat]
    BY DEF OnceInv, LedgerInv
  <2>4. requests'[e] = IF requests[e] > 0 THEN requests[e] - 1 ELSE requests[e]
    BY <2>2, <2>3
  <2> QED
    BY <2>1, <2>2, <2>3, <2>4
<1>4. OnceConnected'
  BY <1>1, <1>2, <1>3 DEF OnceInv, OnceConnected
<1>5. \A d \in Ends : HostSock(d)' = HostSock(d) /\ HostSock(d) \in Sockets
  BY <1>1, OwnSocks DEF HostSock, OnceInv, SocketInv, ParentTypes
<1>6. \A d \in Ends : Settled(d) => Settled(d)'
  BY <1>1, <1>2, <1>3, <1>5 DEF Settled, ClientEnd
<1>7. inbox[e] = 0 \/ ClientEnd(e) => Settled(e)'
  <2>1. ClientEnd(e) => sock[HostSock(e)] # "none"
    BY <1>1 DEF OnceInv, SocketInv, HostSeen
  <2>2. ClientEnd(e) => sock'[HostSock(e)] # "none"
    BY <1>1, <1>5, <2>1
  <2> QED
    BY <1>1, <1>2, <1>3, <1>5, <2>2 DEF Settled, ClientEnd
<1>8. ASSUME NEW k \in reg, k[1] = e PROVE Settled(e)'
  <2>1. k[3] \in Nat /\ k[3] <= gen[e] /\ (k[3] = 0 => ClientEnd(e))
    BY <1>8, SocketParts, NumberAssumption DEF OnceInv, SocketsKnown
  <2>2. gen[e] \in Nat
    BY NumberAssumption DEF OnceInv, SocketInv, ParentTypes
  <2>3. ClientEnd(e) \/ inbox[e] = 0
    BY <2>1, <2>2 DEF OnceInv, OnceConnected
  <2> QED
    BY <1>7, <2>3
<1>9. \A k \in dangling' : k[1] \in Ends /\ Settled(k[1])'
  <2>1. ASSUME NEW k \in dangling PROVE k[1] \in Ends /\ Settled(k[1])'
    BY <1>6 DEF OnceInv, LeftBehind
  <2>2. ASSUME NEW k \in reg, k[1] = e PROVE k[1] \in Ends /\ Settled(k[1])'
    BY <1>8, <2>2
  <2> QED
    BY <1>2, <2>1, <2>2
<1>10. ASSUME NEW c \in children
       PROVE  c.end \in Ends /\ Settled(c.end)' /\ \A k \in reg' \cup dangling' : k[1] # c.end
  <2>1. c.end \in Ends /\ Settled(c.end) /\ \A k \in reg \cup dangling : k[1] # c.end
    BY DEF OnceInv, LedgerInv, LeftBehind, ForkedLeavesNothing
  <2> QED
    BY <1>2, <1>6, <2>1
<1>11. CASE GiveUp(e)
  <2>1. children' = children
    BY <1>11 DEF GiveUp
  <2> QED
    BY <1>4, <1>9, <1>10, <2>1 DEF LeftBehind, ForkedLeavesNothing
<1>12. CASE Fork(e)
  <2>1. /\ children' = children \cup {[end |-> e, socks |-> AgentSocks(e)]}
        /\ requests[e] > 0
    BY <1>12 DEF Fork, Complete, Requested
  <2>2. Settled(e)'
    BY <1>3, <1>7, <2>1
  <2>3. \A k \in reg' \cup dangling' : k[1] # e
    BY <1>2, <1>12, ForkedClean
  <2>4. \A c \in children' : c \in children \/ c.end = e
    BY <2>1
  <2>5. \A c \in children' : Settled(c.end)' /\ \A k \in reg' \cup dangling' : k[1] # c.end
    BY <1>10, <2>2, <2>3, <2>4
  <2> QED
    BY <1>4, <1>9, <2>5 DEF LeftBehind, ForkedLeavesNothing
<1> QED
  BY <1>11, <1>12

\* What is known of sockets is known of any parents, whatever the network does.
LEMMA KnownStep == SocketInv /\ SocketsKnown /\ [Next]_vars => SocketsKnown'
BY StepKinds, PlainKeepsKnown, MessageKnown, HostSideKnown, ConfirmKnown, ForgetKnown

\* At first no socket is open.
LEMMA KnownInit == Init => SocketsKnown
<1> SUFFICES ASSUME Init PROVE SocketsKnown
  OBVIOUS
<1>1. ~NoClient.here /\ NoClient.joined = {}
  BY DEF NoClient
<1> QED
  BY <1>1 DEF Init, SocketsKnown

\* The rest holds where each parent serves one end and datagrams come once.
LEMMA OnceStep ==
  ASSUME Deliveries \subseteq {0, 1}, OneEndEach
  PROVE  OnceInv /\ [Next]_vars => OnceInv'
<1> SUFFICES ASSUME OnceInv, [Next]_vars PROVE OnceInv'
  OBVIOUS
<1>1. SocketInv' /\ LedgerInv' /\ SocketsKnown'
  BY SocketStep, LedgerStep, KnownStep DEF OnceInv
<1>2. OnceConnected' /\ LeftBehind'
  <2>1. SocketInv /\ SocketsKnown
    BY DEF OnceInv
  <2> QED
    BY <2>1, StepKinds, PlainKeepsOnce, MessageOnceMore, HostSideKnown, ConfirmKnown, ForgetOnce
<1> QED
  BY <1>1, <1>2 DEF OnceInv

\* Nothing has connected at first.
LEMMA OnceInit == Init => OnceInv
<1>1. Init => OnceConnected /\ LeftBehind
  <2> SUFFICES ASSUME Init PROVE OnceConnected /\ LeftBehind
    OBVIOUS
  <2> QED
    BY DEF Init, OnceConnected, LeftBehind, ForkedLeavesNothing
<1> QED
  BY <1>1, SocketInit, LedgerInit, KnownInit DEF OnceInv

\* The sockets a tunnel connects, at both ends.
TunnelSocks(t) == {<<<<t, "CLIENT">>, i, 1>> : i \in 1..Allowed}

\* A child serves all of them.
LEMMA ServesAll ==
  ASSUME OnceInv, NEW c \in children
  PROVE  c.socks = TunnelSocks(c.end[1])
<1> DEFINE t == c.end[1]
<1>1. c.end \in Ends /\ t \in Tunnels /\ c.socks \subseteq Sockets
  BY EndParts DEF OnceInv, SocketInv, ParentTypes
<1>2. ASSUME NEW k \in c.socks PROVE k \in TunnelSocks(t)
  <2>1. k \in Sockets /\ sock[k] \in {"up", "accepted"} /\ k[1] \in Ends /\ k[3] \in Nat
        /\ k[2] \in 0..Allowed /\ k = <<k[1], k[2], k[3]>>
    BY <1>1, SocketParts, NumberAssumption DEF OnceInv, SocketInv, ForkedComplete
  <2>2. k[1] = <<t, "CLIENT">> /\ ~IsHost(k)
    <3>1. CASE ClientEnd(c.end)
      <4>1. k[1] = c.end /\ ~IsHost(k)
        BY <3>1 DEF OnceInv, SocketInv, ChildrenApart
      <4> QED
        BY <1>1, <3>1, <4>1, EndParts DEF ClientEnd
    <3>2. CASE ~ClientEnd(c.end)
      <4>1. uuids[k] > 0 /\ k[1][1] = t
        BY <3>2 DEF OnceInv, SocketInv, ForkedComplete, SocketsKnown, ClientEnd
      <4>2. ~IsHost(k)
        BY <2>1, <4>1 DEF OnceInv, SocketInv, SentSocks
      <4>3. ClientEnd(k[1])
        BY <2>1, <4>2 DEF OnceInv, SocketsKnown
      <4> QED
        BY <2>1, <4>1, <4>2, <4>3, EndParts DEF ClientEnd
    <3> QED
      BY <3>1, <3>2
  <2>3. k[3] <= gen[k[1]] /\ k[3] # 0 /\ gen[k[1]] \in Nat /\ (gen[k[1]] > 0 => gen[k[1]] = 1)
    <3>1. gen[k[1]] \in Nat
      BY <2>1, NumberAssumption DEF OnceInv, SocketInv, ParentTypes
    <3>2. ~(k[3] > gen[k[1]]) /\ k[3] # 0
      BY <2>1, <2>2 DEF OnceInv, SocketInv, FreshSocks
    <3> QED
      BY <2>1, <3>1, <3>2 DEF OnceInv, OnceConnected
  <2>4. k[3] = 1
    BY <2>1, <2>3
  <2>5. k[2] \in 1..Allowed
    BY <2>1, <2>2, NumberAssumption DEF IsHost
  <2> QED
    BY <2>1, <2>2, <2>4, <2>5 DEF TunnelSocks
<1>3. IsFiniteSet(TunnelSocks(t)) /\ Cardinality(TunnelSocks(t)) = Allowed
  <2> DEFINE f == [i \in 1..Allowed |-> <<<<t, "CLIENT">>, i, 1>>]
  <2>1. f \in Injection(1..Allowed, TunnelSocks(t))
    BY DEF Injection, IsInjective, TunnelSocks
  <2>2. f \in Surjection(1..Allowed, TunnelSocks(t))
    BY DEF Surjection, TunnelSocks
  <2>3. ExistsBijection(1..Allowed, TunnelSocks(t))
    BY <2>1, <2>2 DEF ExistsBijection, Bijection
  <2> HIDE DEF f, t
  <2>4. IsFiniteSet(1..Allowed) /\ Cardinality(1..Allowed) = Allowed
    BY NumberAssumption, FS_Interval
  <2> QED
    BY <2>3, <2>4, FS_Bijection
<1>4. Cardinality(c.socks) = Allowed /\ c.socks \in SUBSET TunnelSocks(t)
  BY <1>2 DEF OnceInv, SocketInv, ForkedComplete
<1> QED
  BY <1>3, <1>4, FS_Subset

\* Where each parent serves one end and datagrams come once, the children of a tunnel
\* serve the same connections.
THEOREM SameAtBothEnds ==
  ASSUME Deliveries \subseteq {0, 1}, OneEndEach
  PROVE  Spec => []SameConnections
<1>1. OnceInv => SameConnections
  BY ServesAll DEF SameConnections
<1> QED
  BY <1>1, OnceInit, OnceStep, PTL DEF Spec

\* And a parent that has forked for an end has no socket of it left, nor an event that
\* would find the client freed.
THEOREM ForkIsClean ==
  ASSUME Deliveries \subseteq {0, 1}, OneEndEach
  PROVE  Spec => []ForkedLeavesNothing
<1>1. OnceInv => ForkedLeavesNothing
  BY DEF OnceInv, LeftBehind
<1> QED
  BY <1>1, OnceInit, OnceStep, PTL DEF Spec

(***************************************************************************)
(* Numbers: of the connections of a client, of the uuids on a socket, and  *)
(* of the seconds a client has.                                            *)
(***************************************************************************)

\* A parent works on a socket in a loop only, and send_uuid() has sent nothing yet.
LoopsKnown ==
  /\ \A n \in Nodes : busy[n] # <<>> <=> proc[n] \in {"recv", "send"}
  /\ \A n \in Nodes : proc[n] = "send" => uuids[busy[n]] = 0

\* A second uuid goes out only with the event that makes its parent exit.
UuidsKnown ==
  \A k \in Sockets : uuids[k] <= 2 /\ (uuids[k] = 2 => proc[NodeOf(k[1])] = "dead")

\* Also where its parent is lost, a CLIENT end has counted no more than all it opened.
CountsKnown ==
  \A e \in Ends : /\ client[e].age <= TIMEOUT + 1
                  /\ ClientEnd(e) => client[e].num <= Allowed * MaxGen
                  /\ ClientEnd(e) /\ ~client[e].here => client[e].num = 0

NumbersKnown == LoopsKnown /\ UuidsKnown /\ CountsKnown /\ inherited \subseteq Sockets

\* How a step moves parents on and sends uuids.
Goes ==
  \/ UNCHANGED <<proc, busy, uuids>>
  \/ \E n \in Nodes, p \in {"sweep", "wait", "dead", "undefined"} :
       proc[n] # "dead" /\ Moves(n, p, <<>>) /\ uuids' = uuids
  \/ \E n \in Nodes, p \in {"recv", "send"}, k \in Sockets :
       /\ proc[n] # "dead" /\ Moves(n, p, k) /\ uuids' = uuids
       /\ p = "send" => uuids[k] = 0
  \/ \E k \in Sockets, p \in {"sweep", "dead"} :
       /\ proc[NodeOf(k[1])] # "dead" /\ Moves(NodeOf(k[1]), p, <<>>)
       /\ uuids' = [uuids EXCEPT ![k] = @ + 1] /\ (uuids[k] = 0 \/ p = "dead")

\* The events of agent sockets, which send them.
LEMMA SendingGoes ==
  ASSUME SocketInv, LoopsKnown,
         \/ \E e \in Ends, i \in 1..Allowed : AgentConnectedEvent(e, i)
         \/ \E n \in Nodes : SendUuid(n)
  PROVE  Goes
<1>1. ASSUME NEW e \in Ends, NEW i \in 1..Allowed, AgentConnectedEvent(e, i) PROVE Goes
  <2> DEFINE k == AgentSock(e, i)
  <2>1. k \in Sockets /\ k[1] = e /\ ~IsHost(k) /\ NodeOf(e) \in Nodes
    BY OwnSocks, EndParts DEF SocketInv, ParentTypes
  <2>2. /\ uuids \in [Sockets -> Nat]
        /\ sock[k] = "syn" => uuids[k] = 0
        /\ k \in reg => uuids[k] = 0
    BY <2>1 DEF SocketInv, ParentTypes, SentSocks, RegisteredSocks
  <2>3. proc[NodeOf(e)] # "dead"
    BY <1>1 DEF AgentConnectedEvent, Waits
  <2>4. CASE sock[k] = "syn"
    <3>1. Moves(NodeOf(e), "send", k) /\ uuids' = uuids
      BY <1>1, <2>4 DEF AgentConnectedEvent, Spins, Moves
    <3> HIDE DEF k
    <3> QED
      BY <2>1, <2>2, <2>3, <2>4, <3>1 DEF Goes
  <2>5. CASE sock[k] # "syn"
    <3> DEFINE p == IF k \in reg THEN "sweep" ELSE "dead"
    <3>1. /\ Moves(NodeOf(k[1]), p, <<>>)
          /\ uuids' = uuids \/ uuids' = [uuids EXCEPT ![k] = @ + 1]
      BY <1>1, <2>1, <2>5 DEF AgentConnectedEvent, LeaveEventPool, Becomes, Moves
    <3>2. p \in {"sweep", "dead"} /\ (uuids[k] = 0 \/ p = "dead")
      BY <2>2
    <3> HIDE DEF k, p
    <3>3. CASE uuids' = uuids
      BY <2>1, <2>3, <3>1, <3>2, <3>3 DEF Goes
    <3>4. CASE uuids' = [uuids EXCEPT ![k] = @ + 1]
      BY <2>1, <2>3, <3>1, <3>2, <3>4 DEF Goes
    <3> QED
      BY <3>1, <3>3, <3>4
  <2> QED
    BY <2>4, <2>5
<1>2. ASSUME NEW n \in Nodes, SendUuid(n) PROVE Goes
  <2> DEFINE k == busy[n]
             p == IF k \in reg THEN "sweep" ELSE "dead"
  <2>1. k \in Sockets /\ NodeOf(k[1]) = n /\ proc[n] = "send" /\ uuids[k] = 0
    BY <1>2, OwnSocks DEF SendUuid, SocketInv, BusyOK, ParentTypes, LoopsKnown
  <2>2. CASE sock[k] = "refused"
    <3>1. Moves(n, "dead", <<>>) /\ uuids' = uuids
      BY <1>2, <2>2 DEF SendUuid, Becomes, Moves
    <3> QED
      BY <2>1, <3>1 DEF Goes
  <2>3. CASE sock[k] # "refused"
    <3>1. /\ Moves(NodeOf(k[1]), p, <<>>)
          /\ uuids' = [uuids EXCEPT ![k] = @ + 1]
      BY <1>2, <2>1, <2>3 DEF SendUuid, LeaveEventPool, Becomes, Moves
    <3>2. p \in {"sweep", "dead"}
      OBVIOUS
    <3> HIDE DEF k, p
    <3> QED
      BY <2>1, <3>1, <3>2 DEF Goes
  <2> QED
    BY <2>2, <2>3
<1> QED
  BY <1>1, <1>2

\* All the other steps.
LEMMA StepGoes ==
  ASSUME SocketInv, LoopsKnown, [Next]_vars
  PROVE  Goes
<1>1. ASSUME NEW n \in Nodes, Step(n) PROVE Goes
  <2>1. \A e \in EndsAt(n) : e \in Ends /\ NodeOf(e) = n
    BY DEF EndsAt
  <2>2. ASSUME NEW e \in EndsAt(n), Fork(e) \/ GiveUp(e) PROVE Goes
    BY <2>2 DEF Fork, GiveUp, Goes
  <2>3. ASSUME NEW e \in EndsAt(n), ControllerMessage(e) PROVE Goes
    <3>1. proc[n] = "wait" /\ Moves(n, "sweep", <<>>) /\ uuids' = uuids
      BY <2>1, <2>3 DEF ControllerMessage, Waits, Becomes, Moves
    <3> QED
      BY <3>1 DEF Goes
  <2>4. ASSUME NEW e \in EndsAt(n), HandleHostConnected(e) PROVE Goes
    <3> DEFINE p == IF HostSock(e) \in reg THEN "sweep" ELSE "dead"
    <3>1. proc[n] = "wait" /\ Moves(n, p, <<>>) /\ uuids' = uuids
      BY <2>1, <2>4 DEF HandleHostConnected, Waits, Becomes, Moves
    <3>2. p \in {"sweep", "dead"}
      OBVIOUS
    <3> HIDE DEF p
    <3> QED
      BY <3>1, <3>2 DEF Goes
  <2>5. ASSUME NEW t \in Tunnels, Src[t] = n, HandleHostSideConnect(t) PROVE Goes
    <3>1. proc[n] = "wait" /\ Moves(n, "sweep", <<>>) /\ uuids' = uuids
      BY <2>5 DEF HandleHostSideConnect, Waits, Becomes, Moves
    <3> QED
      BY <3>1 DEF Goes
  <2>6. ASSUME NEW k \in Sockets, Dst[k[1][1]] = n, AcceptAgentSide(k) PROVE Goes
    <3>1. proc[n] = "wait" /\ Moves(n, "sweep", <<>>) /\ uuids' = uuids
      BY <2>6 DEF AcceptAgentSide, Waits, Becomes, Moves
    <3> QED
      BY <3>1 DEF Goes
  <2>7. ASSUME NEW k \in Sockets, Dst[k[1][1]] = n, AwaitUuid(k) PROVE Goes
    <3>1. proc[n] = "wait" /\ Moves(n, "recv", k) /\ uuids' = uuids
      BY <2>7 DEF AwaitUuid, Waits, Spins, Moves, netVars
    <3> QED
      BY <3>1 DEF Goes
  <2>8. CASE SweepDone(n) \/ ConfirmClient(n) \/ DanglingEvent(n) \/ Idle(n)
    <3>1. /\ proc[n] # "dead" /\ uuids' = uuids
          /\ \E p \in {"sweep", "wait", "dead", "undefined"} : Moves(n, p, <<>>)
      BY <2>8
      DEF SweepDone, ConfirmClient, DanglingEvent, Idle, Waits, Becomes, Moves, netVars
    <3> QED
      BY <3>1 DEF Goes
  <2> QED
    BY <1>1, <2>1, <2>2, <2>3, <2>4, <2>5, <2>6, <2>7, <2>8, SendingGoes DEF Step
<1>2. ASSUME \/ \E k \in Sockets : Establish(k) \/ Refuse(k)
             \/ Tick \/ UNCHANGED vars
      PROVE  Goes
  BY <1>2 DEF Establish, Refuse, SockBecomes, Tick, vars, netVars, Goes
<1> QED
  BY <1>1, <1>2 DEF Next

\* A parent that dies stays so, and no other works on the socket it sends on.
LEMMA GoesKnown ==
  ASSUME SocketInv, LoopsKnown, UuidsKnown, Goes
  PROVE  LoopsKnown' /\ UuidsKnown'
<1>1. \A k \in Sockets : k # <<>> /\ NodeOf(k[1]) \in Nodes
  BY SocketParts, EndParts
<1>2. /\ proc \in [Nodes -> {"sweep", "wait", "recv", "send", "dead", "undefined"}]
      /\ busy \in [Nodes -> Sockets \cup {<<>>}] /\ uuids \in [Sockets -> Nat]
  BY DEF SocketInv, ParentTypes
<1>3. \A n \in Nodes : proc[n] = "send" => busy[n] \in Sockets /\ NodeOf(busy[n][1]) = n
  BY OwnSocks DEF SocketInv, BusyOK, ParentTypes
<1>4. CASE UNCHANGED <<proc, busy, uuids>>
  BY <1>4 DEF LoopsKnown, UuidsKnown, NodeOf
<1>5. ASSUME NEW n \in Nodes, NEW p \in {"sweep", "wait", "dead", "undefined"},
             proc[n] # "dead", Moves(n, p, <<>>), uuids' = uuids
      PROVE  LoopsKnown' /\ UuidsKnown'
  <2>1. LoopsKnown'
    BY <1>2, <1>5 DEF LoopsKnown, Moves
  <2>2. UuidsKnown'
    BY <1>1, <1>2, <1>5 DEF UuidsKnown, Moves, NodeOf
  <2> QED
    BY <2>1, <2>2
<1>6. ASSUME NEW n \in Nodes, NEW p \in {"recv", "send"}, NEW k \in Sockets,
             proc[n] # "dead", Moves(n, p, k), uuids' = uuids, p = "send" => uuids[k] = 0
      PROVE  LoopsKnown' /\ UuidsKnown'
  <2>1. LoopsKnown'
    BY <1>1, <1>2, <1>6 DEF LoopsKnown, Moves
  <2>2. UuidsKnown'
    BY <1>1, <1>2, <1>6 DEF UuidsKnown, Moves, NodeOf
  <2> QED
    BY <2>1, <2>2
<1>7. ASSUME NEW k \in Sockets, NEW p \in {"sweep", "dead"}, proc[NodeOf(k[1])] # "dead",
             Moves(NodeOf(k[1]), p, <<>>), uuids' = [uuids EXCEPT ![k] = @ + 1],
             uuids[k] = 0 \/ p = "dead"
      PROVE  LoopsKnown' /\ UuidsKnown'
  <2> DEFINE n == NodeOf(k[1])
  <2>1. n \in Nodes
    BY <1>1
  <2>2. /\ proc'[n] = p /\ busy'[n] = <<>>
        /\ \A m \in Nodes : m # n => proc'[m] = proc[m] /\ busy'[m] = busy[m]
    BY <1>2, <1>7, <2>1 DEF Moves
  <2>3. uuids'[k] = uuids[k] + 1 /\ \A j \in Sockets : j # k => uuids'[j] = uuids[j]
    BY <1>2, <1>7
  <2>4. \A j \in Sockets : NodeOf(j[1])' = NodeOf(j[1])
    BY DEF NodeOf
  <2>5. \A m \in Nodes : m # n /\ proc[m] = "send" => busy[m] \in Sockets /\ busy[m] # k
    BY <1>3
  <2>6. LoopsKnown'
    BY <1>7, <2>2, <2>3, <2>5 DEF LoopsKnown
  <2>7. UuidsKnown'
    <3>1. ASSUME NEW j \in Sockets
          PROVE  uuids'[j] <= 2 /\ (uuids'[j] = 2 => proc'[NodeOf(j[1])] = "dead")
      <4>1. /\ uuids[j] \in Nat /\ uuids[j] <= 2 /\ NodeOf(j[1]) \in Nodes
            /\ uuids[j] = 2 => proc[NodeOf(j[1])] = "dead"
        BY <1>1, <1>2 DEF UuidsKnown
      <4>2. CASE j = k
        BY <1>7, <2>2, <2>3, <4>1, <4>2
      <4>3. CASE j # k
        BY <1>7, <2>2, <2>3, <4>1, <4>3
      <4> QED
        BY <4>2, <4>3
    <3> QED
      BY <2>4, <3>1 DEF UuidsKnown
  <2> QED
    BY <2>6, <2>7
<1> QED
  BY <1>4, <1>5, <1>6, <1>7 DEF Goes

\* What becomes of the client of an end, when no connection of it is counted.
Kept(e) ==
  /\ client'[e].age <= TIMEOUT + 1
  /\ ClientEnd(e) =>
       \/ client'[e].num = client[e].num /\ client'[e].here = client[e].here
       \/ client'[e].num = 0

\* Winding accept_start back lets no client wait for longer than it would.
LEMMA ClientAges ==
  ASSUME NEW e \in Ends, NEW c \in ClientRec, c.age <= TIMEOUT + 1
  PROVE  /\ WindBack(c).age <= TIMEOUT + 1
         /\ WindBackIfComplete(e, c).age <= TIMEOUT + 1
         /\ Reconnecting(e, c).age <= TIMEOUT + 1
<1>1. c.age \in Nat /\ TIMEOUT \in Nat
  BY NumberAssumption DEF ClientRec
<1>2. WindBack(c).age = IF c.age + TIMEOUT > TIMEOUT THEN TIMEOUT + 1 ELSE c.age + TIMEOUT
  BY DEF WindBack, ClientRec
<1>3. Reconnecting(e, c).age = c.age
  BY DEF Reconnecting, ClientRec
<1> QED
  BY <1>1, <1>2, <1>3 DEF WindBackIfComplete

\* What a new client counts.
LEMMA NoClientCounts ==
  /\ NoClient.age = 0 /\ NoClient.num = 0
  /\ FreshClient.age = 0 /\ FreshClient.num = 0 /\ FreshClient.here
  /\ 0 <= TIMEOUT + 1
BY NumberAssumption DEF NoClient, FreshClient

\* An end that connects begins to count again.
LEMMA ConnectKeeps ==
  ASSUME ParentTypes, CountsKnown, NEW S \in SUBSET Ends, NEW cl \in [Ends -> ClientRec],
         NEW sk, NEW rg, Connect(S, cl, sk, rg),
         \A e \in Ends :
           /\ cl[e].age <= TIMEOUT + 1
           /\ ClientEnd(e) => cl[e].num = 0 \/ (/\ cl[e].num = client[e].num
                                                /\ cl[e].here = client[e].here)
  PROVE  \A e \in Ends : Kept(e)
<1> SUFFICES ASSUME NEW e \in Ends PROVE Kept(e)
  OBVIOUS
<1>1. client'[e] = IF e \in S THEN Reconnecting(e, cl[e]) ELSE cl[e]
  BY DEF Connect
<1>2. cl[e] \in ClientRec
  OBVIOUS
<1>3. /\ Reconnecting(e, cl[e]).age <= TIMEOUT + 1
      /\ ClientEnd(e) => Reconnecting(e, cl[e]).num = 0
  BY <1>2, ClientAges, ClientUpdates
<1> QED
  BY <1>1, <1>3 DEF Kept

\* The steps that connect.
LEMMA ConnectingKeeps ==
  ASSUME SocketInv, CountsKnown,
         \/ \E e \in Ends : ControllerMessage(e)
         \/ \E t \in Tunnels : HandleHostSideConnect(t)
         \/ \E n \in Nodes : ConfirmClient(n)
  PROVE  \A e \in Ends : Kept(e)
<1>1. ParentTypes /\ client \in [Ends -> ClientRec]
  BY DEF SocketInv, ParentTypes
<1>2. ASSUME NEW m \in Ends, ControllerMessage(m) PROVE \A e \in Ends : Kept(e)
  <2> DEFINE S == {e \in EndsAt(NodeOf(m)) : client[e].here /\ requests'[e] > 0}
  <2>1. S \in SUBSET Ends /\ Connect(S, client, sock, reg)
    BY <1>2 DEF ControllerMessage, EndsAt
  <2> HIDE DEF S
  <2>2. \A e \in Ends : client[e].age <= TIMEOUT + 1
    BY DEF CountsKnown
  <2> QED
    BY <1>1, <2>1, <2>2, ConnectKeeps
<1>3. ASSUME NEW t \in Tunnels, HandleHostSideConnect(t) PROVE \A e \in Ends : Kept(e)
  <2> DEFINE h  == <<t, "CLIENT">>
             S  == IF Requested(h) THEN {h} ELSE {}
             cl == [client EXCEPT ![h] = FreshClient]
             sk == [sock EXCEPT ![HostSock(h)] = "up"]
             rg == reg \cup {HostSock(h)}
  <2>1. h \in Ends /\ S \in SUBSET Ends
    BY EndParts
  <2>2. Connect(S, cl, sk, rg)
    BY <1>3 DEF HandleHostSideConnect
  <2>3. cl \in [Ends -> ClientRec]
    BY <1>1, <2>1, NoClientType
  <2>4. \A e \in Ends : cl[e] = IF e = h THEN FreshClient ELSE client[e]
    BY <1>1, <2>1
  <2> HIDE DEF S, cl, sk, rg
  <2>5. \A e \in Ends :
          /\ cl[e].age <= TIMEOUT + 1
          /\ ClientEnd(e) => cl[e].num = 0 \/ (/\ cl[e].num = client[e].num
                                               /\ cl[e].here = client[e].here)
    BY <2>4, NoClientCounts DEF CountsKnown
  <2> QED
    BY <1>1, <2>1, <2>2, <2>3, <2>5, ConnectKeeps
<1>4. ASSUME NEW n \in Nodes, ConfirmClient(n) PROVE \A e \in Ends : Kept(e)
  <2> DEFINE k  == busy[n]
             a  == <<k[1][1], "AGENT">>
             b  == IF client[a].here THEN client[a] ELSE FreshClient
             c  == [b EXCEPT !.num = @ + 1, !.joined = @ \cup {k}]
             w  == WindBackIfComplete(a, c)
             S  == IF client[a].here \/ ~Requested(a) THEN {} ELSE {a}
             cl == [client EXCEPT ![a] = w]
  <2>1. k \in Sockets /\ a \in Ends /\ ~ClientEnd(a)
    <3>1. k \in Sockets
      BY <1>4 DEF ConfirmClient, SocketInv, BusyOK, ParentTypes
    <3>2. k[1][1] \in Tunnels
      BY <3>1, SocketParts, EndParts
    <3> QED
      BY <3>1, <3>2, EndParts DEF ClientEnd
  <2>2. Connect(S, cl, sock, reg) /\ S \in SUBSET Ends
    BY <1>4, <2>1 DEF ConfirmClient
  <2>3. b \in ClientRec /\ b.age <= TIMEOUT + 1
    BY <1>1, <2>1, NoClientType, NoClientCounts DEF CountsKnown
  <2> HIDE DEF k, a, b, S
  <2>4. c \in ClientRec /\ c.age = b.age
    <3> HIDE DEF w, cl
    <3>1. b.num \in Nat /\ b.joined \subseteq Sockets
      BY <2>3 DEF ClientRec
    <3> DEFINE d == [b EXCEPT !.num = @ + 1]
    <3>2. d \in ClientRec /\ d.age = b.age /\ d.joined = b.joined
      BY <2>3, <3>1 DEF ClientRec
    <3>3. c = [d EXCEPT !.joined = @ \cup {k}]
      OBVIOUS
    <3> HIDE DEF c, d
    <3>4. /\ [d EXCEPT !.joined = @ \cup {k}] \in ClientRec
          /\ [d EXCEPT !.joined = @ \cup {k}].age = d.age
      BY <2>1, <3>1, <3>2 DEF ClientRec
    <3> QED
      BY <3>2, <3>3, <3>4
  <2> HIDE DEF c
  <2>5. w \in ClientRec /\ w.age <= TIMEOUT + 1
    BY <2>1, <2>3, <2>4, ClientUpdates, ClientAges
  <2> HIDE DEF w
  <2>6. /\ cl \in [Ends -> ClientRec]
        /\ \A e \in Ends : cl[e] = IF e = a THEN w ELSE client[e]
    BY <1>1, <2>1, <2>5
  <2> HIDE DEF cl
  <2>7. \A e \in Ends :
          /\ cl[e].age <= TIMEOUT + 1
          /\ ClientEnd(e) => cl[e].num = 0 \/ (/\ cl[e].num = client[e].num
                                               /\ cl[e].here = client[e].here)
    BY <2>1, <2>5, <2>6 DEF CountsKnown
  <2> QED
    BY <1>1, <2>2, <2>6, <2>7, ConnectKeeps
<1> QED
  BY <1>2, <1>3, <1>4

\* A step that leaves all clients but one as they are.
LEMMA OneChanged ==
  ASSUME ParentTypes, CountsKnown, NEW e \in Ends, NEW w \in ClientRec,
         client' = [client EXCEPT ![e] = w], w.age <= TIMEOUT + 1,
         w.num = 0 \/ (w.num = client[e].num /\ w.here = client[e].here)
  PROVE  \A d \in Ends : Kept(d)
<1>1. \A d \in Ends : client'[d] = IF d = e THEN w ELSE client[d]
  BY DEF ParentTypes
<1>2. \A d \in Ends : client[d].age <= TIMEOUT + 1
  BY DEF CountsKnown
<1> QED
  BY <1>1, <1>2 DEF Kept

\* All steps but the event of an agent socket count no connection.
LEMMA StepKeeps ==
  ASSUME SocketInv, CountsKnown, [Next]_vars
  PROVE  \/ \A e \in Ends : Kept(e)
         \/ \E e \in Ends, i \in 1..Allowed : AgentConnectedEvent(e, i)
<1>1. ParentTypes /\ client \in [Ends -> ClientRec]
  BY DEF SocketInv, ParentTypes
<1>2. \A e \in Ends : client[e] \in ClientRec /\ client[e].age <= TIMEOUT + 1
  BY <1>1 DEF CountsKnown
<1>3. ASSUME client' = client PROVE \A e \in Ends : Kept(e)
  BY <1>2, <1>3 DEF Kept
<1>4. ASSUME NEW e \in Ends, Fork(e) \/ GiveUp(e) PROVE \A d \in Ends : Kept(d)
  <2>1. client' = [client EXCEPT ![e] = NoClient]
    BY <1>4 DEF Fork, GiveUp, Forget, Removed
  <2> QED
    BY <1>1, <2>1, NoClientType, NoClientCounts, OneChanged
<1>5. ASSUME NEW e \in Ends, HandleHostConnected(e) PROVE \A d \in Ends : Kept(d)
  <2> DEFINE off == [client[e] EXCEPT !.host = "OFF"]
             in  == [client[e] EXCEPT !.host = "IN"]
  <2>1. /\ off \in ClientRec /\ in \in ClientRec
        /\ off.here = client[e].here /\ off.num = client[e].num /\ off.age = client[e].age
        /\ in.here = client[e].here /\ in.num = client[e].num /\ in.age = client[e].age
    BY <1>2 DEF ClientRec
  <2>2. client' = [client EXCEPT ![e] = IF sock[HostSock(e)] = "refused" THEN WindBack(off)
                                        ELSE WindBackIfComplete(e, in)]
    BY <1>5 DEF HandleHostConnected
  <2> HIDE DEF off, in
  <2>3. \A c \in {WindBack(off), WindBackIfComplete(e, in)} :
          /\ c \in ClientRec /\ c.age <= TIMEOUT + 1
          /\ c.num = client[e].num /\ c.here = client[e].here
    BY <1>2, <2>1, ClientUpdates, ClientAges
  <2>4. PICK w \in {WindBack(off), WindBackIfComplete(e, in)} :
          client' = [client EXCEPT ![e] = w]
    BY <2>2
  <2> QED
    BY <1>1, <2>3, <2>4, OneChanged
<1>6. ASSUME NEW n \in Nodes, SendUuid(n) PROVE \A d \in Ends : Kept(d)
  <2> DEFINE e == busy[n][1]
             w == WindBackIfComplete(e, client[e])
  <2>1. e \in Ends
    BY <1>6, OwnSocks DEF SendUuid, SocketInv, BusyOK, ParentTypes
  <2>2. client' = client \/ client' = [client EXCEPT ![e] = w]
    BY <1>6 DEF SendUuid, LeaveEventPool
  <2> HIDE DEF e
  <2>3. /\ w \in ClientRec /\ w.age <= TIMEOUT + 1
        /\ w.num = client[e].num /\ w.here = client[e].here
    BY <1>2, <2>1, ClientUpdates, ClientAges
  <2> HIDE DEF w
  <2> QED
    BY <1>1, <1>3, <2>1, <2>2, <2>3, OneChanged
<1>7. CASE Tick
  <2> SUFFICES ASSUME NEW e \in Ends PROVE Kept(e)
    OBVIOUS
  <2>1. client'[e] = IF client[e].here /\ client[e].age <= TIMEOUT
                     THEN [client[e] EXCEPT !.age = @ + 1] ELSE client[e]
    BY <1>7 DEF Tick
  <2>2. /\ [client[e] EXCEPT !.age = @ + 1].age = client[e].age + 1
        /\ [client[e] EXCEPT !.age = @ + 1].num = client[e].num
        /\ [client[e] EXCEPT !.age = @ + 1].here = client[e].here
        /\ client[e].age \in Nat /\ TIMEOUT \in Nat
    BY <1>2, NumberAssumption DEF ClientRec
  <2>3. client'[e].age <= TIMEOUT + 1
    BY <1>2, <2>1, <2>2
  <2> QED
    BY <2>1, <2>2, <2>3 DEF Kept
<1>8. ASSUME NEW n \in Nodes, Step(n)
      PROVE  \/ \A e \in Ends : Kept(e)
             \/ \E e \in Ends, i \in 1..Allowed : AgentConnectedEvent(e, i)
  <2>1. EndsAt(n) \subseteq Ends
    BY DEF EndsAt
  <2>2. ASSUME NEW k \in Sockets, AcceptAgentSide(k) \/ AwaitUuid(k) PROVE client' = client
    BY <2>2 DEF AcceptAgentSide, AwaitUuid
  <2>3. ASSUME SweepDone(n) \/ DanglingEvent(n) \/ Idle(n) PROVE client' = client
    BY <2>3 DEF SweepDone, DanglingEvent, Idle
  <2> QED
    BY <1>3, <1>4, <1>5, <1>6, <1>8, <2>1, <2>2, <2>3, ConnectingKeeps DEF Step
<1>9. ASSUME \/ \E k \in Sockets : Establish(k) \/ Refuse(k)
             \/ UNCHANGED vars
      PROVE  client' = client
  BY <1>9 DEF Establish, Refuse, SockBecomes, vars
<1> QED
  BY <1>3, <1>7, <1>8, <1>9 DEF Next

\* The sockets of an end are enough for all it opens.
LEMMA RoomToCount ==
  /\ Allowed <= Allowed * MaxGen /\ Allowed * MaxGen \in Nat
  /\ MaxGen >= 2 => Allowed + 1 <= Allowed * MaxGen
<1>1. /\ Allowed \in Nat /\ Allowed >= 1 /\ MaxGen \in Nat /\ MaxGen >= 1
  BY NumberAssumption
<1>2. Allowed * MaxGen \in Nat
  BY <1>1
<1>3. Allowed * 1 <= Allowed * MaxGen
  BY <1>1
<1>4. MaxGen >= 2 => Allowed * 2 <= Allowed * MaxGen
  BY <1>1
<1> QED
  BY <1>1, <1>2, <1>3, <1>4

\* A socket that is not ready leaves room for one more.
LEMMA ReadyBound ==
  ASSUME NEW e
  PROVE  /\ Cardinality(Ready(e)) <= Allowed
         /\ \A i \in 1..Allowed : i \notin Ready(e) => Cardinality(Ready(e)) + 1 <= Allowed
<1>1. IsFiniteSet(1..Allowed) /\ Cardinality(1..Allowed) = Allowed
  BY FS_Interval, NumberAssumption
<1>2. Ready(e) \subseteq 1..Allowed
  BY DEF Ready
<1>3. Cardinality(Ready(e)) <= Allowed
  BY <1>1, <1>2, FS_Subset
<1>4. ASSUME NEW i \in 1..Allowed, i \notin Ready(e)
      PROVE  Cardinality(Ready(e)) + 1 <= Allowed
  <2>1. Cardinality(Ready(e) \cup {i}) = Cardinality(Ready(e)) + 1
    BY <1>4, ReadyFinite, AddOne
  <2>2. Cardinality(Ready(e) \cup {i}) <= Cardinality(1..Allowed)
    <3>1. Ready(e) \cup {i} \in SUBSET (1..Allowed)
      BY <1>2
    <3> QED
      BY <1>1, <3>1, FS_Subset
  <2> QED
    BY <1>1, <2>1, <2>2
<1> QED
  BY <1>3, <1>4

\* An event counts a connection that is not ready, or one of an end that has connected
\* twice.
LEMMA CountedBound ==
  ASSUME SocketInv, SocketsKnown, NEW e \in Ends, NEW i \in 1..Allowed,
         AgentConnectedEvent(e, i)
  PROVE  ClientEnd(e) /\ client[e].num + 1 <= Allowed * MaxGen
<1> DEFINE k == AgentSock(e, i)
<1>1. PICK s \in reg : s[1] = e /\ s[2] = i /\ sock[s] # "syn"
  BY DEF AgentConnectedEvent
<1>2. ~IsHost(s) /\ s \in Sockets
  BY <1>1, NumberAssumption DEF IsHost, SocketInv, ParentTypes
<1>3. ClientEnd(e) /\ client[e].here /\ proc[NodeOf(e)] = "wait"
  BY <1>1, <1>2, WaitingSocks DEF AgentConnectedEvent, Waits
<1>4. client[e].num = Cardinality(Ready(e)) /\ Cardinality(Ready(e)) \in Nat
  BY <1>3, ReadyFinite DEF SocketInv, ClientCount, SendingFor
<1>5. CASE k \in reg
  <2>1. i \notin Ready(e)
    BY <1>5 DEF Ready, ReadySock
  <2> QED
    BY <1>3, <1>4, <2>1, ReadyBound, RoomToCount, NumberAssumption
<1>6. CASE k \notin reg
  <2>1. s[3] # gen[e]
    BY <1>1, <1>2, <1>6, SocketParts DEF AgentSock
  <2>2. s[3] <= gen[e] /\ s[3] # 0
    BY <1>1, <1>2 DEF SocketsKnown
  <2>3. s[3] \in Nat /\ gen[e] \in 0..MaxGen
    BY <1>2, SocketParts, NumberAssumption DEF SocketInv, ParentTypes
  <2>4. MaxGen >= 2
    BY <2>1, <2>2, <2>3, NumberAssumption
  <2> QED
    BY <1>3, <1>4, <2>4, ReadyBound, RoomToCount, NumberAssumption
<1> QED
  BY <1>5, <1>6

\* So it keeps the counts.
LEMMA CountedKnown ==
  ASSUME SocketInv, SocketsKnown, CountsKnown, NEW e \in Ends, NEW i \in 1..Allowed,
         AgentConnectedEvent(e, i)
  PROVE  CountsKnown'
<1> DEFINE c == Counted(e, i)
           w == WindBackIfComplete(e, c)
<1>1. client[e].here /\ client[e] \in ClientRec /\ client \in [Ends -> ClientRec]
  BY DEF AgentConnectedEvent, SocketInv, ParentTypes
<1>2. AgentSock(e, i)[1] = e
  BY OwnSocks DEF SocketInv, ParentTypes
<1>3. /\ c \in ClientRec /\ c.here /\ c.age = client[e].age
      /\ c.num = client[e].num \/ c.num = client[e].num + 1
  <2>1. ASSUME NEW b \in ClientRec
        PROVE  /\ [b EXCEPT !.num = @ + 1] \in ClientRec
               /\ [b EXCEPT !.num = @ + 1].here = b.here
               /\ [b EXCEPT !.num = @ + 1].age = b.age
               /\ [b EXCEPT !.num = @ + 1].num = b.num + 1
    BY DEF ClientRec
  <2>2. \/ c = client[e]
        \/ c = [client[e] EXCEPT !.num = @ + 1]
    BY DEF Counted
  <2> QED
    BY <1>1, <2>1, <2>2
<1>4. client' = [client EXCEPT ![e] = c] \/ client' = [client EXCEPT ![e] = w]
  BY <1>2 DEF AgentConnectedEvent, LeaveEventPool
<1> HIDE DEF c
<1>5. w \in ClientRec /\ w.here /\ w.num = c.num /\ w.age <= TIMEOUT + 1
  BY <1>3, ClientUpdates, ClientAges DEF CountsKnown
<1> HIDE DEF w
<1>6. client[e].num <= Allowed * MaxGen /\ client[e].num + 1 <= Allowed * MaxGen
  BY CountedBound DEF CountsKnown
<1>7. \A d \in Ends : d # e => client'[d] = client[d]
  BY <1>1, <1>4
<1>8. /\ client'[e].here /\ client'[e].num <= Allowed * MaxGen
      /\ client'[e].age <= TIMEOUT + 1
  BY <1>1, <1>3, <1>4, <1>5, <1>6 DEF CountsKnown
<1> QED
  BY <1>7, <1>8 DEF CountsKnown, ClientEnd

\* The numbers stay known.
LEMMA NumbersStep ==
  SocketInv /\ SocketsKnown /\ NumbersKnown /\ [Next]_vars => NumbersKnown'
<1> SUFFICES ASSUME SocketInv, SocketsKnown, NumbersKnown, [Next]_vars PROVE NumbersKnown'
  OBVIOUS
<1>1. LoopsKnown' /\ UuidsKnown'
  BY StepGoes, GoesKnown DEF NumbersKnown
<1>2. CountsKnown'
  <2>1. ASSUME \A e \in Ends : Kept(e) PROVE CountsKnown'
    <3>1. /\ TIMEOUT \in Nat /\ Allowed * MaxGen \in Nat
      BY NumberAssumption, RoomToCount
    <3> QED
      BY <2>1, <3>1 DEF NumbersKnown, CountsKnown, Kept, ClientEnd
  <2> QED
    BY <2>1, StepKeeps, CountedKnown DEF NumbersKnown
<1>3. inherited' \subseteq Sockets
  <2>1. ASSUME NEW e \in Ends, Fork(e) PROVE inherited' \subseteq Sockets
    BY <2>1 DEF Fork, NumbersKnown, SocketInv, ParentTypes
  <2>2. ASSUME NEW n \in Nodes, Step(n) PROVE inherited' \subseteq Sockets
    <3>1. EndsAt(n) \subseteq Ends
      BY DEF EndsAt
    <3>2. ASSUME NEW e \in Ends, ~Fork(e),
                 \/ GiveUp(e) \/ ControllerMessage(e) \/ HandleHostConnected(e)
                 \/ \E i \in 1..Allowed : AgentConnectedEvent(e, i)
          PROVE  inherited' = inherited
      BY <3>2 DEF GiveUp, ControllerMessage, HandleHostConnected, AgentConnectedEvent
    <3>3. ASSUME \/ \E t \in Tunnels : HandleHostSideConnect(t)
                 \/ \E k \in Sockets : AcceptAgentSide(k) \/ AwaitUuid(k)
                 \/ SweepDone(n) \/ SendUuid(n) \/ ConfirmClient(n)
                 \/ DanglingEvent(n) \/ Idle(n)
          PROVE  inherited' = inherited
      BY <3>3
      DEF HandleHostSideConnect, AcceptAgentSide, AwaitUuid, SweepDone, SendUuid,
          ConfirmClient, DanglingEvent, Idle, netVars
    <3> QED
      BY <2>1, <2>2, <3>1, <3>2, <3>3 DEF Step, NumbersKnown
  <2>3. ASSUME \/ \E k \in Sockets : Establish(k) \/ Refuse(k)
               \/ Tick \/ UNCHANGED vars
        PROVE  inherited' = inherited
    BY <2>3 DEF Establish, Refuse, SockBecomes, Tick, vars, netVars
  <2> QED
    BY <2>2, <2>3 DEF Next, NumbersKnown
<1> QED
  BY <1>1, <1>2, <1>3 DEF NumbersKnown

\* All is zero at first.
LEMMA NumbersInit == Init => NumbersKnown
<1> SUFFICES ASSUME Init PROVE NumbersKnown
  OBVIOUS
<1>1. LoopsKnown /\ UuidsKnown /\ inherited \subseteq Sockets
  BY DEF Init, LoopsKnown, UuidsKnown
<1>2. \A e \in Ends : client[e].age = 0 /\ client[e].num = 0
  BY NoClientCounts DEF Init
<1>3. CountsKnown
  BY <1>2, RoomToCount, NumberAssumption DEF CountsKnown
<1> QED
  BY <1>1, <1>3 DEF NumbersKnown

\* An AGENT end is joined by no more sockets than the CLIENT end of its tunnel opens.
LEMMA JoinedBound ==
  ASSUME SocketInv, SocketsKnown, NEW e \in Ends, ~ClientEnd(e)
  PROVE  client[e].num <= Allowed * MaxGen
<1> DEFINE h == <<e[1], "CLIENT">>
           P == (1..Allowed) \X (1..MaxGen)
           T == {<<h, p[1], p[2]>> : p \in P}
           f == [p \in P |-> <<h, p[1], p[2]>>]
<1>1. IsFiniteSet(P) /\ Cardinality(P) = Allowed * MaxGen
  <2>1. /\ IsFiniteSet(1..Allowed) /\ Cardinality(1..Allowed) = Allowed
        /\ IsFiniteSet(1..MaxGen) /\ Cardinality(1..MaxGen) = MaxGen
    BY FS_Interval, NumberAssumption
  <2>2. IsFiniteSet(P) /\ Cardinality(P) = Cardinality(1..Allowed) * Cardinality(1..MaxGen)
    BY <2>1, FS_Product, Zenon
  <2> QED
    BY <2>1, <2>2
<1>2. f \in Surjection(P, T)
  BY DEF Surjection
<1>3. ASSUME NEW k \in client[e].joined PROVE k \in T
  <2>1. k \in Sockets /\ sock[k] = "accepted" /\ uuids[k] > 0 /\ k[1][1] = e[1]
    BY DEF SocketInv, ParentTypes, ClientRec, JoinedSocks, SocketsKnown
  <2>2. ~IsHost(k)
    BY <2>1 DEF SocketInv, SentSocks
  <2>3. ClientEnd(k[1]) /\ k[3] # 0
    BY <2>1, <2>2 DEF SocketInv, FreshSocks, SocketsKnown
  <2>4. k[1] = h
    BY <2>1, <2>3, SocketParts, EndParts DEF ClientEnd
  <2>5. /\ k = <<k[1], k[2], k[3]>> /\ k[2] \in 0..Allowed /\ k[3] \in 0..MaxGen
    BY <2>1, SocketParts
  <2>6. k[2] \in 1..Allowed /\ k[3] \in 1..MaxGen
    BY <2>2, <2>3, <2>5, NumberAssumption DEF IsHost
  <2> DEFINE p == <<k[2], k[3]>>
  <2>7. p \in P /\ k = <<h, p[1], p[2]>>
    BY <2>4, <2>5, <2>6
  <2> QED
    BY <2>7
<1> HIDE DEF h, P, T, f
<1>4. IsFiniteSet(T) /\ Cardinality(T) <= Allowed * MaxGen
  BY <1>1, <1>2, FS_Surjection
<1>5. client[e].joined \subseteq T /\ client[e].num = Cardinality(client[e].joined)
  BY <1>3 DEF SocketInv, JoinedSocks
<1>6. /\ Cardinality(client[e].joined) <= Cardinality(T)
      /\ IsFiniteSet(client[e].joined)
  BY <1>4, <1>5, FS_Subset
<1>7. Cardinality(client[e].joined) \in Nat /\ Cardinality(T) \in Nat
  BY <1>4, <1>6, FS_CardinalityType
<1> QED
  BY <1>4, <1>5, <1>6, <1>7, RoomToCount

\* A CLIENT end whose parent lives counts no more than agent_sock[] holds.
LEMMA LiveBound ==
  ASSUME SocketInv, NumbersKnown, NEW e \in Ends, ClientEnd(e), proc[NodeOf(e)] # "dead"
  PROVE  client[e].num <= Allowed
<1>1. Allowed \in Nat /\ Cardinality(Ready(e)) \in Nat
  BY NumberAssumption, ReadyFinite
<1>2. CASE ~client[e].here
  BY <1>1, <1>2 DEF NumbersKnown, CountsKnown
<1>3. CASE client[e].here /\ ~SendingFor(e)
  BY <1>1, <1>3, ReadyBound DEF SocketInv, ClientCount
<1>4. CASE client[e].here /\ SendingFor(e)
  <2> DEFINE n == NodeOf(e)
  <2>1. n \in Nodes /\ proc[n] = "send" /\ busy[n][1] = e
    BY <1>4, EndParts DEF SendingFor
  <2>2. PICK d \in Ends, i \in 1..Allowed : busy[n] = AgentSock(d, i)
    BY <2>1 DEF SocketInv, BusyOK
  <2>3. busy[n] = AgentSock(e, i)
    BY <2>1, <2>2, OwnSocks DEF SocketInv, ParentTypes
  <2>4. uuids[AgentSock(e, i)] = 0
    BY <2>1, <2>3 DEF NumbersKnown, LoopsKnown
  <2>5. i \notin Ready(e)
    BY <2>4 DEF Ready, ReadySock
  <2>6. Cardinality(Ready(e)) + 1 <= Allowed
    BY <2>5, ReadyBound
  <2> QED
    BY <1>1, <1>4, <2>6 DEF SocketInv, ClientCount
<1> QED
  BY <1>2, <1>3, <1>4

\* Every parent is somewhere in poll_loop(), whatever comes: no client counts more
\* connections than its end opened, and none that lives more than agent_sock[] holds.
THEOREM ParentsTyped == Spec => []TypeOK
<1>1. ASSUME SocketInv, LedgerInv, SocketsKnown, NumbersKnown PROVE TypeOK
  <2>1. client \in [Ends -> Client]
    <3>1. ASSUME NEW e \in Ends PROVE client[e] \in Client
      <4>1. client[e] \in ClientRec
        BY <1>1 DEF SocketInv, ParentTypes
      <4>2. client[e].num <= Allowed * MaxGen /\ client[e].age <= TIMEOUT + 1
        BY <1>1, JoinedBound DEF NumbersKnown, CountsKnown
      <4>3. client[e].num \in 0..(Allowed * MaxGen) /\ client[e].age \in 0..(TIMEOUT + 1)
        BY <4>1, <4>2, RoomToCount, NumberAssumption DEF ClientRec
      <4> QED
        BY <4>1, <4>3 DEF Client, ClientRec
    <3> QED
      BY <1>1, <3>1 DEF SocketInv, ParentTypes
  <2>2. uuids \in [Sockets -> 0..3]
    <3>1. ASSUME NEW k \in Sockets PROVE uuids[k] \in 0..3
      <4>1. uuids[k] \in Nat /\ uuids[k] <= 2
        BY <1>1 DEF SocketInv, ParentTypes, NumbersKnown, UuidsKnown
      <4> QED
        BY <4>1
    <3> QED
      BY <1>1, <3>1 DEF SocketInv, ParentTypes
  <2>3. \A e \in Ends : e[2] = "CLIENT" /\ proc[NodeOf(e)] # "dead"
                          => client[e].num <= Allowed
    BY <1>1, LiveBound DEF ClientEnd
  <2>4. reg \cup dangling \cup inherited \cup pool \subseteq Sockets
    BY <1>1 DEF SocketInv, ParentTypes, SocketsKnown, NumbersKnown
  <2>5. \A n \in Nodes : busy[n] # <<>> <=> proc[n] \in {"recv", "send"}
    BY <1>1 DEF NumbersKnown, LoopsKnown
  <2>6. \A c \in children : c.end \in Ends /\ c.socks \subseteq Sockets
    BY <1>1 DEF SocketInv, ParentTypes
  <2> QED
    BY <1>1, <2>1, <2>2, <2>3, <2>4, <2>5, <2>6
    DEF TypeOK, SocketInv, ParentTypes, LedgerInv
<1> QED
  BY <1>1, SocketInit, SocketStep, LedgerInit, LedgerStep, KnownInit, KnownStep,
     NumbersInit, NumbersStep, PTL DEF Spec

=============================================================================
