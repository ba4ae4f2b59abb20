---------------------------- MODULE OutboundProofs ----------------------------
(***************************************************************************)
(* Proofs that the outbound half of a child is a StripedSender, with every *)
(* environment event, and that it leaves nothing behind when nothing but   *)
(* the host ends the tunnel.                                               *)
(***************************************************************************)
EXTENDS ChildProofs

(***************************************************************************)
(* The refinement.                                                         *)
(***************************************************************************)

\* The host never has more chunks out than it writes.
HostBound == sendSeq + hostIn <= MaxChunks

\* What StripedSender sees of a child.
OutboundState == <<sendSeq, packet, wireOut, [j \in Agents |-> IsUp(j)]>>

\* Nothing of it changes.
Unseen == OutboundState' = OutboundState

\* A step of StripedSender, or none.
Seen == Outbound!Next \/ Unseen

\* A running child has the connections that are open.
LEMMA UpRunning ==
  ASSUME Running
  PROVE  [j \in Agents |-> IsUp(j)] = [j \in Agents |-> agentSock[j] = "open"]
BY DEF Running, IsUp

\* So it has after a step that does not end it.
LEMMA UpStillRunning ==
  ASSUME ~Terminated'
  PROVE  [j \in Agents |-> IsUp(j)]' = [j \in Agents |-> agentSock'[j] = "open"]
BY DEF IsUp, Terminated

\* One that has ended has none.
LEMMA UpEnded ==
  ASSUME Terminated'
  PROVE  [j \in Agents |-> IsUp(j)]' = [j \in Agents |-> FALSE]
BY DEF IsUp, Terminated

\* A step that ends the child, with what it was sending as it is.
LEMMA EndSeen ==
  ASSUME Terminated', UNCHANGED <<sendSeq, packet, wireOut>>
  PROVE  Seen
<1>1. Outbound!Die
  BY UpEnded DEF Outbound!Die
<1> QED
  BY <1>1 DEF Seen, Outbound!Next

\* A step that opens and breaks nothing.
LEMMA SameUpUnseen ==
  ASSUME Running, ~Terminated', UNCHANGED <<sendSeq, packet, wireOut>>,
         \A j \in Agents : agentSock'[j] = "open" <=> agentSock[j] = "open"
  PROVE  Unseen
BY UpRunning, UpStillRunning DEF Unseen, OutboundState

\* A step without effect on the connections, which may be the last one.
LEMMA SameSocketsSeen ==
  ASSUME Running, UNCHANGED <<sendSeq, packet, wireOut, agentSock>>
  PROVE  Seen
BY EndSeen, SameUpUnseen DEF Seen

\* Units and packets of the code are those of StripedSender.
LEMMA SamePackets ==
  ASSUME NEW p, NEW n
  PROVE  /\ Outbound!Units(p, n) = Units(p, n)
         /\ Outbound!After(p, n) = AfterSend(p, n)
BY DEF Outbound!Units, Outbound!After, Outbound!EmptyPacket, Units, AfterSend, EmptyPacket

\* How much the send loop puts on connection i.
LEMMA SendableUnits ==
  ASSUME SendTypeOK, NEW i \in Agents, NEW p \in Packet
  PROVE  /\ Sendable(i, p) \in 0..PktUnits /\ Sendable(i, p) <= p.left
         /\ Len(wireOut[i]) + Sendable(i, p) <= WireCap
         /\ p.left > 0 /\ Room(i) >= OutLowat => Sendable(i, p) > 0
<1>1. p.left \in Nat /\ p.left <= PktUnits /\ PktUnits \in Nat
  BY UnitsAssumption DEF Packet, PktUnits
<1>2. Len(wireOut[i]) \in Nat /\ Len(wireOut[i]) <= WireCap
  BY LenProperties DEF SendTypeOK
<1> QED
  BY <1>1, <1>2, WireAssumption, SendAssumption DEF Sendable, Room

\* The send loop puts units of p on connection i.
LEMMA SendSomePut ==
  ASSUME ChildTypeOK, SendTypeOK, Running, NEW i \in Agents, NEW p \in Packet, NEW am,
         SendSome(i, p, am)
  PROVE  Outbound!Put(i, p, Sendable(i, p))
<1>1. /\ wireOut' = [wireOut EXCEPT ![i] = @ \o Outbound!Units(p, Sendable(i, p))]
      /\ packet' = [packet EXCEPT ![i] = Outbound!After(p, Sendable(i, p))]
      /\ agentSock' = agentSock /\ pc' = "top"
  BY SamePackets DEF SendSome
<1>2. ~Terminated'
  BY <1>1 DEF Terminated, Aborts
<1>3. [j \in Agents |-> IsUp(j)]' = [j \in Agents |-> IsUp(j)]
  BY <1>1, <1>2, UpRunning, UpStillRunning
<1> QED
  BY <1>1, <1>3, SendableUnits DEF Outbound!Put

\* Of a broken connection the child is rid, or dies.
LEMMA SendBroken ==
  ASSUME ChildTypeOK, SendTypeOK, Running, NEW i \in Agents, NEW p \in Packet, NEW am,
         SendReset(i, p, am) \/ SendPipe(i, p, am)
  PROVE  /\ ~IsUp(i)
         /\ Terminated' \/ [j \in Agents |-> IsUp(j)]' = [j \in Agents |-> IsUp(j)]
         /\ packet' = [packet EXCEPT ![i] = p] /\ wireOut' = wireOut
<1>1. agentSock' = agentSock \/ agentSock' = [agentSock EXCEPT ![i] = "closed"]
  BY DEF SendReset, SendPipe
<1>2. agentSock[i] # "open" /\ packet' = [packet EXCEPT ![i] = p] /\ wireOut' = wireOut
  BY DEF SendReset, SendPipe
<1>3. \A j \in Agents : agentSock'[j] = "open" <=> agentSock[j] = "open"
  BY <1>1, <1>2 DEF ChildTypeOK
<1>4. [j \in Agents |-> agentSock'[j] = "open"] = [j \in Agents |-> agentSock[j] = "open"]
  BY <1>3
<1>5. Terminated' \/ [j \in Agents |-> IsUp(j)]' = [j \in Agents |-> IsUp(j)]
  BY <1>4, UpRunning, UpStillRunning
<1>6. ~IsUp(i)
  BY <1>2 DEF IsUp
<1> QED
  BY <1>2, <1>5, <1>6

\* read_host_send_agent() on a writable connection is a step of StripedSender.
LEMMA ReadHostSendAgentSeen ==
  ASSUME ChildTypeOK, SendTypeOK, HostBound, Running, NEW i \in Agents, NEW hm, NEW am,
         Writable(i), ReadHostSendAgent(i, hm, am)
  PROVE  Seen
<1>1. CASE SendRest(i, hm, am)
  <2>1. packet[i] \in Packet /\ packet[i].left > 0
    BY <1>1 DEF SendRest, Pending, SendTypeOK
  <2>2. sendSeq' = sendSeq
    BY <1>1 DEF SendRest
  <2>3. CASE \E am2 : SendSome(i, packet[i], am2)
    <3>1. agentSock[i] = "open" /\ Room(i) >= OutLowat
      BY <2>3 DEF SendSome, Writable
    <3>2. Outbound!Put(i, packet[i], Sendable(i, packet[i]))
      BY <2>1, <2>3, SendSomePut
    <3>3. IsUp(i)
      BY <3>1 DEF IsUp, Running
    <3>4. Outbound!Push(i, Sendable(i, packet[i]))
      BY <2>1, <2>2, <3>1, <3>2, <3>3, SendableUnits DEF Outbound!Push
    <3> QED
      BY <2>1, <3>4, SendableUnits DEF Seen, Outbound!Next
  <2>4. CASE \E am2 : SendReset(i, packet[i], am2) \/ SendPipe(i, packet[i], am2)
    <3>1. /\ Terminated' \/ [j \in Agents |-> IsUp(j)]' = [j \in Agents |-> IsUp(j)]
          /\ packet' = [packet EXCEPT ![i] = packet[i]] /\ wireOut' = wireOut
      BY <2>1, <2>4, SendBroken
    <3>2. packet' = packet
      BY <3>1 DEF SendTypeOK
    <3>3. CASE Terminated'
      BY <2>2, <3>1, <3>2, <3>3, EndSeen
    <3>4. CASE [j \in Agents |-> IsUp(j)]' = [j \in Agents |-> IsUp(j)]
      BY <2>2, <3>1, <3>2, <3>4 DEF Seen, Unseen, OutboundState
    <3> QED
      BY <3>1, <3>3, <3>4
  <2>5. CASE "out" \notin am[i]
    BY <1>1, <2>5, SameSocketsSeen DEF SendRest
  <2> QED
    BY <1>1, <2>3, <2>4, <2>5 DEF SendRest, Send
<1>2. CASE SendNew(i, hm, am)
  <2> DEFINE p == [seq |-> sendSeq, left |-> PktUnits]
  <2>1. p \in Packet
    BY UnitsAssumption DEF Packet, PktUnits, SendTypeOK
  <2>2. packet[i].left = 0
    BY <1>2 DEF SendNew, Pending, SendTypeOK, Packet
  <2>3. sendSeq < MaxChunks /\ sendSeq' = sendSeq + 1
    BY <1>2, SendAssumption DEF SendNew, HostBound, SendTypeOK
  <2>4. CASE SendSome(i, p, am)
    <3>1. Outbound!Put(i, p, Sendable(i, p)) /\ IsUp(i)
      BY <2>1, <2>4, SendSomePut DEF SendSome, IsUp, Running
    <3>2. Outbound!Take(i, Sendable(i, p))
      BY <2>2, <2>3, <3>1 DEF Outbound!Take
    <3> QED
      BY <2>1, <3>2, SendableUnits DEF Seen, Outbound!Next
  <2>5. CASE SendReset(i, p, am) \/ SendPipe(i, p, am)
    <3>1. /\ ~IsUp(i)
          /\ Terminated' \/ [j \in Agents |-> IsUp(j)]' = [j \in Agents |-> IsUp(j)]
          /\ packet' = [packet EXCEPT ![i] = p] /\ wireOut' = wireOut
      BY <2>1, <2>5, SendBroken
    <3>2. Outbound!GoesLost(i)
      BY <2>2, <2>3, <3>1 DEF Outbound!GoesLost
    <3>3. CASE Terminated'
      <4>1. Outbound!Die
        BY <3>1, <3>2, <3>3, UpEnded DEF Outbound!Die
      <4> QED
        BY <4>1 DEF Seen, Outbound!Next
    <3>4. CASE [j \in Agents |-> IsUp(j)]' = [j \in Agents |-> IsUp(j)]
      <4>1. Outbound!Lose(i)
        BY <3>1, <3>2, <3>4 DEF Outbound!Lose
      <4> QED
        BY <4>1 DEF Seen, Outbound!Next
    <3> QED
      BY <3>1, <3>3, <3>4
  <2> QED
    BY <1>2, <2>4, <2>5 DEF SendNew, Send
<1>3. CASE HostNothing(i, hm, am) \/ HostEnded(i, hm, am)
  BY <1>3, SameSocketsSeen DEF HostNothing, HostEnded, sendVars
<1> QED
  BY <1>1, <1>2, <1>3 DEF ReadHostSendAgent

\* The events of the outbound half.
LEMMA OutboundEventSeen ==
  ASSUME ChildTypeOK, SendTypeOK, HostBound,
         HostInEvent \/ HostInError \/ \E i \in Agents : AgentOutEvent(i)
  PROVE  Seen
<1>0. Running
  BY DEF HostInEvent, HostInError, AgentOutEvent, Running, Terminated, Aborts
<1>1. CASE \E i \in Agents : \E hm, am : Writable(i) /\ ReadHostSendAgent(i, hm, am)
  BY <1>0, <1>1, ReadHostSendAgentSeen
<1>2. CASE AllAgentsSocksFull \/ HostInError
  BY <1>0, <1>2, SameSocketsSeen DEF AllAgentsSocksFull, HostInError, sendVars
<1> QED
  BY <1>1, <1>2 DEF HostInEvent, AgentOutEvent

\* The head of the loop closes connections with nothing pending, or leaves.
LEMMA LoopTopSeen ==
  ASSUME ChildTypeOK, SendTypeOK, LoopTop
  PROVE  Seen
<1>0. UNCHANGED <<sendSeq, packet, wireOut>> /\ Running
  BY DEF LoopTop, sendVars, Running, Terminated, Aborts
<1>1. CASE CloseIdle /\ pc' = "wait"
  <2>0. PICK S \in SUBSET Agents : S = {j \in Agents : ~Pending(j)}
    OBVIOUS
  <2>1. \A j \in S : packet[j].left = 0
    BY <2>0 DEF Pending, SendTypeOK, Packet
  <2>2. \A j \in Agents :
          (agentSock'[j] = "open") <=> (agentSock[j] = "open" /\ j \notin S)
    BY <1>1, <2>0 DEF CloseIdle
  <2>3. ~Terminated'
    BY <1>1 DEF Terminated, Aborts
  <2>4. [j \in Agents |-> IsUp(j)]'
          = [j \in Agents |-> [k \in Agents |-> IsUp(k)][j] /\ j \notin S]
    BY <1>0, <2>2, <2>3, UpRunning, UpStillRunning
  <2>5. Outbound!Close(S)
    BY <1>0, <2>1, <2>4 DEF Outbound!Close
  <2> QED
    BY <2>5 DEF Seen, Outbound!Next
<1>2. CASE pc' = "done"
  <2>1. Terminated'
    BY <1>2 DEF Terminated
  <2> QED
    BY <1>0, <2>1, EndSeen
<1>3. CASE CloseHost
  BY <1>0, <1>3, SameSocketsSeen DEF CloseHost
<1> QED
  BY <1>1, <1>2, <1>3 DEF LoopTop, CloseIdle

\* The inbound half opens no connection and breaks none, but it may end the child.
LEMMA InboundHalfSeen ==
  ASSUME ChildTypeOK,
         HostOut \/ SendDataHost \/ \E i \in Agents : AgentIn(i)
  PROVE  Seen
<1>0. UNCHANGED <<sendSeq, packet, wireOut>>
  BY DEF HostOut, SendDataHost, AgentIn, sendVars
<1>1. Running
  BY DEF HostOut, HostOutEvent, SendDataHost, Deliver, AgentIn, AgentInEvent,
         Running, Terminated, Aborts
<1>2. ASSUME NEW i \in Agents, agentSock[i] = "reset",
             agentSock' = [agentSock EXCEPT ![i] = "closed"]
      PROVE  Seen
  <2>1. \A j \in Agents : agentSock'[j] = "open" <=> agentSock[j] = "open"
    BY <1>2 DEF ChildTypeOK
  <2> QED
    BY <1>0, <1>1, <2>1, EndSeen, SameUpUnseen DEF Seen
<1>3. CASE HostOut \/ SendDataHost
  <2>1. agentSock' = agentSock
    BY <1>3
    DEF HostOut, HostOutEvent, SendDataHost, Deliver, DeliverPacket, DeliverBlocks,
        DeliverReset, DeliverError
  <2> QED
    BY <1>0, <1>1, <2>1, SameSocketsSeen
<1>4. ASSUME NEW i \in Agents, AgentIn(i) PROVE Seen
  <2>1. \/ agentSock' = agentSock
        \/ agentSock[i] = "reset" /\ agentSock' = [agentSock EXCEPT ![i] = "closed"]
    BY <1>4
    DEF AgentIn, AgentInEvent, ReadAgentSendHost, NoSlot, HeaderBlocks, HeaderEof,
        HeaderReset, BodyBlocks, BodyEof, BodyReset, PacketComplete, IsReset
  <2> QED
    BY <1>0, <1>1, <1>2, <2>1, SameSocketsSeen
<1> QED
  BY <1>3, <1>4

\* The environment breaks connections and takes units.
LEMMA EnvironmentSeen ==
  ASSUME ChildTypeOK, SendTypeOK,
         \/ HostWrites \/ HostCloses \/ HostReads \/ HostResets \/ PeerActs \/ Ended
         \/ UNCHANGED vars
         \/ \E i \in Agents : PeerTakes(i) \/ AgentBreaks(i)
  PROVE  Seen
<1>1. CASE \/ HostWrites \/ HostCloses \/ HostReads \/ HostResets \/ PeerActs \/ Ended
           \/ UNCHANGED vars
  <2>1. UNCHANGED <<sendSeq, packet, wireOut, agentSock, pc>>
    BY <1>1
    DEF HostWrites, HostWrite, HostCloses, HostClose, HostReads, HostTakes,
        HostResets, HostBreaks, PeerActs, PeerSends, PeerCloses, PeerDies, Ended, vars,
        childVars, sendVars
  <2>2. [j \in Agents |-> IsUp(j)]' = [j \in Agents |-> IsUp(j)]
    BY <2>1 DEF IsUp, Terminated
  <2> QED
    BY <2>1, <2>2 DEF Seen, Unseen, OutboundState
<1>2. ASSUME NEW i \in Agents, PeerTakes(i) PROVE Seen
  <2>1. UNCHANGED <<pc, agentSock>>
    BY <1>2 DEF PeerTakes, WireDrain, childVars
  <2>2. [j \in Agents |-> IsUp(j)]' = [j \in Agents |-> IsUp(j)]
    BY <2>1 DEF IsUp, Terminated
  <2>3. Outbound!Drain(i)
    BY <1>2, <2>2 DEF PeerTakes, WireDrain, Outbound!Drain
  <2> QED
    BY <2>3 DEF Seen, Outbound!Next
<1>3. ASSUME NEW i \in Agents, AgentBreaks(i) PROVE Seen
  <2>1. /\ agentSock' = [agentSock EXCEPT ![i] = "reset"]
        /\ wireOut' = [wireOut EXCEPT ![i] = <<>>]
        /\ UNCHANGED <<sendSeq, packet, pc>>
    BY <1>3 DEF AgentBreaks
  <2>2. \A j \in Agents :
          (agentSock'[j] = "open") <=> (IF j = i THEN FALSE ELSE agentSock[j] = "open")
    BY <2>1 DEF ChildTypeOK
  <2>3. Running /\ ~Terminated'
    BY <1>3, <2>1 DEF AgentBreaks, Running, Terminated
  <2>4. [j \in Agents |-> IsUp(j)]' = [[k \in Agents |-> IsUp(k)] EXCEPT ![i] = FALSE]
    BY <2>2, <2>3, UpRunning, UpStillRunning
  <2>5. wireOut[i] \in Seq(Unit) /\ SubSeq(wireOut[i], 1, 0) = <<>>
    BY SubSeqProperties DEF SendTypeOK
  <2>6. 0 \in 0..Len(wireOut[i])
    BY <2>5, LenProperties
  <2>7. wireOut' = [wireOut EXCEPT ![i] = SubSeq(@, 1, 0)]
    BY <2>1, <2>5
  <2>8. Outbound!Reset(i)
    BY <2>1, <2>4, <2>6, <2>7 DEF Outbound!Reset
  <2> QED
    BY <2>8 DEF Seen, Outbound!Next
<1> QED
  BY <1>1, <1>2, <1>3

\* Every step of the child and of its environment is one of StripedSender, or is
\* not seen by it.
LEMMA OutboundSeen == TypeInv /\ HostBound /\ [Next]_vars => Seen
<1> SUFFICES ASSUME TypeInv, HostBound, [Next]_vars PROVE Seen
  OBVIOUS
<1>0. ChildTypeOK /\ SendTypeOK
  BY DEF TypeInv, TypeOK
<1>1. CASE LoopTop
  BY <1>0, <1>1, LoopTopSeen
<1>2. CASE HostIn \/ \E i \in Agents : AgentOut(i)
  BY <1>0, <1>2, OutboundEventSeen DEF HostIn, AgentOut
<1>3. CASE HostOut \/ SendDataHost \/ \E i \in Agents : AgentIn(i)
  BY <1>0, <1>3, InboundHalfSeen
<1>4. CASE \/ HostWrites \/ HostCloses \/ HostReads \/ HostResets \/ PeerActs \/ Ended
           \/ UNCHANGED vars
           \/ \E i \in Agents : PeerTakes(i) \/ AgentBreaks(i)
  BY <1>0, <1>4, EnvironmentSeen
<1> QED
  BY <1>1, <1>2, <1>3, <1>4 DEF Next

\* A chunk that is numbered has been written.
LEMMA HostBoundStep == TypeInv /\ HostBound /\ [Next]_vars => HostBound'
<1> SUFFICES ASSUME TypeInv, HostBound, [Next]_vars PROVE HostBound'
  OBVIOUS
<1>0. sendSeq \in Nat /\ hostIn \in Nat /\ MaxChunks \in Nat
  BY SendAssumption DEF TypeInv, TypeOK, SendTypeOK
<1>1. ASSUME NEW i \in Agents, NEW hm, NEW am, ReadHostSendAgent(i, hm, am)
      PROVE  HostBound'
  <2>1. \/ UNCHANGED <<sendSeq, hostIn>>
        \/ hostIn > 0 /\ hostIn' = hostIn - 1 /\ sendSeq' = sendSeq + 1
    BY <1>1
    DEF ReadHostSendAgent, SendRest, SendNew, HostNothing, HostEnded, sendVars
  <2> QED
    BY <1>0, <2>1 DEF HostBound
<1>2. CASE HostIn
  <2>1. CASE AllAgentsSocksFull \/ HostInError
    BY <2>1 DEF AllAgentsSocksFull, HostInError, sendVars, HostBound
  <2> QED
    BY <1>1, <1>2, <2>1 DEF HostIn, HostInEvent
<1>3. ASSUME NEW i \in Agents, AgentOut(i) PROVE HostBound'
  BY <1>1, <1>3 DEF AgentOut, AgentOutEvent
<1>4. CASE HostWrites
  BY <1>0, <1>4 DEF HostWrites, HostWrite, HostBound
<1>5. CASE \/ LoopTop \/ HostOut \/ SendDataHost \/ HostCloses \/ HostReads
           \/ HostResets \/ PeerActs \/ Ended \/ UNCHANGED vars
           \/ \E i \in Agents : AgentIn(i) \/ PeerTakes(i) \/ AgentBreaks(i)
  <2>1. UNCHANGED <<sendSeq, hostIn>>
    BY <1>5
    DEF LoopTop, HostOut, SendDataHost, HostCloses, HostClose, HostReads, HostResets,
        PeerActs, Ended, vars, AgentIn, PeerTakes, WireDrain, AgentBreaks, sendVars
  <2> QED
    BY <2>1 DEF HostBound
<1> QED
  BY <1>2, <1>3, <1>4, <1>5 DEF Next

\* read_host_send_agent() implements StripedSender: every chunk of the host goes
\* out in one packet, whole, on one connection, in the order of the numbers on
\* each; a running child closes a connection between packets only, one that dies
\* all of them at once, and what a broken one had is not sent again; for any
\* number of connections, any sizes and any faults.
THEOREM StripesOutbound == Spec => OutboundStriping
<1>1. Init => Outbound!Init /\ HostBound
  <2> SUFFICES ASSUME Init PROVE Outbound!Init /\ HostBound
    OBVIOUS
  <2>1. [j \in Agents |-> IsUp(j)] = [j \in Agents |-> TRUE]
    BY DEF Init, ChildInit, IsUp, Terminated, Aborts
  <2>2. Outbound!Init
    BY <2>1 DEF Init, SendInit, Outbound!Init, Outbound!EmptyPacket, EmptyPacket
  <2>3. HostBound
    BY SendAssumption DEF Init, SendInit, HostBound
  <2> QED
    BY <2>2, <2>3
<1>2. Seen => [Outbound!Next]_(Outbound!vars)
  BY DEF Seen, Unseen, OutboundState, Outbound!vars
<1> QED
  BY <1>1, <1>2, OutboundSeen, HostBoundStep, TypeInvariant, PTL
  DEF Spec, OutboundStriping, Outbound!Spec

(***************************************************************************)
(* Nothing is left behind.                                                 *)
(***************************************************************************)

\* Nothing breaks, and the peer closes nothing.
Unbroken ==
  /\ \A j \in Agents : peerUp[j] /\ agentSock[j] # "reset"
  /\ hostSock # "reset"

\* The host is left when all it wrote is read, and after it the connections
\* with nothing pending.
ClosedLast ==
  /\ hostMask = CLOSED => hostIn = 0 /\ hostEof
  /\ \A j \in Agents : agentMask[j] = CLOSED => hostMask = CLOSED /\ ~Pending(j)

LeavingInv == Unbroken /\ ClosedLast /\ AllSentAtExit

\* The masks a caller of read_host_send_agent() passes close nothing.
SameClosed(hm, am) ==
  /\ am \in [Agents -> Masks]
  /\ hm = CLOSED <=> hostMask = CLOSED
  /\ \A j \in Agents : am[j] = CLOSED <=> agentMask[j] = CLOSED

\* What a step of the outbound half keeps.
Leaves == Unbroken' /\ ClosedLast' /\ pc' # "done"

\* The send loop works on a connection that is not closed, and closes none.
LEMMA SendLeaves ==
  ASSUME ChildTypeOK, SendTypeOK, Unbroken, NEW i \in Agents, NEW p, NEW am,
         am \in [Agents -> Masks], Send(i, p, am)
  PROVE  /\ agentSock' = agentSock /\ pc' # "done"
         /\ \A j \in Agents \ {i} : packet'[j] = packet[j]
         /\ \A j \in Agents : agentMask'[j] = CLOSED => am[j] = CLOSED
<1>1. SendSome(i, p, am)
  BY DEF Send, SendReset, SendPipe, Unbroken
<1>2. agentSock' = agentSock /\ pc' # "done" /\ \A j \in Agents \ {i} : packet'[j] = packet[j]
  BY <1>1 DEF SendSome, SendTypeOK
<1>3. PollFor(am[i], "out") = CLOSED <=> am[i] = CLOSED
  BY PollForMask
<1>4. \A j \in Agents : agentMask'[j] = CLOSED => am[j] = CLOSED
  BY <1>1, <1>3 DEF SendSome, MaskAfterSend
<1> QED
  BY <1>2, <1>4

\* So does read_host_send_agent(), which finds the host closed only with nothing
\* of it left.
LEMMA ReadHostSendAgentLeaves ==
  ASSUME ChildTypeOK, SendTypeOK, Unbroken, ClosedLast, NEW i \in Agents, NEW hm,
         NEW am, SameClosed(hm, am), agentMask[i] # CLOSED, UNCHANGED recvVars,
         ReadHostSendAgent(i, hm, am)
  PROVE  Leaves
<1>0. peerUp' = peerUp
  BY DEF recvVars, peerVars
<1>1. CASE SendRest(i, hm, am)
  <2>0. UNCHANGED <<hostSock, hostIn, hostEof>> /\ hostMask' = hm
    BY <1>1 DEF SendRest
  <2>1. CASE "out" \in am[i]
    <3> DEFINE am2 == [am EXCEPT ![i] = StopPolling(@, "out")]
    <3>1. StopPolling(am[i], "out") \in Masks /\ am[i] # CLOSED
      BY <2>1, StopPollingMask, PolledMask DEF SameClosed
    <3>2. am2 \in [Agents -> Masks] /\ \A j \in Agents : am2[j] = CLOSED => am[j] = CLOSED
      BY <3>1, StopPollingMask DEF SameClosed
    <3>3. Send(i, packet[i], am2)
      BY <1>1, <2>1 DEF SendRest
    <3> HIDE DEF am2
    <3>4. /\ agentSock' = agentSock /\ pc' # "done"
          /\ \A j \in Agents \ {i} : packet'[j] = packet[j]
          /\ \A j \in Agents : agentMask'[j] = CLOSED => am2[j] = CLOSED
      BY <3>2, <3>3, SendLeaves
    <3> QED
      BY <1>0, <2>0, <3>2, <3>4 DEF Leaves, Unbroken, ClosedLast, SameClosed, Pending
  <2>2. CASE "out" \notin am[i]
    <3>1. agentMask' = am /\ UNCHANGED <<agentSock, packet>> /\ pc' # "done"
      BY <1>1, <2>2 DEF SendRest
    <3> QED
      BY <1>0, <2>0, <3>1 DEF Leaves, Unbroken, ClosedLast, SameClosed, Pending
  <2> QED
    BY <2>1, <2>2
<1>2. CASE SendNew(i, hm, am)
  <2> DEFINE p == [seq |-> sendSeq, left |-> PktUnits]
  <2>1. /\ hostIn > 0 /\ hostMask' = hm /\ UNCHANGED <<hostSock, hostEof>>
        /\ Send(i, p, am) /\ am \in [Agents -> Masks]
    BY <1>2 DEF SendNew, SameClosed
  <2> HIDE DEF p
  <2>2. hm # CLOSED
    BY <2>1 DEF ClosedLast, SameClosed
  <2>3. /\ agentSock' = agentSock /\ pc' # "done"
        /\ \A j \in Agents \ {i} : packet'[j] = packet[j]
        /\ \A j \in Agents : agentMask'[j] = CLOSED => am[j] = CLOSED
    BY <2>1, SendLeaves
  <2> QED
    BY <1>0, <2>1, <2>2, <2>3 DEF Leaves, Unbroken, ClosedLast, SameClosed
<1>3. CASE HostNothing(i, hm, am)
  BY <1>0, <1>3
  DEF HostNothing, sendVars, Leaves, Unbroken, ClosedLast, SameClosed, Pending
<1>4. CASE HostEnded(i, hm, am)
  <2>1. /\ hostIn = 0 /\ hostEof /\ (hostMask' = CLOSED \/ hostMask' = hm)
        /\ agentMask' = am /\ pc' # "done" /\ UNCHANGED <<hostSock, agentSock, sendVars>>
    BY <1>4 DEF HostEnded, Unbroken
  <2> QED
    BY <1>0, <2>1 DEF sendVars, Leaves, Unbroken, ClosedLast, SameClosed, Pending
<1> QED
  BY <1>1, <1>2, <1>3, <1>4 DEF ReadHostSendAgent

\* The events of the outbound half.
LEMMA OutboundEventLeaves ==
  ASSUME ChildTypeOK, SendTypeOK, Unbroken, ClosedLast,
         HostIn \/ \E i \in Agents : AgentOut(i)
  PROVE  Leaves
<1>1. SameClosed(hostMask, agentMask)
  BY DEF SameClosed, ChildTypeOK
<1>2. SameClosed(HostResumed, AgentsResumed)
  <2>1. HostResumed = CLOSED <=> hostMask = CLOSED
    BY PollForMask DEF HostResumed, ChildTypeOK
  <2>2. \A j \in Agents :
          /\ StopPolling(agentMask[j], "out") \in Masks
          /\ StopPolling(agentMask[j], "out") = CLOSED <=> agentMask[j] = CLOSED
    BY StopPollingMask DEF ChildTypeOK
  <2> QED
    BY <2>1, <2>2 DEF SameClosed, AgentsResumed, ChildTypeOK
<1>3. CASE HostIn
  <2>1. "in" \in hostMask /\ hostMask # CLOSED /\ UNCHANGED recvVars
    BY <1>3, PolledMask DEF HostIn, HostInEvent, HostInError, ChildTypeOK
  <2>2. \A j \in Agents : agentMask[j] # CLOSED
    BY <2>1 DEF ClosedLast
  <2>3. CASE \E i \in Agents : ReadHostSendAgent(i, hostMask, agentMask)
    BY <1>1, <2>1, <2>2, <2>3, ReadHostSendAgentLeaves
  <2>4. CASE AllAgentsSocksFull
    <3>1. \A j \in Agents : agentMask'[j] # CLOSED
      BY <2>2, <2>4, PollForMask DEF AllAgentsSocksFull, ChildTypeOK
    <3>2. hostMask' # CLOSED
      BY <2>1, <2>4, StopPollingMask DEF AllAgentsSocksFull, ChildTypeOK
    <3>3. pc' # "done" /\ UNCHANGED <<hostSock, agentSock, peerUp>>
      BY <2>1, <2>4 DEF AllAgentsSocksFull, recvVars, peerVars
    <3> QED
      BY <3>1, <3>2, <3>3 DEF Leaves, Unbroken, ClosedLast
  <2>5. CASE HostInError
    BY <2>1, <2>5
    DEF HostInError, sendVars, recvVars, peerVars, Leaves, Unbroken, ClosedLast, Pending
  <2> QED
    BY <1>3, <2>3, <2>4, <2>5 DEF HostIn, HostInEvent
<1>4. ASSUME NEW i \in Agents, AgentOut(i) PROVE Leaves
  <2>1. agentMask[i] # CLOSED /\ UNCHANGED recvVars
    BY <1>4, PolledMask DEF AgentOut, AgentOutEvent, ChildTypeOK
  <2>2. \/ ReadHostSendAgent(i, hostMask, agentMask)
        \/ ReadHostSendAgent(i, HostResumed, AgentsResumed)
    BY <1>4 DEF AgentOut, AgentOutEvent
  <2> QED
    BY <1>1, <1>2, <2>1, <2>2, ReadHostSendAgentLeaves
<1> QED
  BY <1>3, <1>4

\* The child leaves by the head of the loop only when nothing is left.
LEMMA LoopTopLeaves ==
  ASSUME ChildTypeOK, SendTypeOK, Unbroken, ClosedLast, LoopTop
  PROVE  LeavingInv'
<1>0. UNCHANGED <<hostMask, hostIn, hostEof, packet, peerUp>>
  BY DEF LoopTop, sendVars, recvVars, peerVars
<1>1. CASE hostMask = CLOSED
  <2>1. CloseIdle /\ hostSock' = hostSock
    BY <1>1 DEF LoopTop, CloseIdle
  <2>2. \A j \in Agents :
          /\ agentSock'[j] # "reset"
          /\ agentMask'[j] = CLOSED => ~Pending(j)
    BY <2>1 DEF CloseIdle, Unbroken, ClosedLast
  <2>3. pc' = "done" => \A j \in Agents : ~Pending(j)
    BY <2>1 DEF CloseIdle, ClosedLast
  <2> QED
    BY <1>0, <1>1, <2>1, <2>2, <2>3
    DEF LeavingInv, Unbroken, ClosedLast, AllSentAtExit, Pending
<1>2. CASE hostMask # CLOSED
  <2>1. CloseHost /\ ~AllReceived
    BY <1>2, AgentsAssumption DEF LoopTop, AllReceived, ClosedLast
  <2> QED
    BY <1>0, <1>2, <2>1 DEF CloseHost, LeavingInv, Unbroken, ClosedLast, AllSentAtExit, Pending
<1> QED
  BY <1>1, <1>2

\* The inbound half closes nothing while the peer closes nothing.
LEMMA InboundLeaves ==
  ASSUME ChildTypeOK, SlotTypeOK, OutTypeOK, OutKnown, Unbroken, ClosedLast,
         HostOut \/ SendDataHost \/ \E i \in Agents : AgentIn(i)
  PROVE  Leaves
<1>0. UNCHANGED <<hostIn, hostEof, packet>>
  BY DEF HostOut, SendDataHost, AgentIn, sendVars
<1>1. ASSUME UNCHANGED <<hostSock, agentSock, peerUp>>, pc' # "done",
             hostMask' = CLOSED <=> hostMask = CLOSED,
             \A j \in Agents : agentMask'[j] = CLOSED <=> agentMask[j] = CLOSED
      PROVE  Leaves
  BY <1>0, <1>1 DEF Leaves, Unbroken, ClosedLast, Pending
<1>2. CASE HostOut
  <2>1. hostMask' = CLOSED <=> hostMask = CLOSED
    BY <1>2, StopPollingMask DEF HostOut, HostOutEvent, ChildTypeOK
  <2> QED
    BY <1>1, <1>2, <2>1 DEF HostOut, HostOutEvent, peerVars
<1>3. CASE SendDataHost
  <2>1. pc = "deliver" /\ cur.agent \in Agents /\ UNCHANGED <<peerUp, agentSock>>
    BY <1>3
    DEF SendDataHost, Deliver, OutKnown, DeliverPacket, DeliverBlocks, DeliverReset,
        DeliverError, recvVars, peerVars
  <2>2. CASE DeliverPacket
    <3>1. \A j \in Agents : agentMask'[j] = CLOSED <=> agentMask[j] = CLOSED
      BY <2>1, <2>2, PollForMask DEF DeliverPacket, MaskAfterDelivery, ChildTypeOK
    <3>2. pc' # "done" /\ UNCHANGED <<hostMask, hostSock>>
      BY <2>2 DEF DeliverPacket
    <3> QED
      BY <1>1, <2>1, <3>1, <3>2
  <2>3. CASE DeliverBlocks
    <3>1. hostMask' = CLOSED <=> hostMask = CLOSED
      BY <2>3, PollForMask DEF DeliverBlocks, ChildTypeOK
    <3>2. pc' # "done" /\ UNCHANGED <<agentMask, hostSock>>
      BY <2>3 DEF DeliverBlocks
    <3> QED
      BY <1>1, <2>1, <3>1, <3>2
  <2>4. CASE DeliverReset \/ DeliverError
    BY <1>1, <2>1, <2>4 DEF DeliverReset, DeliverError, Unbroken
  <2> QED
    BY <1>3, <2>2, <2>3, <2>4 DEF SendDataHost, Deliver
<1>4. ASSUME NEW i \in Agents, AgentIn(i) PROVE Leaves
  <2>1. peerUp[i] /\ agentSock[i] # "reset"
    BY DEF Unbroken
  <2>2. /\ UNCHANGED <<hostSock, agentSock, peerUp, hostMask>> /\ pc' # "done"
        /\ agentMask' = agentMask \/ agentMask' = [agentMask EXCEPT ![i] = StopPolling(@, "in")]
    BY <1>4, <2>1
    DEF AgentIn, AgentInEvent, ReadAgentSendHost, NoSlot, HeaderBlocks, HeaderEof,
        HeaderReset, BodyBlocks, BodyEof, BodyReset, PacketComplete, Consume, AtEof,
        IsReset, recvVars, peerVars
  <2>3. \A j \in Agents : agentMask'[j] = CLOSED <=> agentMask[j] = CLOSED
    BY <2>2, StopPollingMask DEF ChildTypeOK
  <2> QED
    BY <1>1, <2>2, <2>3
<1> QED
  BY <1>2, <1>3, <1>4

\* Without events that break or close a connection there are none.
LEMMA EnvironmentLeaves ==
  ASSUME EnvEvents \subseteq {"host close"}, TypeInv, LeavingInv,
         \/ HostWrites \/ HostCloses \/ HostReads \/ HostResets \/ PeerActs \/ Ended
         \/ UNCHANGED vars
         \/ \E i \in Agents : PeerTakes(i) \/ AgentBreaks(i)
  PROVE  LeavingInv'
<1>1. CASE HostWrites \/ HostCloses
  BY <1>1
  DEF HostWrites, HostWrite, HostCloses, HostClose, Running, Terminated, childVars,
      recvVars, peerVars, LeavingInv, Unbroken, ClosedLast, AllSentAtExit, Pending
<1>2. CASE HostReads \/ \E i \in Agents : PeerTakes(i)
  BY <1>2
  DEF HostReads, HostTakes, PeerTakes, WireDrain, childVars, sendVars, recvVars,
      peerVars, LeavingInv, Unbroken, ClosedLast, AllSentAtExit, Pending
<1>3. CASE PeerActs
  <2>1. peerUp' = peerUp /\ UNCHANGED <<childVars, sendVars>>
    BY <1>3
    DEF PeerActs, PeerSends, PeerCloses, PeerDies, Peer!Take, Peer!Push, Peer!Put
  <2> QED
    BY <2>1
    DEF childVars, sendVars, LeavingInv, Unbroken, ClosedLast, AllSentAtExit, Pending
<1>4. CASE HostResets \/ \E i \in Agents : AgentBreaks(i)
  BY <1>4 DEF HostResets, HostBreaks, AgentBreaks, LeavingInv, Unbroken
<1>5. CASE Ended \/ UNCHANGED vars
  BY <1>5
  DEF Ended, vars, childVars, sendVars, recvVars, peerVars, LeavingInv, Unbroken,
      ClosedLast, AllSentAtExit, Pending
<1> QED
  BY <1>1, <1>2, <1>3, <1>4, <1>5

\* While nothing but its host ends a tunnel.
LEMMA LeavingInvariant ==
  ASSUME EnvEvents \subseteq {"host close"}
  PROVE  Spec => []LeavingInv
<1>1. Init => LeavingInv
  <2> SUFFICES ASSUME Init PROVE LeavingInv
    OBVIOUS
  <2>1. hostMask # CLOSED /\ \A j \in Agents : agentMask[j] # CLOSED
    BY DEF Init, ChildInit, MaskIN, CLOSED
  <2>2. \A j \in Agents : peerUp[j]
    BY DEF Init, RecvInit, Peer!Init
  <2>3. hostSock # "reset" /\ \A j \in Agents : agentSock[j] # "reset"
    BY DEF Init, ChildInit
  <2>4. pc # "done"
    BY DEF Init, ChildInit
  <2> QED
    BY <2>1, <2>2, <2>3, <2>4 DEF LeavingInv, Unbroken, ClosedLast, AllSentAtExit
<1>2. TypeInv /\ LeavingInv /\ [Next]_vars => LeavingInv'
  <2> SUFFICES ASSUME TypeInv, LeavingInv, [Next]_vars PROVE LeavingInv'
    OBVIOUS
  <2>0. /\ ChildTypeOK /\ SendTypeOK /\ SlotTypeOK /\ OutTypeOK /\ OutKnown
        /\ Unbroken /\ ClosedLast
    BY DEF TypeInv, TypeOK, LeavingInv
  <2>1. Leaves => LeavingInv'
    BY DEF Leaves, LeavingInv, AllSentAtExit
  <2>2. CASE LoopTop
    BY <2>0, <2>2, LoopTopLeaves
  <2>3. CASE HostIn \/ \E i \in Agents : AgentOut(i)
    BY <2>0, <2>1, <2>3, OutboundEventLeaves
  <2>4. CASE HostOut \/ SendDataHost \/ \E i \in Agents : AgentIn(i)
    BY <2>0, <2>1, <2>4, InboundLeaves
  <2>5. CASE \/ HostWrites \/ HostCloses \/ HostReads \/ HostResets \/ PeerActs \/ Ended
             \/ UNCHANGED vars
             \/ \E i \in Agents : PeerTakes(i) \/ AgentBreaks(i)
    BY <2>5, EnvironmentLeaves
  <2> QED
    BY <2>2, <2>3, <2>4, <2>5 DEF Next
<1> QED
  BY <1>1, <1>2, TypeInvariant, PTL DEF Spec

\* While nothing but its host ends a tunnel, a child that leaves by "Everything
\* has been closed!" has sent all the host wrote: no chunk is left on the host
\* socket, no rest in packet[]; for any number of connections and any sizes.
THEOREM NothingLeftBehind ==
  ASSUME EnvEvents \subseteq {"host close"}
  PROVE  Spec => []AllSentAtExit
<1>1. LeavingInv => AllSentAtExit
  BY DEF LeavingInv
<1> QED
  BY <1>1, LeavingInvariant, PTL

=============================================================================
