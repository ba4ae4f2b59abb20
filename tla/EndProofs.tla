------------------------------- MODULE EndProofs -------------------------------
(***************************************************************************)
(* Proofs about the child at one end of a tunnel whose other end is such a *)
(* child, too: nothing breaks, hosts close when they are done, and the     *)
(* peer closes connections one after the other.  What is shown of a step   *)
(* of this end, and of a step of the other as this end sees it, is used    *)
(* for both ends in TunnelProofs.                                          *)
(***************************************************************************)
EXTENDS AbortProofs

\* The host takes what has been written to it, whether or not its child runs.
HostIsRead == HostTakes /\ UNCHANGED sendVars

\* The host has written all it has to, and has had all that is written to it.
HostIsDone == hostIn + sendSeq = MaxChunks /\ drained = MaxPackets * PayUnits

\* A step of the child, or of its host.
EndStep ==
  \/ LoopTop \/ HostIn \/ HostOut \/ SendDataHost
  \/ HostWrites \/ HostIsRead \/ (HostIsDone /\ HostCloses)
  \/ \E i \in Agents : AgentOut(i) \/ AgentIn(i)

\* The peer reads some units of a connection.
PeerReads ==
  \E i \in Agents, n \in Nat :
    /\ n <= Len(wireOut[i])
    /\ wireOut' = [wireOut EXCEPT ![i] = SubSeq(@, n + 1, Len(@))]

\* The peer sends, or closes connections.
PeerPuts  == \E i \in Agents, n \in 0..PktUnits : Peer!Take(i, n) \/ Peer!Push(i, n)
PeerShuts ==
  /\ UNCHANGED <<peerSeq, peerPkt, wireIn>>
  /\ peerUp' \in [Agents -> BOOLEAN]
  /\ \A j \in Agents : peerUp'[j] => peerUp[j]

\* A step of the other end.
Beyond ==
  /\ UNCHANGED <<childVars, hostIn, hostEof, sendSeq, packet>>
  /\ UNCHANGED <<slotVars, outVars, hostVars>>
  /\ PeerReads \/ UNCHANGED wireOut
  /\ PeerPuts \/ PeerShuts

BaseInv == TypeInv /\ PollingInv /\ OrderInv /\ SlotInv

(***************************************************************************)
(* The invariants of a child with any environment hold at such an end.     *)
(***************************************************************************)

\* They hold at the start.
LEMMA BaseInit == Init => BaseInv
<1>1. Init => PollingInv
  BY DEF Init, ChildInit, PollingInv, PolledAs, SendInit, EmptyPacket, Pending, MaskIN
<1> QED
  BY <1>1, TypeInit, OrderInit, SlotInit DEF BaseInv

\* The other end, as a step around this one.
LEMMA BeyondFrame ==
  ASSUME TypeInv, WireInv, Beyond
  PROVE  PeerTypeOK' /\ WireInv' /\ PeerFrame
<1>1. PeerTypeOK
  BY DEF TypeInv, TypeOK
<1>2. CASE PeerPuts
  <2>1. PeerSends
    BY <1>2 DEF Beyond, PeerPuts, PeerSends
  <2> QED
    BY <1>1, <2>1, PeerActsType, PeerWire
<1>3. CASE PeerShuts
  <2>1. PeerTypeOK'
    BY <1>1, <1>3 DEF PeerShuts, PeerTypeOK
  <2>2. UNCHANGED <<peerSeq, peerPkt>>
    BY <1>3 DEF PeerShuts
  <2>3. ASSUME NEW j \in Agents
        PROVE  /\ peerUp'[j] => peerUp[j]
               /\ Len(wireIn'[j]) \in Nat /\ Len(wireIn'[j]) <= Len(wireIn[j])
               /\ Len(wireIn'[j]) < Len(wireIn[j]) => ~peerUp'[j]
               /\ \A k \in 1..Len(wireIn'[j]) : wireIn'[j][k] = wireIn[j][k]
    <3>1. wireIn' = wireIn /\ Len(wireIn[j]) \in Nat
      BY <1>1, <1>3, WireNumbers DEF PeerShuts
    <3>2. peerUp'[j] => peerUp[j]
      BY <1>3 DEF PeerShuts
    <3> QED
      BY <3>1, <3>2
  <2> QED
    BY <1>1, <2>1, <2>2, <2>3, CutWire
<1> QED
  BY <1>2, <1>3 DEF Beyond

\* What the peer takes leaves the rest of a connection.
LEMMA ReadRest ==
  ASSUME SendTypeOK, UNCHANGED <<hostIn, hostEof, sendSeq, packet>>,
         PeerReads \/ UNCHANGED wireOut
  PROVE  SendTypeOK'
<1>1. CASE UNCHANGED wireOut
  BY <1>1 DEF SendTypeOK
<1>2. CASE PeerReads
  <2>1. PICK i \in Agents, n \in Nat :
          /\ n <= Len(wireOut[i])
          /\ wireOut' = [wireOut EXCEPT ![i] = SubSeq(@, n + 1, Len(@))]
    BY <1>2 DEF PeerReads
  <2>2. wireOut[i] \in Seq(Unit) /\ Len(wireOut[i]) <= WireCap
    BY DEF SendTypeOK
  <2>3. PICK L \in Nat : L = Len(wireOut[i])
    BY <2>2, LenProperties
  <2>4. /\ SubSeq(wireOut[i], n + 1, L) \in Seq(Unit)
        /\ Len(SubSeq(wireOut[i], n + 1, L)) <= L
    BY <2>1, <2>2, <2>3, SubSeqProperties
  <2>5. Len(SubSeq(wireOut[i], n + 1, L)) \in Nat
    BY <2>4, LenProperties
  <2>6. Len(SubSeq(wireOut[i], n + 1, L)) <= WireCap
    BY <2>2, <2>3, <2>4, <2>5, WireAssumption
  <2> QED
    BY <2>1, <2>3, <2>4, <2>6 DEF SendTypeOK
<1> QED
  BY <1>1, <1>2

\* A step of the other end keeps the invariants of this one.
LEMMA BeyondBase ==
  ASSUME BaseInv, Beyond
  PROVE  BaseInv'
<1>1. TypeInv /\ PollingInv /\ OrderInv /\ SlotInv /\ WireInv
  BY DEF BaseInv, OrderInv
<1>2. PeerTypeOK' /\ WireInv' /\ PeerFrame
  BY <1>1, BeyondFrame
<1>3. /\ UNCHANGED <<pc, hostMask, agentMask, hostSock, agentSock, packet>>
      /\ UNCHANGED <<slotVars, outVars, hostVars, written>>
  BY DEF Beyond, childVars, hostVars
<1>4. TypeInv'
  <2>1. SendTypeOK'
    BY <1>1, ReadRest DEF Beyond, TypeInv, TypeOK
  <2> QED
    BY <1>1, <1>2, <1>3, <2>1 DEF TypeInv, TypeOK, ChildTypeOK, SlotTypeOK, OutTypeOK,
       HostTypeOK, ReadStateOK, OutKnown, slotVars, outVars, hostVars
<1>5. PollingInv'
  BY <1>1, <1>3 DEF PollingInv, PolledAs, Running, Terminated, Pending, Aborts
<1>6. OrderInv'
  <2>1. CASE Running
    BY <1>1, <1>2, <1>3, <2>1, BesideOrder DEF Beside, HostQuiet, slotVars, outVars
  <2>2. CASE ~Running
    BY <1>2, <1>3, <2>2 DEF OrderInv, Running, Terminated, Aborts
  <2> QED
    BY <2>1, <2>2
<1>7. SlotInv'
  <2>1. CASE Running
    <3>1. SameOutput /\ \A j \in Agents : SameReading(j)
      BY <1>3 DEF SameOutput, SameReading, Served
    <3> QED
      BY <1>1, <1>2, <1>3, <2>1, <3>1, FrameNothingOld, AsideSlots
  <2>2. CASE ~Running
    BY <1>3, <2>2 DEF SlotInv, Running, Terminated, Aborts
  <2> QED
    BY <2>1, <2>2
<1> QED
  BY <1>4, <1>5, <1>6, <1>7 DEF BaseInv

\* The host takes what is written to it.
LEMMA HostIsReadBase ==
  ASSUME BaseInv, HostIsRead, ~Running
  PROVE  BaseInv'
<1>1. TypeInv /\ PollingInv /\ OrderInv /\ SlotInv /\ WireInv
  BY DEF BaseInv, OrderInv
<1>2. /\ UNCHANGED <<pc, hostMask, agentMask, hostSock, agentSock, sendVars>>
      /\ UNCHANGED <<slotVars, outVars, peerVars, written>>
      /\ drained < Len(written) /\ drained' = drained + 1
  BY DEF HostIsRead, HostTakes, childVars
<1>3. drained' \in 0..Len(written) /\ Len(written) - drained' <= HostCap
  BY <1>1, <1>2, LenProperties, QueueAssumption DEF TypeInv, TypeOK, HostTypeOK
<1>4. TypeInv'
  BY <1>1, <1>2, <1>3 DEF TypeInv, TypeOK, ChildTypeOK, SendTypeOK, SlotTypeOK, OutTypeOK,
     PeerTypeOK, HostTypeOK, ReadStateOK, OutKnown, sendVars, slotVars, outVars, peerVars
<1>5. WireInv'
  BY <1>1, <1>2, PeerStill DEF peerVars
<1>6. ~Running'
  BY <1>2 DEF Running, Terminated, Aborts
<1> QED
  BY <1>4, <1>5, <1>6 DEF BaseInv, PollingInv, OrderInv, SlotInv

\* A step of this end keeps them.
LEMMA EndBase ==
  ASSUME BaseInv, EndStep
  PROVE  BaseInv'
<1>1. CASE HostIsRead /\ ~Running
  BY <1>1, HostIsReadBase
<1>2. CASE HostIsRead /\ Running
  <2>1. HostReads
    BY <1>2 DEF HostIsRead, HostReads
  <2> QED
    BY <2>1, TypeStep, PollingStep, OrderStep, SlotStep DEF BaseInv, Next
<1>3. CASE ~HostIsRead
  <2>1. Next
    BY <1>3 DEF EndStep, Next
  <2> QED
    BY <2>1, TypeStep, PollingStep, OrderStep, SlotStep DEF BaseInv
<1> QED
  BY <1>1, <1>2, <1>3

(***************************************************************************)
(* What such an end keeps.                                                 *)
(***************************************************************************)

\* No stream gets longer than what its host writes.
Bounded ==
  /\ HostBound
  /\ peerSeq <= MaxPackets
  /\ Len(written) <= peerSeq * PayUnits

\* The child runs, or has left by "Everything has been closed!".
Orderly == pc \in {"top", "wait", "deliver", "done"}

NoReset ==
  /\ Running => hostSock = "open"
  /\ \A j \in Agents : agentSock[j] # "reset"

\* All of the other host's stream has been read.
AllRead ==
  /\ recvSeq = MaxPackets /\ peerSeq = MaxPackets
  /\ \A j \in Agents : wireIn[j] = <<>> /\ peerPkt[j].left = 0

\* A host closes at the end of the exchange, and nothing comes after it.
EofLast == hostEof => HostIsDone /\ AllRead

\* Connection j is closed by the peer, and read to its end.
ReadOut(j) == ~peerUp[j] /\ wireIn[j] = <<>>

\* Nothing is closed at this end before its host; and of the connections the peer has
\* closed first, only polling is given up.
ClosedInOrder ==
  /\ hostMask = CLOSED => hostIn = 0 /\ hostEof
  /\ \A j \in Agents : Running /\ agentSock[j] = "closed" => hostMask = CLOSED /\ ~Pending(j)
  /\ \A j \in Agents : agentMask[j] = CLOSED =>
                         (hostMask = CLOSED /\ ~Pending(j)) \/ ReadOut(j)
  /\ pc = "wait" /\ hostMask = CLOSED => \A j \in Agents : Pending(j) \/ agentMask[j] = CLOSED

\* Packet q is on its way: its last unit is on a connection, or will be.
Coming(q) ==
  \E i \in Agents :
    \/ \E k \in 1..Len(wireIn[i]) : wireIn[i][k] = <<q, PktUnits>>
    \/ peerPkt[i].left > 0 /\ peerPkt[i].seq = q

\* It has been read.
Here(q) == \E i \in Agents, s \in Slots : Kept(i, s) /\ slot[i][s].seq = q

\* No packet is lost between the two ends: the host has it, it has been read, or it
\* is on its way.
NoneLost == Running => \A q \in Nat : recvSeq <= q /\ q < peerSeq => Coming(q) \/ Here(q)

\* What a child has when it leaves because the peer has closed everything: all that the
\* peer has put on a connection.
HasAllSent ==
  /\ \A j \in Agents : ReadOut(j)
  /\ Len(written) = recvSeq * PayUnits /\ recvSeq <= peerSeq
  /\ \A q \in Nat : recvSeq <= q /\ q < peerSeq =>
       \E j \in Agents : peerPkt[j].left > 0 /\ peerPkt[j].seq = q

DoneLast ==
  pc = "done" => /\ hostMask = CLOSED => \A j \in Agents : ~Pending(j)
                 /\ hostMask # CLOSED => HasAllSent

\* The exchange goes on to its end, and the ends leave it one after the other.
InTurn ==
  /\ Orderly /\ NoReset
  /\ EofLast /\ ClosedInOrder
  /\ NoneLost /\ DoneLast

EndInv == BaseInv /\ Bounded /\ InTurn

\* What an end relies on: its peer closes connections only when this end has nothing
\* to send on any, and will have nothing.
PeerLeavesLast ==
  Running /\ (\E i \in Agents : ~peerUp[i]) => hostIn = 0 /\ \A j \in Agents : ~Pending(j)

(***************************************************************************)
(* The outbound half.                                                      *)
(***************************************************************************)

\* Units of a packet go out on a connection; the first of them when a chunk of the
\* host is read.
Sends ==
  \E i \in Agents, n \in 0..PktUnits :
    \/ Outbound!Take(i, n) /\ hostIn > 0 /\ hostIn' = hostIn - 1
    \/ Outbound!Push(i, n) /\ hostIn' = hostIn

\* What an event of the outbound half does where nothing breaks.
OutboundDoes ==
  /\ pc' = "top"
  /\ UNCHANGED <<agentSock, hostSock, hostEof>>
  /\ \A j \in Agents : agentMask'[j] = CLOSED => agentMask[j] = CLOSED
  /\ hostMask' = CLOSED => hostMask = CLOSED \/ (hostIn = 0 /\ hostEof)
  /\ hostMask = CLOSED => hostMask' = CLOSED
  /\ Sends \/ UNCHANGED <<hostIn, sendSeq, packet, wireOut>>

\* send() to a connection that is not broken.
LEMMA SendDoes ==
  ASSUME ChildTypeOK, SendTypeOK, NoReset, NEW i \in Agents, NEW p, NEW am,
         am \in [Agents -> Masks], Send(i, p, am)
  PROVE  /\ SendSome(i, p, am) /\ agentSock' = agentSock /\ pc' = "top"
         /\ \A j \in Agents : agentMask'[j] = CLOSED => am[j] = CLOSED
<1>1. SendSome(i, p, am)
  BY DEF Send, SendReset, SendPipe, NoReset
<1>2. PollFor(am[i], "out") = CLOSED <=> am[i] = CLOSED
  BY PollForMask
<1> QED
  BY <1>1, <1>2 DEF SendSome, MaskAfterSend

\* read_host_send_agent(), called with masks that close nothing, on a connection that
\* is polled for output if it has a packet to send, and for a host that is polled.
LEMMA ReadHostSendAgentDoes ==
  ASSUME ChildTypeOK, SendTypeOK, HostBound, NoReset, Running,
         NEW i \in Agents, NEW hm, NEW am, SameClosed(hm, am), Writable(i),
         Pending(i) => "out" \in am[i],
         hostIn = 0 /\ hostEof /\ ~Pending(i) => Registered(hm),
         ReadHostSendAgent(i, hm, am)
  PROVE  OutboundDoes
<1>0. am \in [Agents -> Masks] /\ hostSock = "open"
  BY DEF SameClosed, NoReset
<1>1. CASE SendRest(i, hm, am)
  <2> DEFINE am2 == [am EXCEPT ![i] = StopPolling(@, "out")]
  <2>1. /\ Pending(i) /\ hostMask' = hm /\ Send(i, packet[i], am2)
        /\ UNCHANGED <<hostSock, hostIn, hostEof, sendSeq>>
    BY <1>1 DEF SendRest
  <2>2. am2 \in [Agents -> Masks] /\ \A j \in Agents : am2[j] = CLOSED => am[j] = CLOSED
    BY <1>0, StopPollingMask
  <2>3. packet[i] \in Packet /\ packet[i].left > 0
    BY <2>1 DEF Pending, SendTypeOK
  <2> HIDE DEF am2
  <2>4. /\ SendSome(i, packet[i], am2) /\ agentSock' = agentSock /\ pc' = "top"
        /\ \A j \in Agents : agentMask'[j] = CLOSED => am2[j] = CLOSED
    BY <2>1, <2>2, SendDoes
  <2>5. agentSock[i] = "open" /\ Room(i) >= OutLowat
    BY <2>4 DEF SendSome, Writable
  <2>6. Outbound!Put(i, packet[i], Sendable(i, packet[i]))
    BY <2>3, <2>4, SendSomePut
  <2>7. Outbound!Push(i, Sendable(i, packet[i]))
    BY <2>1, <2>3, <2>5, <2>6, SendableUnits DEF Outbound!Push, IsUp, Running
  <2>8. Sends
    BY <2>1, <2>3, <2>7, SendableUnits DEF Sends
  <2> QED
    BY <2>1, <2>2, <2>4, <2>8 DEF OutboundDoes, SameClosed
<1>2. CASE SendNew(i, hm, am)
  <2> DEFINE p == [seq |-> sendSeq, left |-> PktUnits]
  <2>1. p \in Packet
    BY UnitsAssumption DEF Packet, PktUnits, SendTypeOK
  <2>2. packet[i].left = 0
    BY <1>2 DEF SendNew, Pending, SendTypeOK, Packet
  <2>3. sendSeq < MaxChunks /\ sendSeq' = sendSeq + 1
    BY <1>2, SendAssumption DEF SendNew, HostBound, SendTypeOK
  <2>4. /\ hostIn > 0 /\ hostIn' = hostIn - 1 /\ hostMask' = hm
        /\ UNCHANGED <<hostSock, hostEof>> /\ Send(i, p, am)
    BY <1>2 DEF SendNew
  <2> HIDE DEF p
  <2>5. /\ SendSome(i, p, am) /\ agentSock' = agentSock /\ pc' = "top"
        /\ \A j \in Agents : agentMask'[j] = CLOSED => am[j] = CLOSED
    BY <1>0, <2>4, SendDoes
  <2>6. Outbound!Put(i, p, Sendable(i, p)) /\ agentSock[i] = "open"
    BY <2>1, <2>5, SendSomePut DEF SendSome
  <2>7. Outbound!Take(i, Sendable(i, p))
    BY <2>2, <2>3, <2>6 DEF Outbound!Take, p, IsUp, Running
  <2>8. Sends
    BY <2>1, <2>4, <2>7, SendableUnits DEF Sends
  <2> QED
    BY <2>4, <2>5, <2>8 DEF OutboundDoes, SameClosed
<1>3. CASE HostNothing(i, hm, am)
  BY <1>3 DEF HostNothing, sendVars, OutboundDoes, SameClosed
<1>4. CASE HostEnded(i, hm, am)
  BY <1>0, <1>4 DEF HostEnded, sendVars, OutboundDoes, SameClosed
<1> QED
  BY <1>1, <1>2, <1>3, <1>4 DEF ReadHostSendAgent

\* Nothing breaks in an event of the outbound half.
LEMMA EndOutbound ==
  ASSUME EndInv, PeerLeavesLast, HostIn \/ \E i \in Agents : AgentOut(i)
  PROVE  OutboundDoes
<1>0. /\ ChildTypeOK /\ SendTypeOK /\ HostBound /\ NoReset /\ ClosedInOrder /\ PollingInv
      /\ hostMask \in Masks /\ agentMask \in [Agents -> Masks]
  BY DEF EndInv, InTurn, BaseInv, TypeInv, TypeOK, ChildTypeOK, Bounded
<1>1. Running /\ pc = "wait"
  BY DEF HostIn, HostInEvent, HostInError, AgentOut, AgentOutEvent, Running, Terminated, Aborts
<1>2. SameClosed(hostMask, agentMask)
  BY <1>0 DEF SameClosed
<1>3. SameClosed(HostResumed, AgentsResumed)
  <2>1. HostResumed = CLOSED <=> hostMask = CLOSED
    BY <1>0, PollForMask DEF HostResumed
  <2>2. \A j \in Agents :
          /\ StopPolling(agentMask[j], "out") \in Masks
          /\ StopPolling(agentMask[j], "out") = CLOSED <=> agentMask[j] = CLOSED
    BY <1>0, StopPollingMask
  <2> QED
    BY <1>0, <2>1, <2>2 DEF SameClosed, AgentsResumed
<1>4. CASE HostIn
  <2>1. "in" \in hostMask /\ hostMask # CLOSED /\ Registered(hostMask)
    BY <1>0, <1>4, PolledMask DEF HostIn, HostInEvent, HostInError
  <2>2. \A j \in Agents : agentSock[j] # "closed"
    BY <1>0, <1>1, <2>1 DEF ClosedInOrder
  <2>3. ASSUME NEW j \in Agents, Pending(j) PROVE "out" \in agentMask[j]
    <3>1. agentMask[j] # CLOSED
      BY <1>0, <1>1, <2>1, <2>3 DEF ClosedInOrder, ReadOut, PeerLeavesLast
    <3> QED
      BY <1>1, <2>2, <2>3, <3>1 DEF PollingInv, PolledAs, EndInv, BaseInv
  <2>4. CASE \E i \in Agents : Writable(i) /\ ReadHostSendAgent(i, hostMask, agentMask)
    BY <1>0, <1>1, <1>2, <2>1, <2>3, <2>4, ReadHostSendAgentDoes
  <2>5. CASE AllAgentsSocksFull
    <3>1. \A j \in Agents : agentMask'[j] = CLOSED => agentMask[j] = CLOSED
      BY <1>0, <2>5, PollForMask DEF AllAgentsSocksFull
    <3>2. hostMask' # CLOSED
      BY <1>0, <2>1, <2>5, StopPollingMask DEF AllAgentsSocksFull
    <3> QED
      BY <2>1, <2>2, <2>5, <3>1, <3>2 DEF AllAgentsSocksFull, OutboundDoes, sendVars
  <2>6. ~HostInError
    BY <1>0, <1>1 DEF HostInError, NoReset
  <2> QED
    BY <1>4, <2>4, <2>5, <2>6 DEF HostIn, HostInEvent
<1>5. ASSUME NEW i \in Agents, AgentOut(i) PROVE OutboundDoes
  <2>1. "out" \in agentMask[i] /\ agentMask[i] # CLOSED /\ Writable(i)
    BY <1>0, <1>5, PolledMask DEF AgentOut, AgentOutEvent
  <2>2. CASE Pending(i)
    <3>1. ReadHostSendAgent(i, hostMask, agentMask)
      BY <1>5, <2>2 DEF AgentOut, AgentOutEvent
    <3> QED
      BY <1>0, <1>1, <1>2, <2>1, <2>2, <3>1, ReadHostSendAgentDoes
  <2>3. CASE ~Pending(i)
    <3>1. ReadHostSendAgent(i, HostResumed, AgentsResumed)
      BY <1>5, <2>3 DEF AgentOut, AgentOutEvent
    <3>2. hostMask # CLOSED
      BY <1>0, <1>1, <2>1, <2>3 DEF ClosedInOrder
    <3>3. Registered(HostResumed)
      <4>1. "in" \in PollFor(hostMask, "in") /\ PollFor(hostMask, "in") \in Masks
        BY <1>0, <3>2, PollForMask
      <4> QED
        BY <4>1, PolledMask DEF HostResumed
    <3> QED
      BY <1>0, <1>1, <1>3, <2>1, <2>3, <3>1, <3>3, ReadHostSendAgentDoes
  <2> QED
    BY <2>2, <2>3
<1> QED
  BY <1>4, <1>5

(***************************************************************************)
(* What every step of this end keeps: one lemma for each of its actions.   *)
(***************************************************************************)

\* What the lemmas below take from the invariant.
LEMMA EndFacts ==
  ASSUME EndInv
  PROVE  /\ TypeInv /\ PollingInv /\ OrderInv /\ SlotInv /\ HostBound /\ TypeOK
         /\ Orderly /\ NoReset /\ EofLast /\ ClosedInOrder /\ NoneLost /\ DoneLast
         /\ peerSeq <= MaxPackets /\ Len(written) <= peerSeq * PayUnits
         /\ ChildTypeOK /\ SendTypeOK /\ SlotTypeOK /\ PeerTypeOK /\ HostTypeOK
BY DEF EndInv, BaseInv, Bounded, InTurn, TypeInv, TypeOK

\* The slots and the wires as they were hold the packets they held.
LEMMA StillNone ==
  ASSUME NoneLost, Running, UNCHANGED <<recvSeq, slot, indexIn, peerVars>>
  PROVE  NoneLost'
<1>1. ASSUME NEW q \in Nat, Coming(q) \/ Here(q)
      PROVE  Coming(q)' \/ Here(q)'
  BY <1>1 DEF Coming, Here, Kept, peerVars
<1>2. recvSeq' = recvSeq /\ peerSeq' = peerSeq
  BY DEF peerVars
<1> QED
  BY <1>1, <1>2 DEF NoneLost

\* The packet the host waits for is read nowhere else than where it is looked for.
LEMMA HeadNotTaken ==
  ASSUME EndInv, Running, pc # "deliver", "out" \notin hostMask, hostMask # CLOSED
  PROVE  ~HeadTaken
<1>1. /\ TypeInv /\ OrderInv /\ SlotInv /\ NoneLost
      /\ recvSeq \in Nat /\ slot \in [Agents -> [Slots -> Slot]]
  BY EndFacts DEF SlotTypeOK
<1>2. SUFFICES ASSUME HeadTaken PROVE FALSE
  OBVIOUS
<1>3. Coming(recvSeq) \/ Here(recvSeq)
  BY <1>1, <1>2 DEF NoneLost, HeadTaken
<1>4. ~Coming(recvSeq)
  <2>1. ASSUME NEW i \in Agents, NEW k \in 1..Len(wireIn[i]),
               wireIn[i][k] = <<recvSeq, PktUnits>>
        PROVE  Carries(i, recvSeq)
    BY <2>1 DEF Carries
  <2>2. ASSUME NEW i \in Agents, peerPkt[i].left > 0, peerPkt[i].seq = recvSeq
        PROVE  Carries(i, recvSeq)
    BY <2>2 DEF Carries
  <2> QED
    BY <1>2, <2>1, <2>2 DEF Coming, HeadTaken
<1>5. PICK i \in Agents, s \in Slots : Kept(i, s) /\ slot[i][s].seq = recvSeq
  BY <1>3, <1>4 DEF Here
<1>6. Owner(i, s)
  BY <1>1, <1>5 DEF SlotInv, Owned
<1>7. <<i, s>> \in table
  BY <1>6 DEF Owner, Delivering
<1>8. slot[i][s].seq > recvSeq
  BY <1>1, <1>7 DEF OrderInv, StreamOK, TableOK, Waits
<1> QED
  BY <1>1, <1>5, <1>8

\* What the host has, by the number of the packet that is next.
LEMMA HostHas ==
  ASSUME EndInv, Running, hostMask # CLOSED
  PROVE  /\ recvSeq \in Nat /\ recvSeq <= peerSeq
         /\ \/ Len(written) = recvSeq * PayUnits
            \/ recvSeq < peerSeq /\ Len(written) < (recvSeq + 1) * PayUnits
<1>1. TypeInv /\ TypeOK /\ OrderInv /\ StreamOK /\ HostOK /\ recvSeq \in Nat
  BY EndFacts DEF OrderInv, StreamOK, TypeOK, SlotTypeOK
<1>2. ASSUME NEW i \in Agents, NEW s \in Slots, NEW n \in 0..(PayUnits - 1), Holds(i, s, n)
      PROVE  recvSeq < peerSeq /\ Len(written) < (recvSeq + 1) * PayUnits
  <2>1. recvSeq < peerSeq /\ Len(written) = recvSeq * PayUnits + n
    BY <1>2 DEF Holds, HeadTaken
  <2>2. recvSeq * PayUnits \in Nat /\ (recvSeq + 1) * PayUnits = recvSeq * PayUnits + PayUnits
    BY <1>1, NextPacket
  <2> QED
    BY <1>2, <2>1, <2>2, UnitsAssumption
<1>3. CASE pc = "deliver"
  <2>1. Holds(cur.agent, cur.slot, cur.size)
    BY <1>1, <1>3 DEF HostOK
  <2>2. cur.agent \in Agents /\ cur.slot \in Slots /\ cur.size \in 0..(PayUnits - 1)
    BY <1>1, <1>3, DeliverNumbers
  <2> QED
    BY <1>1, <1>2, <2>1, <2>2 DEF StreamOK
<1>4. CASE "out" \in hostMask
  <2>1. Holds(outAgent, indexOut, slot[outAgent][indexOut].sent)
    BY <1>1, <1>4 DEF HostOK
  <2>2. outAgent \in Agents /\ indexOut \in Slots
    BY <1>1, <1>4, OutSlots
  <2>3. slot[outAgent][indexOut].sent \in 0..(PayUnits - 1)
    BY <1>1, <2>2 DEF TypeOK, SlotTypeOK, Slot
  <2> QED
    BY <1>1, <1>2, <2>1, <2>2, <2>3 DEF StreamOK
<1>5. CASE pc # "deliver" /\ "out" \notin hostMask
  BY <1>1, <1>5, HeadNotTaken DEF StreamOK, HostOK
<1> QED
  BY <1>3, <1>4, <1>5

\* A packet can be written only while the host waits for one.
LEMMA HostWaits ==
  ASSUME EndInv, pc = "deliver"
  PROVE  /\ ~hostEof /\ hostMask # CLOSED /\ "out" \notin hostMask /\ hostSock = "open"
         /\ \A j \in Agents : agentSock[j] # "closed"
         /\ cur.agent \in Agents /\ cur.slot \in Slots
         /\ slot[cur.agent][cur.slot].seq = recvSeq
<1>1. /\ TypeInv /\ OrderInv /\ EofLast /\ ClosedInOrder /\ NoReset
      /\ recvSeq \in Nat /\ peerSeq \in Nat
  BY EndFacts DEF SlotTypeOK, PeerTypeOK
<1>2. Running
  BY DEF Running, Terminated, Aborts
<1>3. HostOK
  BY <1>1, <1>2 DEF OrderInv, StreamOK
<1>4. Holds(cur.agent, cur.slot, cur.size) /\ "out" \notin hostMask
  BY <1>3 DEF HostOK
<1>5. recvSeq < peerSeq
  BY <1>4 DEF Holds, HeadTaken
<1>6. ~hostEof
  BY <1>1, <1>5 DEF EofLast, AllRead
<1>7. hostMask # CLOSED
  BY <1>1, <1>6 DEF ClosedInOrder
<1> QED
  BY <1>1, <1>2, <1>4, <1>6, <1>7, DeliverNumbers DEF ClosedInOrder, NoReset, Holds

\* The head of the loop.
LEMMA LoopInTurn ==
  ASSUME EndInv, PeerLeavesLast, LoopTop
  PROVE  InTurn'
<1>0. /\ Orderly /\ NoReset /\ EofLast /\ ClosedInOrder /\ NoneLost /\ OrderInv
      /\ TypeInv /\ PeerTypeOK /\ ChildTypeOK /\ Running
  BY EndFacts DEF LoopTop, Running, Terminated, Aborts
<1>1. UNCHANGED <<hostMask, sendVars, recvVars>> /\ pc = "top"
  BY DEF LoopTop
<1>2. /\ UNCHANGED <<hostIn, hostEof, sendSeq, packet, slotVars, peerVars, hostVars>>
      /\ UNCHANGED <<recvSeq, slot, indexIn, peerSeq, peerPkt, wireIn, peerUp>>
      /\ UNCHANGED <<written, drained>>
  BY <1>1 DEF sendVars, recvVars, slotVars, peerVars, hostVars
<1>3. EofLast'
  BY <1>0, <1>2 DEF EofLast, HostIsDone, AllRead
<1>4. NoneLost'
  BY <1>0, <1>2, StillNone
<1>5. \A j \in Agents : Pending(j)' = Pending(j) /\ ReadOut(j)' = ReadOut(j)
  BY <1>2 DEF Pending, ReadOut
<1>6. CASE hostMask = CLOSED
  <2>1. CloseIdle
    BY <1>6 DEF LoopTop
  <2>2. Orderly' /\ NoReset'
    BY <1>0, <2>1 DEF CloseIdle, Orderly, NoReset, Running
  <2>3. ASSUME NEW j \in Agents, agentSock'[j] = "closed" PROVE ~Pending(j)
    BY <1>0, <2>1, <2>3 DEF CloseIdle, ClosedInOrder
  <2>4. ASSUME NEW j \in Agents, agentMask'[j] = CLOSED, Pending(j) PROVE ReadOut(j)
    BY <1>0, <2>1, <2>4 DEF CloseIdle, ClosedInOrder
  <2>5. ASSUME NEW j \in Agents, ~Pending(j) PROVE agentMask'[j] = CLOSED
    BY <2>1, <2>5 DEF CloseIdle
  <2>6. ClosedInOrder'
    BY <1>0, <1>1, <1>2, <1>5, <1>6, <2>3, <2>4, <2>5 DEF ClosedInOrder
  <2>7. ASSUME pc' = "done", NEW j \in Agents PROVE ~Pending(j)
    <3>1. Pending(j) => agentMask[j] = CLOSED
      BY <2>1, <2>7 DEF CloseIdle
    <3>2. Pending(j) => ~peerUp[j]
      BY <1>0, <3>1 DEF ClosedInOrder, ReadOut
    <3> QED
      BY <1>0, <3>2 DEF PeerLeavesLast
  <2>8. DoneLast'
    BY <1>1, <1>5, <1>6, <2>7 DEF DoneLast
  <2> QED
    BY <1>3, <1>4, <2>2, <2>6, <2>8 DEF InTurn
<1>7. CASE hostMask # CLOSED
  <2>1. CloseHost
    BY <1>7 DEF LoopTop
  <2>2. Orderly' /\ NoReset'
    BY <1>0, <2>1 DEF CloseHost, Orderly, NoReset, Running, Terminated, Aborts
  <2>3. ClosedInOrder'
    BY <1>0, <1>1, <1>2, <1>5, <1>7, <2>1 DEF ClosedInOrder, CloseHost
  <2>4. ASSUME AllReceived PROVE HasAllSent
    <3>1. \A j \in Agents : ReadOut(j)
      BY <1>0, <1>7, <2>4 DEF AllReceived, ClosedInOrder
    <3>2. "out" \notin hostMask
      <4>1. SUFFICES ASSUME "out" \in hostMask PROVE FALSE
        OBVIOUS
      <4>2. Holds(outAgent, indexOut, slot[outAgent][indexOut].sent)
        BY <1>0, <4>1 DEF OrderInv, StreamOK, HostOK
      <4>3. outAgent \in Agents /\ indexOut \in Slots
        BY <1>0, <4>1, OutSlots
      <4> QED
        BY <2>4, <4>2, <4>3 DEF AllReceived, Holds, Kept
    <3>3. Len(written) = recvSeq * PayUnits /\ recvSeq <= peerSeq
      BY <1>0, <1>1, <1>7, <3>2, HeadNotTaken DEF OrderInv, StreamOK, HostOK
    <3>4. ASSUME NEW q \in Nat, recvSeq <= q, q < peerSeq
          PROVE  \E j \in Agents : peerPkt[j].left > 0 /\ peerPkt[j].seq = q
      <4>1. ~Here(q)
        BY <2>4 DEF AllReceived, Here, Kept
      <4>2. Coming(q)
        BY <1>0, <3>4, <4>1 DEF NoneLost
      <4>3. \A j \in Agents : 1..Len(wireIn[j]) = {}
        BY <3>1 DEF ReadOut
      <4> QED
        BY <4>2, <4>3 DEF Coming
    <3> QED
      BY <3>1, <3>3, <3>4 DEF HasAllSent
  <2>5. ASSUME HasAllSent PROVE HasAllSent'
    BY <1>2, <1>5, <2>5 DEF HasAllSent
  <2>6. DoneLast'
    BY <1>1, <1>7, <2>1, <2>4, <2>5 DEF DoneLast, CloseHost
  <2> QED
    BY <1>3, <1>4, <2>2, <2>3, <2>6 DEF InTurn
<1> QED
  BY <1>6, <1>7

\* Nothing more is pending on a connection, or due to be, when the host is done with.
LEMMA SendsLast ==
  ASSUME SendTypeOK, Sends, hostMask = CLOSED => hostIn = 0
  PROVE  /\ hostIn' + sendSeq' = hostIn + sendSeq
         /\ hostIn' <= hostIn
         /\ hostMask = CLOSED => \A j \in Agents : ~Pending(j) => ~Pending(j)'
<1>1. PICK i \in Agents, n \in 0..PktUnits :
        \/ Outbound!Take(i, n) /\ hostIn > 0 /\ hostIn' = hostIn - 1
        \/ Outbound!Push(i, n) /\ hostIn' = hostIn
  BY DEF Sends
<1>2. hostIn \in Nat /\ sendSeq \in Nat /\ packet \in [Agents -> Packet]
  BY DEF SendTypeOK
<1>3. CASE Outbound!Take(i, n) /\ hostIn > 0 /\ hostIn' = hostIn - 1
  <2>1. sendSeq' = sendSeq + 1
    BY <1>3 DEF Outbound!Take
  <2> QED
    BY <1>2, <1>3, <2>1
<1>4. CASE Outbound!Push(i, n) /\ hostIn' = hostIn
  <2>1. /\ sendSeq' = sendSeq /\ n > 0 /\ n <= packet[i].left
        /\ packet' = [packet EXCEPT ![i] = Outbound!After(packet[i], n)]
    BY <1>4 DEF Outbound!Push, Outbound!Put
  <2>2. packet[i].left \in Nat /\ n \in Nat
    BY <1>2, UnitsAssumption DEF Packet, PktUnits
  <2>3. Pending(i)
    BY <2>1, <2>2 DEF Pending
  <2>4. \A j \in Agents : j # i => packet'[j] = packet[j]
    BY <1>2, <2>1
  <2>5. \A j \in Agents : ~Pending(j) => ~Pending(j)'
    BY <2>3, <2>4 DEF Pending
  <2> QED
    BY <1>2, <1>4, <2>1, <2>5
<1> QED
  BY <1>1, <1>3, <1>4

\* An event of the outbound half.
LEMMA OutboundInTurn ==
  ASSUME EndInv, PeerLeavesLast, HostIn \/ \E i \in Agents : AgentOut(i)
  PROVE  InTurn'
<1>0. /\ Orderly /\ NoReset /\ EofLast /\ ClosedInOrder /\ NoneLost /\ SendTypeOK /\ Running
      /\ hostIn \in Nat
  BY EndFacts, LoopFrame DEF SendTypeOK
<1>1. OutboundDoes
  BY EndOutbound
<1>2. UNCHANGED recvVars
  BY DEF HostIn, AgentOut
<1>3. /\ UNCHANGED <<recvSeq, slot, indexIn, peerVars, hostVars, drained>>
      /\ UNCHANGED <<peerSeq, peerPkt, wireIn, peerUp>>
  BY <1>2 DEF recvVars, slotVars, peerVars, hostVars
<1>4. pc' = "top" /\ UNCHANGED <<agentSock, hostSock, hostEof>>
  BY <1>1 DEF OutboundDoes
<1>5. NoneLost'
  BY <1>0, <1>3, StillNone
<1>6. Orderly' /\ NoReset' /\ DoneLast'
  BY <1>0, <1>4 DEF Orderly, NoReset, DoneLast, Running
<1>7. /\ hostIn' + sendSeq' = hostIn + sendSeq
      /\ hostIn = 0 => hostIn' = 0
      /\ hostMask = CLOSED => \A j \in Agents : ~Pending(j) => ~Pending(j)'
  <2>1. CASE Sends
    <3>1. hostIn' \in Nat
      BY EndBase, EndFacts DEF EndInv, BaseInv, EndStep, TypeInv, TypeOK, SendTypeOK
    <3>2. hostMask = CLOSED => hostIn = 0
      BY <1>0 DEF ClosedInOrder
    <3>3. /\ hostIn' + sendSeq' = hostIn + sendSeq /\ hostIn' <= hostIn
          /\ hostMask = CLOSED => \A j \in Agents : ~Pending(j) => ~Pending(j)'
      BY <1>0, <2>1, <3>2, SendsLast
    <3> QED
      BY <1>0, <3>1, <3>3
  <2>2. CASE UNCHANGED <<hostIn, sendSeq, packet, wireOut>>
    BY <2>2 DEF Pending
  <2> QED
    BY <1>1, <2>1, <2>2 DEF OutboundDoes
<1>8. EofLast'
  BY <1>0, <1>3, <1>4, <1>7 DEF EofLast, HostIsDone, AllRead
<1>9. ClosedInOrder'
  <2>1. /\ hostMask = CLOSED => hostMask' = CLOSED
        /\ hostMask' = CLOSED => hostMask = CLOSED \/ (hostIn = 0 /\ hostEof)
        /\ \A j \in Agents : agentMask'[j] = CLOSED => agentMask[j] = CLOSED
    BY <1>1 DEF OutboundDoes
  <2>2. hostMask' = CLOSED => hostIn' = 0 /\ hostEof'
    BY <1>0, <1>4, <1>7, <2>1 DEF ClosedInOrder
  <2>3. ASSUME NEW j \in Agents, agentSock'[j] = "closed"
        PROVE  hostMask' = CLOSED /\ ~Pending(j)'
    BY <1>0, <1>4, <1>7, <2>1, <2>3 DEF ClosedInOrder
  <2>4. ASSUME NEW j \in Agents, agentMask'[j] = CLOSED
        PROVE  (hostMask' = CLOSED /\ ~Pending(j)') \/ ReadOut(j)'
    <3>1. ReadOut(j) => ReadOut(j)'
      BY <1>3 DEF ReadOut
    <3> QED
      BY <1>0, <1>7, <2>1, <2>4, <3>1 DEF ClosedInOrder
  <2> QED
    BY <1>4, <2>2, <2>3, <2>4 DEF ClosedInOrder
<1> QED
  BY <1>5, <1>6, <1>8, <1>9 DEF InTurn

\* A packet that was cut short is taken up again.
LEMMA HostOutInTurn ==
  ASSUME EndInv, HostOut
  PROVE  InTurn'
<1>0. /\ Orderly /\ NoReset /\ EofLast /\ ClosedInOrder /\ NoneLost /\ Running
      /\ hostMask \in Masks /\ pc = "wait"
  BY EndFacts DEF HostOut, HostOutEvent, Running, Terminated, Aborts, ChildTypeOK
<1>1. /\ "out" \in hostMask /\ hostMask' = StopPolling(hostMask, "out") /\ pc' = "deliver"
      /\ UNCHANGED <<agentMask, hostSock, agentSock, hostIn, hostEof, sendSeq, packet>>
      /\ UNCHANGED <<recvSeq, slot, indexIn, peerVars, peerSeq, peerPkt, wireIn, peerUp, drained>>
  BY DEF HostOut, HostOutEvent, sendVars, slotVars, peerVars, hostVars
<1>2. hostMask # CLOSED /\ hostMask' # CLOSED
  BY <1>0, <1>1, PolledMask, StopPollingMask
<1>3. NoneLost'
  BY <1>0, <1>1, StillNone
<1>4. Orderly' /\ NoReset' /\ DoneLast' /\ EofLast'
  BY <1>0, <1>1 DEF Orderly, NoReset, DoneLast, EofLast, HostIsDone, AllRead
<1>5. ClosedInOrder'
  BY <1>0, <1>1, <1>2 DEF ClosedInOrder, ReadOut, Pending
<1> QED
  BY <1>3, <1>4, <1>5 DEF InTurn

\* A packet, or a part of one, is written to the host.
LEMMA DeliverInTurn ==
  ASSUME EndInv, SendDataHost
  PROVE  InTurn'
<1>0. /\ Orderly /\ NoReset /\ ClosedInOrder /\ NoneLost /\ Running /\ pc = "deliver"
      /\ hostMask \in Masks /\ agentMask \in [Agents -> Masks]
      /\ recvSeq \in Nat /\ slot \in [Agents -> [Slots -> Slot]]
  BY EndFacts DEF SendDataHost, Deliver, Running, Terminated, Aborts, ChildTypeOK, SlotTypeOK
<1>1. /\ ~hostEof /\ hostMask # CLOSED /\ "out" \notin hostMask /\ hostSock = "open"
      /\ \A j \in Agents : agentSock[j] # "closed"
      /\ cur.agent \in Agents /\ cur.slot \in Slots
      /\ slot[cur.agent][cur.slot].seq = recvSeq
  BY <1>0, HostWaits
<1>2. DeliverPacket \/ DeliverBlocks
  BY <1>1 DEF SendDataHost, Deliver, DeliverReset, DeliverError
<1>3. /\ UNCHANGED <<hostSock, agentSock, hostIn, hostEof, sendSeq, packet, indexIn>>
      /\ UNCHANGED <<peerVars, peerSeq, peerPkt, wireIn, peerUp>>
  BY <1>2 DEF SendDataHost, DeliverPacket, DeliverBlocks, sendVars, peerVars
<1>4. pc' \in {"top", "deliver"} /\ hostMask' # CLOSED
  <2>1. CASE DeliverPacket
    BY <1>1, <2>1 DEF DeliverPacket
  <2>2. CASE DeliverBlocks
    <3>1. hostMask \in {MaskIN, OFF}
      BY <1>0, <1>1 DEF Masks, OUT, INAndOut
    <3> QED
      BY <1>0, <1>1, <2>2, <3>1, PollForMask DEF DeliverBlocks
  <2> QED
    BY <1>2, <2>1, <2>2
<1>5. \A j \in Agents : agentMask'[j] = CLOSED => agentMask[j] = CLOSED
  <2>1. PollFor(agentMask[cur.agent], "in") = CLOSED <=> agentMask[cur.agent] = CLOSED
    BY <1>0, <1>1, PollForMask
  <2> QED
    BY <1>0, <1>1, <1>2, <2>1 DEF DeliverPacket, DeliverBlocks, MaskAfterDelivery
<1>6. Orderly' /\ NoReset' /\ DoneLast' /\ EofLast'
  BY <1>0, <1>1, <1>3, <1>4 DEF Orderly, NoReset, DoneLast, EofLast
<1>7. ClosedInOrder'
  BY <1>0, <1>1, <1>3, <1>4, <1>5 DEF ClosedInOrder, ReadOut
<1>8. NoneLost'
  <2>1. ASSUME NEW q \in Nat, Coming(q) PROVE Coming(q)'
    BY <1>3, <2>1 DEF Coming
  <2>2. ASSUME NEW i \in Agents, NEW s \in Slots, i # cur.agent \/ s # cur.slot, Kept(i, s)
        PROVE  Kept(i, s)' /\ slot'[i][s].seq = slot[i][s].seq
    <3>1. slot'[i][s] = slot[i][s]
      <4>1. CASE DeliverPacket
        <5>1. slot' = [slot EXCEPT ![cur.agent][cur.slot].inUse = FALSE]
          BY <4>1 DEF DeliverPacket
        <5> QED
          BY <1>0, <1>1, <2>2, <5>1
      <4>2. CASE DeliverBlocks
        <5>1. slot' = [slot EXCEPT ![cur.agent][cur.slot].sent = cur.size + HostRoom]
          BY <4>2 DEF DeliverBlocks
        <5> QED
          BY <1>0, <1>1, <2>2, <5>1
      <4> QED
        BY <1>2, <4>1, <4>2
    <3>2. indexIn' = indexIn
      BY <1>3
    <3> QED
      BY <2>2, <3>1, <3>2 DEF Kept
  <2>3. CASE DeliverPacket
    <3>1. recvSeq' = recvSeq + 1
      BY <2>3 DEF DeliverPacket
    <3>2. ASSUME NEW q \in Nat, recvSeq' <= q, Here(q) PROVE Here(q)'
      <4>1. PICK i \in Agents, s \in Slots : Kept(i, s) /\ slot[i][s].seq = q
        BY <3>2 DEF Here
      <4>2. q # recvSeq
        BY <1>0, <3>1, <3>2
      <4>3. i # cur.agent \/ s # cur.slot
        BY <1>1, <4>1, <4>2
      <4>4. Kept(i, s)' /\ slot'[i][s].seq = q
        BY <2>2, <4>1, <4>3
      <4> QED
        BY <4>4 DEF Here
    <3>3. ASSUME NEW q \in Nat, recvSeq' <= q, q < peerSeq PROVE recvSeq <= q
      BY <1>0, <3>1, <3>3
    <3> QED
      BY <1>0, <1>3, <2>1, <3>2, <3>3 DEF NoneLost
  <2>4. CASE DeliverBlocks
    <3>1. recvSeq' = recvSeq
      BY <2>4 DEF DeliverBlocks
    <3>2. ASSUME NEW s \in Slots, NEW i \in Agents, i = cur.agent, s = cur.slot, Kept(i, s)
          PROVE  Kept(i, s)' /\ slot'[i][s].seq = slot[i][s].seq
      <4>1. slot' = [slot EXCEPT ![i][s].sent = cur.size + HostRoom] /\ indexIn' = indexIn
        BY <2>4, <3>2 DEF DeliverBlocks
      <4>2. slot[i] \in [Slots -> Slot] /\ slot[i][s] \in Slot
        BY <1>0
      <4>3. /\ slot'[i][s].inUse = slot[i][s].inUse /\ slot'[i][s].seq = slot[i][s].seq
        BY <1>0, <4>1, <4>2 DEF Slot
      <4> QED
        BY <3>2, <4>1, <4>3 DEF Kept
    <3>3. ASSUME NEW q \in Nat, Here(q) PROVE Here(q)'
      <4>1. PICK i \in Agents, s \in Slots : Kept(i, s) /\ slot[i][s].seq = q
        BY <3>3 DEF Here
      <4>2. Kept(i, s)' /\ slot'[i][s].seq = q
        BY <2>2, <3>2, <4>1
      <4> QED
        BY <4>2 DEF Here
    <3> QED
      BY <1>0, <1>3, <2>1, <3>1, <3>3 DEF NoneLost
  <2> QED
    BY <1>2, <2>3, <2>4
<1> QED
  BY <1>6, <1>7, <1>8 DEF InTurn

\* The host writes.
LEMMA HostWritesInTurn ==
  ASSUME EndInv, HostWrites
  PROVE  InTurn'
<1>0. Orderly /\ NoReset /\ ClosedInOrder /\ NoneLost /\ DoneLast /\ Running /\ ~hostEof
  BY EndFacts DEF HostWrites, HostWrite
<1>1. /\ UNCHANGED <<pc, hostMask, agentMask, hostSock, agentSock, hostEof, sendSeq, packet>>
      /\ UNCHANGED <<recvSeq, slot, indexIn, peerVars, peerSeq, peerPkt, wireIn, peerUp>>
  BY DEF HostWrites, HostWrite, childVars, recvVars, slotVars, peerVars
<1>2. hostMask # CLOSED
  BY <1>0 DEF ClosedInOrder
<1>3. NoneLost'
  BY <1>0, <1>1, StillNone
<1>4. Orderly' /\ NoReset' /\ EofLast' /\ DoneLast'
  BY <1>0, <1>1 DEF Orderly, NoReset, EofLast, DoneLast, Running, Terminated, Aborts
<1>5. ClosedInOrder'
  BY <1>0, <1>1, <1>2 DEF ClosedInOrder, ReadOut, Pending, Running, Terminated, Aborts
<1> QED
  BY <1>3, <1>4, <1>5 DEF InTurn

\* A host that has had all it waits for has nothing to take.
LEMMA HostIsReadInTurn ==
  ASSUME EndInv, HostIsRead
  PROVE  InTurn'
<1>0. /\ Orderly /\ NoReset /\ EofLast /\ ClosedInOrder /\ NoneLost /\ DoneLast
      /\ peerSeq <= MaxPackets /\ Len(written) <= peerSeq * PayUnits
      /\ peerSeq \in Nat /\ written \in Seq(Unit) /\ drained \in 0..Len(written)
  BY EndFacts DEF PeerTypeOK, HostTypeOK
<1>1. /\ UNCHANGED <<pc, hostMask, agentMask, hostSock, agentSock>>
      /\ UNCHANGED <<hostIn, hostEof, sendSeq, packet>>
      /\ UNCHANGED <<recvSeq, slot, indexIn, peerVars, peerSeq, peerPkt, wireIn, peerUp, written>>
      /\ drained < Len(written)
  BY DEF HostIsRead, HostTakes, childVars, sendVars, slotVars, peerVars
<1>2. ~hostEof
  <2>1. SUFFICES ASSUME hostEof PROVE FALSE
    OBVIOUS
  <2>2. drained = MaxPackets * PayUnits /\ peerSeq = MaxPackets
    BY <1>0, <2>1 DEF EofLast, HostIsDone, AllRead
  <2> QED
    BY <1>0, <1>1, <2>2, LenProperties
<1>3. Running' = Running
  BY <1>1 DEF Running, Terminated, Aborts
<1>4. NoneLost'
  BY <1>0, <1>1, <1>3, StillNone DEF NoneLost
<1>5. Orderly' /\ NoReset' /\ EofLast'
  BY <1>0, <1>1, <1>2, <1>3 DEF Orderly, NoReset, EofLast
<1>6. DoneLast'
  BY <1>0, <1>1 DEF DoneLast, HasAllSent, ReadOut, Pending
<1>7. ClosedInOrder'
  BY <1>0, <1>1, <1>3 DEF ClosedInOrder, ReadOut, Pending
<1> QED
  BY <1>4, <1>5, <1>6, <1>7 DEF InTurn

\* More packets are more units.
LEMMA MorePackets ==
  ASSUME NEW a \in Nat, NEW b \in Nat
  PROVE  /\ a < b => a * PayUnits < b * PayUnits
         /\ a <= b => a * PayUnits <= b * PayUnits
<1>0. PayUnits \in Nat /\ PayUnits > 0
  BY UnitsAssumption
<1>1. ASSUME a < b PROVE a * PayUnits < b * PayUnits
  <2>1. PICK d \in Nat : b = a + d /\ d >= 1
    <3>1. b - a \in Nat /\ b = a + (b - a) /\ b - a >= 1
      BY <1>1
    <3> QED
      BY <3>1
  <2>2. b * PayUnits = a * PayUnits + d * PayUnits
    BY <1>0, <2>1
  <2>3. d * PayUnits >= PayUnits
    BY <1>0, <2>1
  <2> QED
    BY <1>0, <2>2, <2>3
<1>2. a = b => a * PayUnits <= b * PayUnits
  BY <1>0
<1>3. a <= b => a < b \/ a = b
  OBVIOUS
<1>4. a * PayUnits \in Nat /\ b * PayUnits \in Nat
  BY <1>0
<1> QED
  BY <1>1, <1>2, <1>3, <1>4

\* What the host has had cannot be all it waits for while a packet is still to come.
LEMMA HadAll ==
  ASSUME EndInv, Running, hostMask # CLOSED, drained = MaxPackets * PayUnits
  PROVE  AllRead
<1>0. /\ TypeInv /\ OrderInv /\ PeerTypeOK /\ peerSeq \in Nat /\ Len(written) \in Nat
      /\ drained \in Nat /\ drained <= Len(written)
      /\ peerSeq <= MaxPackets /\ Len(written) <= peerSeq * PayUnits
      /\ PayUnits \in Nat /\ PayUnits > 0 /\ MaxPackets \in Nat
  BY EndFacts, UnitsAssumption, QueueAssumption, LenProperties DEF PeerTypeOK, HostTypeOK
<1>1. /\ recvSeq \in Nat /\ recvSeq <= peerSeq
      /\ \/ Len(written) = recvSeq * PayUnits
         \/ recvSeq < peerSeq /\ Len(written) < (recvSeq + 1) * PayUnits
  BY HostHas
<1>2. ASSUME NEW a \in Nat, NEW b \in Nat, a < b PROVE a * PayUnits < b * PayUnits
  BY <1>2, MorePackets
<1>3. ASSUME NEW a \in Nat, NEW b \in Nat, a <= b PROVE a * PayUnits <= b * PayUnits
  BY <1>3, MorePackets
<1>4. ~(peerSeq < MaxPackets)
  BY <1>0, <1>2
<1>5. peerSeq = MaxPackets
  BY <1>0, <1>4
<1>6. ~(recvSeq < peerSeq)
  <2>1. SUFFICES ASSUME recvSeq < peerSeq PROVE FALSE
    OBVIOUS
  <2>2. recvSeq * PayUnits < peerSeq * PayUnits
    BY <1>0, <1>1, <1>2, <2>1
  <2>3. (recvSeq + 1) * PayUnits <= peerSeq * PayUnits
    <3>1. recvSeq + 1 <= peerSeq /\ recvSeq + 1 \in Nat
      BY <1>0, <1>1, <2>1
    <3> QED
      BY <1>0, <1>3, <3>1
  <2>4. recvSeq * PayUnits \in Nat /\ (recvSeq + 1) * PayUnits \in Nat /\ peerSeq * PayUnits \in Nat
    BY <1>0, <1>1
  <2>5. Len(written) >= peerSeq * PayUnits
    BY <1>0, <1>5
  <2> QED
    BY <1>0, <1>1, <2>2, <2>3, <2>4, <2>5
<1>7. recvSeq = peerSeq
  BY <1>0, <1>1, <1>6
<1>8. ASSUME NEW j \in Agents, NEW q \in Nat PROVE ~Carries(j, q)
  <2>1. SUFFICES ASSUME Carries(j, q) PROVE FALSE
    OBVIOUS
  <2>2. recvSeq <= q
    BY <1>0, <2>1 DEF OrderInv, StreamOK, Ahead
  <2>3. q < peerSeq
    <3>1. Numbered(j)
      BY <1>0 DEF OrderInv, WireInv
    <3> QED
      BY <2>1, <3>1 DEF Carries, Numbered
  <2> QED
    BY <1>0, <1>1, <1>7, <2>2, <2>3
<1>9. ASSUME NEW j \in Agents PROVE wireIn[j] = <<>> /\ peerPkt[j].left = 0
  <2>1. /\ wireIn[j] \in Seq(Unit) /\ Len(wireIn[j]) \in Nat
        /\ peerPkt[j].left \in 0..PktUnits /\ peerPkt[j].seq \in Nat
        /\ \A k \in 1..Len(wireIn[j]) : wireIn[j][k][1] \in Nat
    BY <1>0, WireNumbers
  <2>2. Len(wireIn[j]) = 0
    <3>1. SUFFICES ASSUME 1 \in 1..Len(wireIn[j]) PROVE FALSE
      BY <2>1
    <3>2. Carries(j, wireIn[j][1][1])
      BY <3>1 DEF Carries
    <3> QED
      BY <1>8, <2>1, <3>1, <3>2
  <2>3. ~(peerPkt[j].left > 0)
    BY <1>8, <2>1 DEF Carries
  <2>4. peerPkt[j].left = 0
    BY <2>1, <2>3, Sizes
  <2> QED
    BY <2>1, <2>2, <2>4, EmptySeq
<1> QED
  BY <1>5, <1>7, <1>9 DEF AllRead

\* The host closes when the exchange is over.
LEMMA HostClosesInTurn ==
  ASSUME EndInv, HostIsDone, HostCloses
  PROVE  InTurn'
<1>0. /\ Orderly /\ NoReset /\ ClosedInOrder /\ NoneLost /\ DoneLast /\ Running /\ ~hostEof
  BY EndFacts DEF HostCloses, HostClose
<1>1. /\ UNCHANGED <<pc, hostMask, agentMask, hostSock, agentSock, hostIn, sendSeq, packet>>
      /\ UNCHANGED <<recvSeq, slot, indexIn, peerVars, peerSeq, peerPkt, wireIn, peerUp>>
      /\ UNCHANGED drained
  BY DEF HostCloses, HostClose, childVars, recvVars, slotVars, peerVars, hostVars
<1>2. hostMask # CLOSED
  BY <1>0 DEF ClosedInOrder
<1>3. NoneLost'
  BY <1>0, <1>1, StillNone
<1>4. AllRead
  BY <1>0, <1>2, HadAll DEF HostIsDone
<1>5. EofLast'
  BY <1>1, <1>4 DEF EofLast, HostIsDone, AllRead
<1>6. Orderly' /\ NoReset' /\ DoneLast'
  BY <1>0, <1>1 DEF Orderly, NoReset, DoneLast, Running, Terminated, Aborts
<1>7. ClosedInOrder'
  BY <1>0, <1>1, <1>2 DEF ClosedInOrder, ReadOut, Pending, Running, Terminated, Aborts
<1> QED
  BY <1>3, <1>5, <1>6, <1>7 DEF InTurn

\* n units of connection i are read into slot s: all that have come, of a packet that
\* is not complete, or those that complete it.  Where the peer has closed the connection
\* polling may end, with all of it read.
Reads(i, s, n) ==
  /\ Reading(i, s) /\ ReadFrame(i, s)
  /\ n <= Len(wireIn[i]) /\ Consume(i, n)
  /\ UNCHANGED <<hostMask, hostSock, agentSock, sendVars>>
  /\ \/ n = Len(wireIn[i]) /\ n < HdrLeft(i) + BodyLeft(i, s)
     \/ n = HdrLeft(i) + BodyLeft(i, s) /\ PacketComplete(i, s)
  /\ agentMask'[i] = CLOSED => ~peerUp[i] /\ n = Len(wireIn[i])

\* An event of the inbound half reads: nothing breaks.
LEMMA AgentInReads ==
  ASSUME EndInv, NEW i \in Agents, AgentIn(i)
  PROVE  /\ pc = "wait" /\ pc' \in {"top", "deliver"}
         /\ \E s \in Slots, n \in Nat : Reads(i, s, n)
<1>0. TypeInv /\ SlotInv /\ NoReset /\ PeerTypeOK /\ agentMask \in [Agents -> Masks]
  BY EndFacts DEF ChildTypeOK
<1>1. /\ pc = "wait" /\ "in" \in agentMask[i] /\ AgentReadable(i)
      /\ ReadAgentSendHost(i) /\ Running /\ UNCHANGED sendVars
  BY DEF AgentIn, AgentInEvent, Running, Terminated, Aborts
<1>2. agentMask[i] # CLOSED /\ agentMask[i] \in Masks
  BY <1>0, <1>1, PolledMask
<1>3. agentSock[i] # "reset"
  BY <1>0 DEF NoReset
<1>4. ~NoSlot(i)
  BY <1>0, <1>1, SlotIsFree DEF NoSlot
<1>5. PICK s \in Slots :
        /\ WorkSlot(i, s)
        /\ \/ HeaderBlocks(i, s) \/ HeaderEof(i, s) \/ HeaderReset(i, s)
           \/ BodyBlocks(i, s) \/ BodyEof(i, s) \/ BodyReset(i, s)
           \/ PacketComplete(i, s)
  BY <1>1, <1>4 DEF ReadAgentSendHost
<1>6. ~HeaderReset(i, s) /\ ~BodyReset(i, s)
  BY <1>3 DEF HeaderReset, BodyReset, IsReset
<1>7. Reading(i, s) /\ ReadFrame(i, s)
  BY <1>0, <1>1, <1>5, ReadFrames DEF Reading
<1>8. pc' \in {"top", "deliver"}
  <2>1. pc' \in {"top", "deliver", "exit"}
    BY <1>0, AgentInEnds
  <2>2. CASE HeaderBlocks(i, s)
    BY <2>1, <2>2 DEF HeaderBlocks
  <2>3. CASE HeaderEof(i, s) \/ BodyEof(i, s)
    BY <2>1, <2>3 DEF HeaderEof, BodyEof, LeavePool
  <2>4. CASE BodyBlocks(i, s) \/ PacketComplete(i, s)
    BY <2>4 DEF BodyBlocks, PacketComplete
  <2> QED
    BY <1>5, <1>6, <2>2, <2>3, <2>4
<1>9. PICK L \in Nat : L = Len(wireIn[i])
  BY <1>0, WireNumbers
<1>10. /\ HdrLeft(i) \in Nat /\ BodyLeft(i, s) \in Nat /\ BodyLeft(i, s) > 0
       /\ HdrLeft(i) + BodyLeft(i, s) \in Nat
  <2>1. HdrLeft(i) \in 0..HdrUnits /\ BodyLeft(i, s) \in 1..PayUnits
    BY <1>0, <1>5, ReadNumbers DEF TypeInv, TypeOK
  <2> QED
    BY <2>1, UnitsAssumption
<1>11. CASE HeaderBlocks(i, s) \/ HeaderEof(i, s) \/ BodyBlocks(i, s) \/ BodyEof(i, s)
  <2>1. /\ Consume(i, L) /\ UNCHANGED <<hostMask, hostSock, agentSock>>
    BY <1>9, <1>11 DEF HeaderBlocks, HeaderEof, BodyBlocks, BodyEof, Avail
  <2>2. L < HdrLeft(i) + BodyLeft(i, s)
    <3>1. CASE HeaderBlocks(i, s) \/ HeaderEof(i, s)
      <4>1. L < HdrLeft(i)
        BY <1>9, <3>1 DEF HeaderBlocks, HeaderEof, Avail
      <4> QED
        BY <1>9, <1>10, <4>1
    <3>2. CASE BodyBlocks(i, s) \/ BodyEof(i, s)
      <4>1. L >= HdrLeft(i) /\ L - HdrLeft(i) < BodyLeft(i, s)
        BY <1>9, <3>2 DEF BodyBlocks, BodyEof, BodyShort, Avail
      <4> QED
        BY <1>9, <1>10, <4>1
    <3> QED
      BY <1>11, <3>1, <3>2
  <2>3. agentMask'[i] = CLOSED => ~peerUp[i]
    BY <1>2, <1>11 DEF HeaderBlocks, HeaderEof, BodyBlocks, BodyEof, AtEof
  <2>4. Reads(i, s, L)
    BY <1>1, <1>7, <1>9, <2>1, <2>2, <2>3 DEF Reads
  <2> QED
    BY <1>1, <1>8, <2>4
<1>12. CASE PacketComplete(i, s)
  <2>1. PICK n \in Nat : n = HdrLeft(i) + BodyLeft(i, s)
    BY <1>10
  <2>2. /\ n <= L /\ Consume(i, n) /\ UNCHANGED <<hostMask, hostSock, agentSock>>
    BY <1>9, <1>12, <2>1 DEF PacketComplete, Avail
  <2>3. agentMask'[i] # CLOSED
    <3>1. agentMask' = [agentMask EXCEPT ![i] = StopPolling(@, "in")] \/ agentMask' = agentMask
      BY <1>12 DEF PacketComplete
    <3>2. StopPolling(agentMask[i], "in") # CLOSED
      BY <1>2, StopPollingMask
    <3> QED
      BY <1>0, <1>2, <3>1, <3>2
  <2>4. Reads(i, s, n)
    BY <1>1, <1>7, <1>9, <1>12, <2>1, <2>2, <2>3 DEF Reads
  <2> QED
    BY <1>1, <1>8, <2>4
<1> QED
  BY <1>5, <1>6, <1>11, <1>12

\* The last unit of a packet is read only with all before it.
LEMMA LastOfPacket ==
  ASSUME TypeInv, OrderInv, Running, NEW i \in Agents, NEW s \in Slots, Reading(i, s),
         NEW k \in 1..Len(wireIn[i]), k <= HdrLeft(i) + BodyLeft(i, s),
         wireIn[i][k][2] = PktUnits
  PROVE  k = HdrLeft(i) + BodyLeft(i, s)
<1>1. /\ WireInv /\ Aligned(i) /\ PeerTypeOK /\ Striped(i) /\ Numbered(i)
  BY DEF OrderInv, WireInv, TypeInv, TypeOK
<1>2. PICK m \in Nat : m = Pos(i) /\ m < PktUnits /\ HdrLeft(i) + BodyLeft(i, s) = PktUnits - m
  BY ToRead DEF Reading
<1>3. PICK L \in Nat : L = Len(wireIn[i]) /\ L >= 1 /\ k <= L /\ k >= 1
  BY <1>1, WireNumbers
<1>4. End(i) \in Nat /\ End(i) >= L /\ End(i) > 0
  BY <1>3 DEF End
<1>5. wireIn[i][1][2] = m + 1
  <2>1. agentMask[i] # CLOSED
    BY PolledMask DEF Reading, TypeInv, TypeOK, ChildTypeOK
  <2> QED
    BY <1>1, <1>2, <1>3, <1>4, <2>1 DEF Aligned, At
<1>6. /\ wireIn[i][1][2] \in Nat /\ wireIn[i][k][2] \in Nat /\ k \in Nat
  BY <1>1, <1>3, WireNumbers
<1>7. CASE k = 1
  BY <1>2, <1>3, <1>5, <1>7, Sizes
<1>8. CASE k > 1
  <2>1. Follows(At(i, 1), At(i, k), k - 1)
    BY <1>1, <1>3, <1>4, <1>6, <1>8 DEF Striped
  <2>2. At(i, 1) = wireIn[i][1] /\ At(i, k) = wireIn[i][k]
    BY <1>3 DEF At
  <2>3. \/ wireIn[i][k][2] = wireIn[i][1][2] + (k - 1)
        \/ PktUnits - wireIn[i][1][2] + wireIn[i][k][2] <= k - 1
    BY <2>1, <2>2 DEF Follows
  <2> QED
    BY <1>2, <1>3, <1>5, <1>6, <1>8, <2>3, Sizes
<1> QED
  BY <1>3, <1>6, <1>7, <1>8

\* What is read of a packet that is not complete leaves its last unit to come; a packet
\* that is complete is in its slot.
LEMMA ReadLosesNone ==
  ASSUME EndInv, Running, NEW i \in Agents, NEW s \in Slots, NEW n \in Nat, Reads(i, s, n)
  PROVE  NoneLost'
<1>0. /\ TypeInv /\ OrderInv /\ WireInv /\ NoneLost /\ PeerTypeOK /\ SlotTypeOK
      /\ Reading(i, s) /\ WorkSlot(i, s) /\ ReadFrame(i, s)
      /\ n <= Len(wireIn[i]) /\ Consume(i, n)
  BY EndFacts DEF Reads, OrderInv, Reading
<1>1. /\ \A j \in Agents \ {i} : wireIn'[j] = wireIn[j]
      /\ Len(wireIn'[i]) = Len(wireIn[i]) - n
      /\ \A k \in 1..(Len(wireIn[i]) - n) : wireIn'[i][k] = wireIn[i][k + n]
  BY <1>0, ConsumeWire
<1>2. recvSeq' = recvSeq /\ UNCHANGED <<peerSeq, peerPkt>>
  BY <1>0 DEF ReadFrame, Consume
<1>3. PICK L \in Nat : L = Len(wireIn[i])
  BY <1>0, WireNumbers
<1>4. ASSUME NEW q \in Nat, Here(q) PROVE Here(q)'
  <2>1. PICK j \in Agents, x \in Slots : Kept(j, x) /\ slot[j][x].seq = q
    BY <1>4 DEF Here
  <2>2. Kept(j, x)' /\ slot'[j][x].seq = q
    BY <1>0, <2>1, ReadKeeps DEF StillKept
  <2> QED
    BY <2>2 DEF Here
<1>5. ASSUME NEW q \in Nat, NEW j \in Agents, NEW k \in 1..Len(wireIn[j]),
             wireIn[j][k] = <<q, PktUnits>>
      PROVE  Coming(q)' \/ Here(q)'
  <2>1. CASE j # i
    BY <1>1, <1>5, <2>1 DEF Coming
  <2>2. CASE j = i /\ k > n
    <3>1. k - n \in 1..(L - n) /\ (k - n) + n = k
      BY <1>0, <1>3, <1>5, <2>2
    <3>2. wireIn'[i][k - n] = <<q, PktUnits>> /\ k - n \in 1..Len(wireIn'[i])
      BY <1>1, <1>3, <1>5, <2>2, <3>1
    <3> QED
      BY <3>2 DEF Coming
  <2>3. CASE j = i /\ k <= n
    <3> DEFINE t == HdrLeft(i) + BodyLeft(i, s)
    <3>1. t \in Nat
      <4>1. HdrLeft(i) \in 0..HdrUnits /\ BodyLeft(i, s) \in 1..PayUnits
        BY <1>0, ReadNumbers DEF TypeInv, TypeOK
      <4> QED
        BY <4>1, UnitsAssumption
    <3>2. \/ n = L /\ n < t
          \/ n = t /\ PacketComplete(i, s)
      BY <1>3 DEF Reads
    <3> HIDE DEF t
    <3>3. k <= t /\ k \in Nat
      BY <2>3, <3>1, <3>2
    <3>4. wireIn[i][k][2] = PktUnits /\ wireIn[i][k][1] = q /\ k \in 1..Len(wireIn[i])
      BY <1>5, <2>3
    <3>5. k = t
      BY <1>0, <3>3, <3>4, LastOfPacket DEF t
    <3>6. k = n /\ n = t /\ PacketComplete(i, s)
      BY <2>3, <3>1, <3>2, <3>3, <3>5
    <3>7. /\ slot' = [Claimed(i, s) EXCEPT ![i][s].seq = q]
          /\ indexIn' = [indexIn EXCEPT ![i] = EMPTY]
      BY <3>4, <3>6 DEF PacketComplete, t
    <3>8. slot'[i][s].inUse /\ slot'[i][s].seq = q
      BY <1>0, <3>7 DEF Claimed, SlotTypeOK, Slot
    <3>9. indexIn'[i] # s
      BY <1>0, <3>7, SlotsType DEF SlotTypeOK
    <3>10. Kept(i, s)'
      BY <3>8, <3>9 DEF Kept
    <3> QED
      BY <3>8, <3>10 DEF Here
  <2> QED
    BY <1>3, <1>5, <2>1, <2>2, <2>3
<1>6. ASSUME NEW q \in Nat, Coming(q) PROVE Coming(q)' \/ Here(q)'
  <2>1. CASE \E j \in Agents : peerPkt[j].left > 0 /\ peerPkt[j].seq = q
    BY <1>2, <2>1 DEF Coming
  <2> QED
    BY <1>5, <1>6, <2>1 DEF Coming
<1> QED
  BY <1>0, <1>2, <1>4, <1>6 DEF NoneLost

\* An event of the inbound half.
LEMMA AgentInInTurn ==
  ASSUME EndInv, NEW i \in Agents, AgentIn(i)
  PROVE  InTurn'
<1>0. /\ Orderly /\ NoReset /\ EofLast /\ ClosedInOrder /\ PeerTypeOK /\ TypeInv /\ OrderInv
  BY EndFacts
<1>1. pc = "wait" /\ pc' \in {"top", "deliver"} /\ \E s \in Slots, n \in Nat : Reads(i, s, n)
  BY AgentInReads
<1>2. PICK s \in Slots, n \in Nat : Reads(i, s, n)
  BY <1>1
<1>3. Running
  BY <1>1 DEF Running, Terminated, Aborts
<1>4. /\ UNCHANGED <<hostMask, hostSock, agentSock, hostIn, hostEof, sendSeq, packet>>
      /\ UNCHANGED <<recvSeq, peerSeq, peerPkt, peerUp, drained>>
      /\ \A j \in Agents \ {i} : agentMask'[j] = agentMask[j]
  BY <1>2 DEF Reads, ReadFrame, Consume, hostVars, sendVars
<1>5. PICK L \in Nat : L = Len(wireIn[i]) /\ n <= L
  BY <1>0, <1>2, WireNumbers DEF Reads
<1>6. /\ \A j \in Agents \ {i} : wireIn'[j] = wireIn[j]
      /\ Len(wireIn'[i]) = L - n
  BY <1>0, <1>2, <1>5, ConsumeWire DEF Reads, OrderInv
<1>7. n = L => wireIn'[i] = <<>>
  <2>1. wireIn'[i] \in Seq(Unit)
    BY <1>0, <1>2, ConsumeType DEF Reads, PeerTypeOK
  <2> QED
    BY <1>6, <2>1, EmptySeq
<1>8. ASSUME NEW j \in Agents, wireIn[j] = <<>> PROVE wireIn'[j] = <<>>
  <2>1. CASE j = i
    <3>1. L = 0
      BY <1>5, <1>8, <2>1, EmptySeq
    <3> QED
      BY <1>5, <1>7, <2>1, <3>1
  <2> QED
    BY <1>6, <1>8, <2>1
<1>9. NoneLost'
  BY <1>2, <1>3, ReadLosesNone
<1>10. Orderly' /\ NoReset' /\ DoneLast'
  BY <1>0, <1>1, <1>3, <1>4 DEF Orderly, NoReset, DoneLast
<1>11. EofLast'
  BY <1>0, <1>4, <1>8 DEF EofLast, HostIsDone, AllRead
<1>12. ClosedInOrder'
  <2>1. ASSUME NEW j \in Agents, ReadOut(j) PROVE ReadOut(j)'
    BY <1>4, <1>8, <2>1 DEF ReadOut
  <2>2. agentMask'[i] = CLOSED => ReadOut(i)'
    BY <1>2, <1>4, <1>5, <1>7 DEF Reads, ReadOut
  <2>3. \A j \in Agents : Pending(j)' = Pending(j)
    BY <1>4 DEF Pending
  <2> QED
    BY <1>0, <1>1, <1>3, <1>4, <2>1, <2>2, <2>3 DEF ClosedInOrder
<1> QED
  BY <1>9, <1>10, <1>11, <1>12 DEF InTurn

(***************************************************************************)
(* A step of this end: what it keeps, and what the other end and the hosts *)
(* see of it.                                                              *)
(***************************************************************************)

\* Its actions are those of a child; only a host can outlive it.
LEMMA EndNext ==
  ASSUME EndStep
  PROVE  (HostIsRead /\ ~Running) \/ (Next /\ Running)
<1>1. CASE HostIsRead
  BY <1>1 DEF HostIsRead, HostReads, Next
<1>2. CASE LoopTop \/ HostIn \/ HostOut \/ SendDataHost \/ \E i \in Agents : AgentOut(i)
  <2>1. pc \in {"top", "wait", "deliver"}
    BY <1>2 DEF LoopTop, HostIn, HostInEvent, HostInError, HostOut, HostOutEvent,
                SendDataHost, Deliver, AgentOut, AgentOutEvent
  <2> QED
    BY <1>2, <2>1 DEF Next, Running, Terminated, Aborts
<1>3. CASE \E i \in Agents : AgentIn(i)
  <2>1. pc = "wait"
    BY <1>3 DEF AgentIn, AgentInEvent
  <2> QED
    BY <1>3, <2>1 DEF Next, Running, Terminated, Aborts
<1>4. CASE HostWrites \/ HostCloses
  BY <1>4 DEF HostWrites, HostCloses, Next
<1> QED
  BY <1>1, <1>2, <1>3, <1>4 DEF EndStep

\* It changes nothing at the other end.
LEMMA EndLeavesPeer ==
  ASSUME EndStep
  PROVE  UNCHANGED <<peerSeq, peerPkt, peerUp>>
<1>1. CASE LoopTop \/ HostIn \/ \E i \in Agents : AgentOut(i)
  BY <1>1 DEF LoopTop, HostIn, AgentOut, recvVars, peerVars
<1>2. CASE HostOut \/ SendDataHost
  BY <1>2 DEF HostOut, HostOutEvent, SendDataHost, Deliver, DeliverPacket, DeliverBlocks,
              DeliverReset, DeliverError, recvVars, peerVars
<1>3. CASE HostWrites \/ HostIsRead \/ (HostIsDone /\ HostCloses)
  BY <1>3 DEF HostWrites, HostIsRead, HostTakes, HostCloses, recvVars, peerVars
<1>4. ASSUME NEW i \in Agents, AgentIn(i) PROVE UNCHANGED <<peerSeq, peerPkt, peerUp>>
  <2>1. NoSlot(i) \/ \E n : Consume(i, n)
    BY <1>4 DEF AgentIn, AgentInEvent, ReadAgentSendHost, HeaderBlocks, HeaderEof,
                HeaderReset, BodyBlocks, BodyEof, BodyReset, PacketComplete
  <2> QED
    BY <2>1 DEF NoSlot, Consume, recvVars, peerVars
<1> QED
  BY <1>1, <1>2, <1>3, <1>4 DEF EndStep

\* The host is given what it has not had, or nothing.
LEMMA EndWrites ==
  ASSUME BaseInv, EndStep
  PROVE  written' = written \/ \E n \in 1..PayUnits : HostS!Write(n)
<1>1. peerSeq' = peerSeq /\ peerSeq \in Nat
  BY EndLeavesPeer DEF BaseInv, TypeInv, TypeOK, PeerTypeOK
<1>2. CASE HostIsRead
  BY <1>2 DEF HostIsRead, HostTakes
<1>3. CASE Next
  <2>1. HostSees
    BY <1>3, InboundSeen DEF BaseInv
  <2>2. ~HostS!Put
    BY <1>1 DEF HostS!Put
  <2> QED
    BY <2>1, <2>2 DEF HostSees, HostS!Next
<1> QED
  BY <1>2, <1>3, EndNext

\* No stream gets too long.
LEMMA EndBounded ==
  ASSUME EndInv, EndStep
  PROVE  Bounded'
<1>0. /\ TypeInv /\ HostBound /\ BaseInv /\ peerSeq <= MaxPackets
      /\ Len(written) <= peerSeq * PayUnits /\ peerSeq \in Nat
      /\ written \in Seq(Unit) /\ Len(written) \in Nat
  BY EndFacts, LenProperties DEF EndInv, PeerTypeOK, HostTypeOK
<1>1. peerSeq' = peerSeq
  BY EndLeavesPeer
<1>2. HostBound'
  <2>1. CASE HostIsRead
    BY <1>0, <2>1 DEF HostIsRead, sendVars, HostBound
  <2> QED
    BY <1>0, <2>1, EndNext, HostBoundStep
<1>3. Len(written') <= peerSeq * PayUnits
  <2>1. CASE written' = written
    BY <1>0, <2>1
  <2>2. ASSUME NEW n \in 1..PayUnits, HostS!Write(n)
        PROVE  Len(written') <= peerSeq * PayUnits
    <3>1. PICK q \in 0..(peerSeq - 1), b \in 0..(PayUnits - 1) :
            /\ Len(written) = q * PayUnits + b
            /\ b + n <= PayUnits
            /\ written' = written \o [j \in 1..n |-> <<q, b + j>>]
      BY <2>2 DEF HostS!Write
    <3>2. q \in Nat /\ b \in Nat /\ n \in Nat /\ q + 1 <= peerSeq
      BY <1>0, <3>1, UnitsAssumption
    <3>3. [j \in 1..n |-> <<q, b + j>>] \in Seq(Unit) /\ Len([j \in 1..n |-> <<q, b + j>>]) = n
      <4>1. \A j \in 1..n : <<q, b + j>> \in Unit
        BY <3>2 DEF Unit
      <4> QED
        BY <3>2, <4>1
    <3>4. Len(written') = Len(written) + n
      BY <1>0, <3>1, <3>3, ConcatUnits
    <3>5. /\ q * PayUnits \in Nat /\ (q + 1) * PayUnits = q * PayUnits + PayUnits
          /\ (q + 1) * PayUnits <= peerSeq * PayUnits
          /\ peerSeq * PayUnits \in Nat /\ PayUnits \in Nat
      <4>1. q + 1 \in Nat
        BY <3>2
      <4> QED
        BY <1>0, <3>2, <4>1, NextPacket, MorePackets, UnitsAssumption
    <3>6. PICK m \in Nat, M \in Nat : m = q * PayUnits /\ M = peerSeq * PayUnits
      BY <3>5
    <3>7. m + PayUnits <= M
      BY <3>5, <3>6
    <3>8. Len(written') = m + b + n
      BY <3>1, <3>4, <3>6
    <3>9. m + b + n <= M
      BY <3>1, <3>2, <3>5, <3>7
    <3> QED
      BY <3>6, <3>8, <3>9
  <2> QED
    BY <1>0, <2>1, <2>2, EndWrites
<1> QED
  BY <1>0, <1>1, <1>2, <1>3 DEF Bounded

\* It keeps the invariant, where the other end leaves as it should.
LEMMA EndKeeps ==
  ASSUME EndInv, PeerLeavesLast, EndStep
  PROVE  EndInv'
<1>1. BaseInv' /\ Bounded'
  BY EndBase, EndBounded DEF EndInv
<1>2. InTurn'
  BY LoopInTurn, OutboundInTurn, HostOutInTurn, DeliverInTurn, HostWritesInTurn,
     HostIsReadInTurn, HostClosesInTurn, AgentInInTurn DEF EndStep
<1> QED
  BY <1>1, <1>2 DEF EndInv

\* The child has closed a connection, or is gone.
Gone == pc = "done" \/ \E j \in Agents : agentSock[j] = "closed"

\* It reads from a connection.
Gets ==
  \E i \in Agents, n \in Nat :
    /\ n <= Len(wireIn[i])
    /\ wireIn' = [wireIn EXCEPT ![i] = SubSeq(@, n + 1, Len(@))]

\* What the other end sees of a step of this one.
EndDoes ==
  /\ UNCHANGED <<peerSeq, peerPkt, peerUp>>
  /\ hostMask = CLOSED => hostMask' = CLOSED
  /\ Gone' => Gone \/ hostMask = CLOSED \/ \A j \in Agents : ~peerUp[j]
  /\ \A j \in Agents : Running' /\ agentSock'[j] = "open" => Running /\ agentSock[j] = "open"
  /\ \/ Sends /\ Running /\ Running' /\ UNCHANGED <<agentSock, wireIn>>
     \/ UNCHANGED <<sendSeq, packet, wireOut>> /\ (Gets \/ UNCHANGED wireIn)

\* The head of the loop closes connections only after a host, or after the other end.
LEMMA LoopDoes ==
  ASSUME EndInv, LoopTop
  PROVE  EndDoes
<1>0. /\ ClosedInOrder /\ Running /\ pc = "top"
      /\ UNCHANGED <<hostMask, sendSeq, packet, wireOut, wireIn>>
  BY EndFacts DEF LoopTop, Running, Terminated, Aborts, sendVars, recvVars, peerVars
<1>1. ASSUME hostMask # CLOSED, Gone'
      PROVE  Gone \/ \A j \in Agents : ~peerUp[j]
  <2>1. CloseHost
    BY <1>1 DEF LoopTop
  <2>2. CASE AllReceived
    BY <1>0, <1>1, <2>2 DEF AllReceived, ClosedInOrder, ReadOut
  <2>3. CASE ~AllReceived
    BY <1>0, <1>1, <2>1, <2>3 DEF CloseHost, Gone
  <2> QED
    BY <2>2, <2>3
<1>2. \A j \in Agents : agentSock'[j] = "open" => agentSock[j] = "open"
  BY DEF LoopTop, CloseIdle, CloseHost
<1> QED
  BY <1>0, <1>1, <1>2, EndLeavesPeer DEF EndDoes, EndStep

\* The other steps close nothing.
LEMMA OthersDo ==
  ASSUME EndInv, PeerLeavesLast, EndStep, ~LoopTop
  PROVE  EndDoes
<1>0. /\ Orderly /\ NoReset /\ ClosedInOrder /\ SendTypeOK /\ hostMask \in Masks
      /\ UNCHANGED <<peerSeq, peerPkt, peerUp>>
  BY EndFacts, EndLeavesPeer DEF ChildTypeOK
<1>1. CASE HostIn \/ \E i \in Agents : AgentOut(i)
  <2>1. OutboundDoes /\ Running
    BY <1>1, EndOutbound, LoopFrame, EndFacts
  <2>2. wireIn' = wireIn
    BY <1>1 DEF HostIn, AgentOut, recvVars, peerVars
  <2>3. pc' = "top" /\ agentSock' = agentSock /\ Running'
    BY <2>1 DEF OutboundDoes, Running, Terminated, Aborts
  <2> QED
    BY <1>0, <2>1, <2>2, <2>3 DEF OutboundDoes, EndDoes, Gone
<1>2. CASE HostOut
  <2>1. /\ UNCHANGED <<agentSock, sendSeq, packet, wireOut, wireIn>>
        /\ pc = "wait" /\ pc' = "deliver" /\ "out" \in hostMask
    BY <1>2 DEF HostOut, HostOutEvent, sendVars, peerVars
  <2>2. hostMask # CLOSED
    BY <1>0, <2>1, PolledMask
  <2> QED
    BY <1>0, <2>1, <2>2 DEF EndDoes, Gone, Running, Terminated, Aborts
<1>3. CASE SendDataHost
  <2>1. pc = "deliver" /\ hostSock = "open" /\ hostMask # CLOSED
    BY <1>3, HostWaits DEF SendDataHost, Deliver
  <2>2. DeliverPacket \/ DeliverBlocks
    BY <1>3, <2>1 DEF SendDataHost, Deliver, DeliverReset, DeliverError
  <2>3. /\ UNCHANGED <<agentSock, sendSeq, packet, wireOut, wireIn>>
    BY <1>3, <2>2 DEF SendDataHost, DeliverPacket, DeliverBlocks, sendVars, peerVars
  <2>4. pc' # "done"
    BY <2>2 DEF DeliverPacket, DeliverBlocks
  <2> QED
    BY <1>0, <2>1, <2>3, <2>4 DEF EndDoes, Gone, Running, Terminated, Aborts
<1>4. CASE HostWrites \/ HostIsRead \/ (HostIsDone /\ HostCloses)
  <2>1. UNCHANGED <<pc, hostMask, agentSock, sendSeq, packet, wireOut, wireIn>>
    BY <1>4 DEF HostWrites, HostWrite, HostIsRead, HostTakes, HostCloses, HostClose,
                childVars, sendVars, recvVars, peerVars
  <2> QED
    BY <1>0, <2>1 DEF EndDoes, Gone, Running, Terminated, Aborts
<1>5. ASSUME NEW i \in Agents, AgentIn(i) PROVE EndDoes
  <2>1. /\ pc = "wait" /\ pc' \in {"top", "deliver"}
        /\ \E s \in Slots, n \in Nat : Reads(i, s, n)
    BY <1>5, AgentInReads
  <2>2. PICK s \in Slots, n \in Nat : Reads(i, s, n)
    BY <2>1
  <2>3. Gets
    BY <2>2 DEF Reads, Consume, Gets
  <2>4. UNCHANGED <<hostMask, agentSock, sendSeq, packet, wireOut>>
    BY <2>2 DEF Reads, sendVars
  <2> QED
    BY <1>0, <2>1, <2>3, <2>4 DEF EndDoes, Gone, Running, Terminated, Aborts
<1> QED
  BY <1>1, <1>2, <1>3, <1>4, <1>5 DEF EndStep

\* What a step of this end means for the other end, and for what hosts are promised.
LEMMA EndGives ==
  ASSUME EndInv, PeerLeavesLast, EndStep
  PROVE  EndDoes
BY LoopDoes, OthersDo

\* What the host at this end has written, read or not, grows as it writes.
LEMMA EndOffers ==
  ASSUME EndInv, PeerLeavesLast, EndStep
  PROVE  \/ hostIn' + sendSeq' = hostIn + sendSeq
         \/ hostIn' + sendSeq' = hostIn + sendSeq + 1 /\ written' = written
<1>0. SendTypeOK /\ ClosedInOrder /\ hostIn \in Nat /\ sendSeq \in Nat
  BY EndFacts DEF SendTypeOK
<1>1. CASE HostIn \/ \E i \in Agents : AgentOut(i)
  <2>1. OutboundDoes
    BY <1>1, EndOutbound
  <2> QED
    BY <1>0, <2>1, SendsLast DEF OutboundDoes, ClosedInOrder
<1>2. CASE HostWrites
  BY <1>0, <1>2 DEF HostWrites, HostWrite, recvVars, hostVars
<1>3. CASE \/ LoopTop \/ HostOut \/ SendDataHost \/ HostIsRead \/ (HostIsDone /\ HostCloses)
           \/ \E i \in Agents : AgentIn(i)
  BY <1>3 DEF LoopTop, HostOut, SendDataHost, HostIsRead, HostCloses, HostClose, AgentIn, sendVars
<1> QED
  BY <1>1, <1>2, <1>3 DEF EndStep

(***************************************************************************)
(* The start, and a step of the other end.                                 *)
(***************************************************************************)

\* The invariant of an end holds at the start.
LEMMA EndInit == Init => EndInv
<1>0. SUFFICES ASSUME Init PROVE EndInv
  OBVIOUS
<1>1. BaseInv
  BY <1>0, BaseInit
<1>2. /\ pc = "top" /\ hostMask = MaskIN /\ hostSock = "open" /\ ~hostEof
      /\ \A j \in Agents : agentMask[j] = MaskIN /\ agentSock[j] = "open"
      /\ hostIn = 0 /\ sendSeq = 0 /\ peerSeq = 0 /\ recvSeq = 0 /\ written = <<>>
  BY <1>0 DEF Init, ChildInit, SendInit, RecvInit, Peer!Init
<1>3. MaskIN # CLOSED
  BY DEF MaskIN, CLOSED
<1>4. Bounded
  <2>1. Len(written) = 0
    BY <1>2
  <2> QED
    BY <1>2, <2>1, SendAssumption, QueueAssumption, UnitsAssumption DEF Bounded, HostBound
<1>5. NoneLost
  BY <1>2 DEF NoneLost
<1>6. Orderly /\ NoReset /\ EofLast /\ ClosedInOrder /\ DoneLast
  BY <1>2, <1>3 DEF Orderly, NoReset, EofLast, ClosedInOrder, DoneLast
<1> QED
  BY <1>1, <1>4, <1>5, <1>6 DEF EndInv, InTurn

\* What the peer puts on a connection is on its way.
LEMMA PutComes ==
  ASSUME PeerTypeOK, PeerPuts, MaxPackets \in Nat
  PROVE  /\ peerSeq' = peerSeq \/ (peerSeq' = peerSeq + 1 /\ peerSeq < MaxPackets)
         /\ peerUp' = peerUp
         /\ \E j \in Agents : peerUp[j]
         /\ \A j \in Agents : ~peerUp[j] => wireIn'[j] = wireIn[j]
         /\ ~AllRead
         /\ \A q \in Nat : Coming(q) => Coming(q)'
         /\ \A q \in Nat : q = peerSeq /\ peerSeq' = peerSeq + 1 => Coming(q)'
<1>1. PICK i \in Agents, n \in 0..PktUnits : Peer!Take(i, n) \/ Peer!Push(i, n)
  BY DEF PeerPuts
<1>2. PICK p \in Packet :
        /\ p.left > 0 /\ Peer!Put(i, p, n)
        /\ \/ /\ p = [seq |-> peerSeq, left |-> PktUnits] /\ peerPkt[i].left = 0
              /\ peerSeq' = peerSeq + 1 /\ peerSeq < MaxPackets
           \/ p = peerPkt[i] /\ peerSeq' = peerSeq
  <2>1. CASE Peer!Take(i, n)
    <3>1. [seq |-> peerSeq, left |-> PktUnits] \in Packet /\ PktUnits > 0
      BY Sizes DEF Packet, PeerTypeOK
    <3> QED
      BY <2>1, <3>1 DEF Peer!Take
  <2>2. CASE Peer!Push(i, n)
    <3>1. peerPkt[i] \in Packet /\ n > 0 /\ n <= peerPkt[i].left /\ Peer!Put(i, peerPkt[i], n)
      BY <2>2 DEF Peer!Push, Peer!Put, PeerTypeOK
    <3>2. peerPkt[i].left \in Nat
      BY <3>1, Sizes DEF Packet
    <3>3. peerPkt[i].left > 0
      BY <3>1, <3>2
    <3> QED
      BY <2>2, <3>1, <3>3 DEF Peer!Push
  <2> QED
    BY <1>1, <2>1, <2>2
<1>3. /\ n \in Nat /\ n <= p.left /\ peerUp[i] /\ peerUp' = peerUp
      /\ wireIn' = [wireIn EXCEPT ![i] = @ \o Peer!Units(p, n)]
      /\ peerPkt' = [peerPkt EXCEPT ![i] = Peer!After(p, n)]
  BY <1>1, <1>2, Sizes DEF Peer!Take, Peer!Push, Peer!Put
<1>4. PICK w \in Seq(Unit), L \in Nat : w = wireIn[i] /\ L = Len(w)
  BY WireNumbers
<1>5. /\ Len(wireIn'[i]) = L + n
      /\ \A k \in 1..L : wireIn'[i][k] = w[k]
      /\ \A m \in 1..n : wireIn'[i][L + m] = <<p.seq, (PktUnits - p.left) + m>>
  <2>1. Peer!Units(p, n) = Units(p, n)
    BY DEF Peer!Units, Units
  <2>2. wireIn'[i] = w \o Units(p, n)
    BY <1>3, <1>4, <2>1 DEF PeerTypeOK
  <2>3. n \in Nat /\ n <= p.left
    BY <1>3
  <2> QED
    <3>1. /\ Len(w \o Units(p, n)) = L + n
          /\ Extends(w \o Units(p, n), w, L, n, p.seq, PktUnits - p.left)
      BY <1>4, <2>3, ExtendedWire
    <3> QED
      BY <2>2, <3>1 DEF Extends
<1>6. PICK l \in Nat : l = p.left /\ l <= PktUnits
  BY <1>2, Sizes DEF Packet
<1>7. Coming(p.seq)'
  <2>1. CASE n = p.left
    <3>1. n \in 1..n /\ L + n \in 1..Len(wireIn'[i]) /\ (PktUnits - l) + n = PktUnits
      <4>1. n = l /\ n > 0 /\ n \in Nat
        BY <1>2, <1>3, <1>6, <2>1
      <4>2. Len(wireIn'[i]) = L + n
        BY <1>5
      <4> QED
        BY <4>1, <4>2, Sizes
    <3>2. wireIn'[i][L + n] = <<p.seq, PktUnits>>
      BY <1>5, <1>6, <3>1
    <3> QED
      BY <3>1, <3>2 DEF Coming
  <2>2. CASE n # p.left
    <3>1. peerPkt'[i] = [p EXCEPT !.left = @ - n]
      BY <1>3, <2>2 DEF Peer!After, PeerTypeOK
    <3>2. peerPkt'[i].left = l - n /\ peerPkt'[i].seq = p.seq
      BY <1>2, <1>6, <3>1 DEF Packet
    <3>3. l - n > 0
      BY <1>3, <1>6, <2>2
    <3> QED
      BY <3>2, <3>3 DEF Coming
  <2> QED
    BY <2>1, <2>2
<1>8. ASSUME NEW q \in Nat, Coming(q) PROVE Coming(q)'
  <2>1. ASSUME NEW j \in Agents, NEW k \in 1..Len(wireIn[j]), wireIn[j][k] = <<q, PktUnits>>
        PROVE  Coming(q)'
    <3>1. CASE j = i
      <4>1. k \in 1..L /\ k \in 1..Len(wireIn'[i]) /\ wireIn'[i][k] = <<q, PktUnits>>
        BY <1>3, <1>4, <1>5, <2>1, <3>1
      <4> QED
        BY <4>1 DEF Coming
    <3>2. CASE j # i
      <4>1. wireIn'[j] = wireIn[j]
        BY <1>3, <3>2 DEF PeerTypeOK
      <4> QED
        BY <2>1, <4>1 DEF Coming
    <3> QED
      BY <3>1, <3>2
  <2>2. ASSUME NEW j \in Agents, peerPkt[j].left > 0, peerPkt[j].seq = q
        PROVE  Coming(q)'
    <3>1. CASE j = i
      <4>1. p = peerPkt[i]
        BY <1>2, <2>2, <3>1
      <4> QED
        BY <1>7, <2>2, <3>1, <4>1
    <3>2. CASE j # i
      <4>1. peerPkt'[j] = peerPkt[j]
        BY <1>3, <3>2 DEF PeerTypeOK
      <4> QED
        BY <2>2, <4>1 DEF Coming
    <3> QED
      BY <3>1, <3>2
  <2> QED
    BY <1>8, <2>1, <2>2 DEF Coming
<1>9. ~AllRead
  <2>1. peerSeq \in Nat
    BY DEF PeerTypeOK
  <2> QED
    BY <1>2, <2>1 DEF AllRead
<1>10. \A j \in Agents : ~peerUp[j] => wireIn'[j] = wireIn[j]
  BY <1>3 DEF PeerTypeOK
<1>11. ASSUME NEW q \in Nat, q = peerSeq, peerSeq' = peerSeq + 1 PROVE Coming(q)'
  <2>1. peerSeq + 1 # peerSeq
    BY DEF PeerTypeOK
  <2>2. p.seq = q
    BY <1>2, <1>11, <2>1
  <2> QED
    BY <1>7, <2>2
<1>12. peerSeq' = peerSeq \/ (peerSeq' = peerSeq + 1 /\ peerSeq < MaxPackets)
  BY <1>2
<1> QED
  BY <1>3, <1>8, <1>9, <1>10, <1>11, <1>12

\* A step of the other end keeps the invariant of this one.
LEMMA BeyondKeeps ==
  ASSUME EndInv, Beyond
  PROVE  EndInv'
<1>0. /\ BaseInv /\ HostBound /\ Orderly /\ NoReset /\ EofLast /\ ClosedInOrder /\ NoneLost
      /\ DoneLast /\ PeerTypeOK /\ peerSeq \in Nat /\ written \in Seq(Unit)
      /\ peerSeq <= MaxPackets /\ Len(written) <= peerSeq * PayUnits
  BY EndFacts DEF EndInv, PeerTypeOK, HostTypeOK
<1>1. /\ UNCHANGED <<pc, hostMask, agentMask, hostSock, agentSock>>
      /\ UNCHANGED <<hostIn, hostEof, sendSeq, packet, recvSeq, slot, indexIn>>
      /\ UNCHANGED <<written, drained>>
  BY DEF Beyond, childVars, slotVars, hostVars
<1>2. /\ Running' = Running
      /\ \A j \in Agents : Pending(j)' = Pending(j)
      /\ \A q \in Nat : Here(q) => Here(q)'
  BY <1>1 DEF Running, Terminated, Aborts, Pending, Here, Kept
<1>3. BaseInv'
  BY <1>0, BeyondBase
<1>4. MaxPackets \in Nat
  BY QueueAssumption
<1>5. /\ peerSeq' \in Nat /\ peerSeq <= peerSeq' /\ peerSeq' <= MaxPackets
      /\ \A j \in Agents : ~peerUp[j] => ~peerUp'[j] /\ wireIn'[j] = wireIn[j]
      /\ AllRead => UNCHANGED <<peerSeq, peerPkt, wireIn>>
      /\ (\A j \in Agents : ~peerUp[j]) => UNCHANGED <<peerSeq, peerPkt, wireIn>>
  <2>1. CASE PeerPuts
    <3>1. /\ peerSeq' = peerSeq \/ (peerSeq' = peerSeq + 1 /\ peerSeq < MaxPackets)
          /\ peerUp' = peerUp /\ ~AllRead
          /\ \E j \in Agents : peerUp[j]
          /\ \A j \in Agents : ~peerUp[j] => wireIn'[j] = wireIn[j]
      BY <1>0, <1>4, <2>1, PutComes
    <3>2. peerSeq' \in Nat /\ peerSeq <= peerSeq' /\ peerSeq' <= MaxPackets
      BY <1>0, <1>4, <3>1
    <3> QED
      BY <3>1, <3>2
  <2>2. CASE PeerShuts
    BY <1>0, <2>2 DEF PeerShuts
  <2> QED
    BY <2>1, <2>2 DEF Beyond
<1>6. ASSUME NEW q \in Nat, q < peerSeq', Running, recvSeq <= q
      PROVE  Coming(q)' \/ Here(q)'
  <2>1. CASE PeerPuts
    <3>1. CASE q < peerSeq
      BY <1>0, <1>2, <1>4, <1>6, <2>1, <3>1, PutComes DEF NoneLost
    <3>2. CASE ~(q < peerSeq)
      <4>1. peerSeq' = peerSeq \/ peerSeq' = peerSeq + 1
        BY <1>0, <1>4, <2>1, PutComes
      <4>2. q = peerSeq /\ peerSeq' = peerSeq + 1
        BY <1>0, <1>6, <3>2, <4>1
      <4> QED
        BY <1>0, <1>4, <2>1, <4>2, PutComes
    <3> QED
      BY <3>1, <3>2
  <2>2. CASE PeerShuts
    <3>1. UNCHANGED <<peerSeq, peerPkt, wireIn>>
      BY <2>2 DEF PeerShuts
    <3>2. Coming(q) => Coming(q)'
      BY <3>1 DEF Coming
    <3> QED
      BY <1>0, <1>2, <1>6, <3>1, <3>2 DEF NoneLost
  <2> QED
    BY <2>1, <2>2 DEF Beyond
<1>7. NoneLost'
  BY <1>1, <1>2, <1>6 DEF NoneLost
<1>8. Bounded'
  <2>1. HostBound'
    BY <1>0, <1>1 DEF HostBound
  <2>2. Len(written) <= peerSeq' * PayUnits
    <3>1. peerSeq * PayUnits <= peerSeq' * PayUnits
      BY <1>0, <1>5, MorePackets
    <3>2. PICK m \in Nat, M \in Nat : m = peerSeq * PayUnits /\ M = peerSeq' * PayUnits
      BY <1>0, <1>5, NextPacket
    <3>3. Len(written) \in Nat
      BY <1>0, LenProperties
    <3> QED
      BY <1>0, <3>1, <3>2, <3>3
  <2> QED
    BY <1>1, <1>5, <2>1, <2>2 DEF Bounded
<1>9. Orderly' /\ NoReset'
  BY <1>0, <1>1, <1>2 DEF Orderly, NoReset
<1>10. EofLast'
  <2>1. AllRead => AllRead'
    BY <1>1, <1>5 DEF AllRead
  <2> QED
    BY <1>0, <1>1, <2>1 DEF EofLast, HostIsDone
<1>11. \A j \in Agents : ReadOut(j) => ReadOut(j)'
  BY <1>5 DEF ReadOut
<1>12. ClosedInOrder'
  BY <1>0, <1>1, <1>2, <1>11 DEF ClosedInOrder
<1>13. DoneLast'
  <2>1. ASSUME HasAllSent PROVE HasAllSent'
    <3>1. \A j \in Agents : ~peerUp[j]
      BY <2>1 DEF HasAllSent, ReadOut
    <3>2. UNCHANGED <<peerSeq, peerPkt, wireIn>>
      BY <1>5, <3>1
    <3> QED
      BY <1>1, <1>11, <2>1, <3>2 DEF HasAllSent
  <2> QED
    BY <1>0, <1>1, <1>2, <2>1 DEF DoneLast
<1> QED
  BY <1>3, <1>7, <1>8, <1>9, <1>10, <1>12, <1>13 DEF EndInv, InTurn

\* A child keeps its polling in order.
LEMMA KeepsPolling ==
  ASSUME BaseInv
  PROVE  PendingIsPolled /\ NoIdleWakeup /\ PausedIffFull /\ BlockedPacketKept
<1>0. TypeInv /\ PollingInv /\ OrderInv /\ SlotInv
  BY DEF BaseInv
<1>1. PendingIsPolled /\ NoIdleWakeup
  BY <1>0 DEF PollingInv, PolledAs, PendingIsPolled, NoIdleWakeup, Served
<1>2. PausedIffFull
  BY <1>0 DEF SlotInv, PausedIffFull, Book, Balanced
<1>3. ASSUME Running, "out" \in hostMask
      PROVE  outAgent \in Agents /\ Holds(outAgent, indexOut, slot[outAgent][indexOut].sent)
  <2>1. HostOK
    BY <1>0, <1>3 DEF OrderInv, StreamOK
  <2> QED
    BY <1>0, <1>3, <2>1, OutSlots DEF HostOK
<1>4. BlockedPacketKept
  BY <1>3 DEF BlockedPacketKept, Holds, Kept
<1> QED
  BY <1>1, <1>2, <1>4

=============================================================================
