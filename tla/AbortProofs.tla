------------------------------ MODULE AbortProofs ------------------------------
(***************************************************************************)
(* Proofs that a child does not leave through the exit(1)s that report a   *)
(* state the program believes impossible: two of them never, the others    *)
(* not while only one end closes, and in order.                            *)
(***************************************************************************)
EXTENDS SlotProofs, OutboundProofs

(***************************************************************************)
(* read_agent_send_host() is called when there is something to read, and a *)
(* slot for it.                                                            *)
(***************************************************************************)

\* A connection that is read has a free slot.
LEMMA SlotIsFree ==
  ASSUME TypeInv, SlotInv, Running, NEW i \in Agents, "in" \in agentMask[i],
         AgentReadable(i), AtHeader(i)
  PROVE  ~NoFreeIndex(i)
<1>1. agentMask[i] # CLOSED
  BY PolledMask DEF TypeInv, TypeOK, ChildTypeOK
<1>2. Balanced(i)
  BY <1>1 DEF SlotInv, Book, Served, AgentReadable
<1>3. ~InHeader(i) /\ indexIn[i] = EMPTY
  BY DEF AtHeader, InHeader
<1>4. Cardinality(InUse(i)) # QueueSize
  BY <1>2, <1>3, QueueAssumption DEF Balanced, TypeInv, TypeOK, SlotTypeOK
<1>5. ASSUME NoFreeIndex(i) PROVE FALSE
  <2>1. InUse(i) = Slots
    BY <1>5 DEF NoFreeIndex, InUse
  <2>2. Cardinality(Slots) = QueueSize
    BY QueueAssumption, FS_Interval DEF Slots
  <2> QED
    BY <1>4, <2>1, <2>2
<1> QED
  BY <1>5

\* It has something to be read when its socket would block after that.
LEMMA SomethingRead ==
  ASSUME TypeInv, NEW i \in Agents, NEW s \in Slots, AgentReadable(i), HeaderBlocks(i, s)
  PROVE  pc' = "top"
<1>1. wireIn[i] # <<>>
  BY DEF AgentReadable, HeaderBlocks, WouldBlock
<1>2. wireIn[i] \in Seq(Unit) /\ needHdr[i] \in 0..(HdrUnits - 1)
  BY DEF TypeInv, TypeOK, PeerTypeOK, SlotTypeOK
<1>3. Avail(i) \in Nat /\ Avail(i) # 0
  BY <1>1, <1>2, LenProperties, EmptySeq DEF Avail
<1>4. needHdr[i] + Avail(i) # 0
  BY <1>2, <1>3
<1> QED
  BY <1>4 DEF HeaderBlocks

\* So the events of a connection end in the loop, in the delivery of a packet, or
\* with the process.
LEMMA AgentInEnds ==
  ASSUME TypeInv, SlotInv, NEW i \in Agents, AgentIn(i)
  PROVE  pc' \in {"top", "deliver", "exit"}
<1>1. /\ pc = "wait" /\ "in" \in agentMask[i] /\ AgentReadable(i)
      /\ ReadAgentSendHost(i) /\ Running
  BY DEF AgentIn, AgentInEvent, Running, Terminated, Aborts
<1>2. ~NoSlot(i)
  BY <1>1, SlotIsFree DEF NoSlot
<1>3. PICK s \in Slots :
        \/ HeaderBlocks(i, s) \/ HeaderEof(i, s) \/ HeaderReset(i, s)
        \/ BodyBlocks(i, s) \/ BodyEof(i, s) \/ BodyReset(i, s) \/ PacketComplete(i, s)
  BY <1>1, <1>2 DEF ReadAgentSendHost
<1>4. LeavePool(i) => pc' = "top"
  BY <1>1, LeavePoolType DEF TypeInv, TypeOK
<1>5. CASE HeaderBlocks(i, s)
  BY <1>1, <1>5, SomethingRead
<1>6. CASE HeaderEof(i, s) \/ HeaderReset(i, s) \/ BodyEof(i, s)
  BY <1>4, <1>6 DEF HeaderEof, HeaderReset, BodyEof
<1>7. CASE BodyBlocks(i, s) \/ BodyReset(i, s) \/ PacketComplete(i, s)
  BY <1>7 DEF BodyBlocks, BodyReset, PacketComplete
<1> QED
  BY <1>3, <1>5, <1>6, <1>7

\* The steps of the outbound half and of send_data_host() end elsewhere.
LEMMA OtherEnds ==
  ASSUME LoopTop \/ HostIn \/ HostOut \/ SendDataHost \/ \E i \in Agents : AgentOut(i)
  PROVE  pc' \notin {"no free slot", "weird false fire"}
<1>1. ASSUME NEW i \in Agents, NEW hm, NEW am, ReadHostSendAgent(i, hm, am)
      PROVE  pc' \in {"top", "exit", "epoll_ctl failed", "should not be here"}
  BY <1>1 DEF ReadHostSendAgent, SendRest, SendNew, HostNothing, HostEnded, Send, SendSome,
              SendReset, SendPipe
<1>2. CASE HostIn
  BY <1>1, <1>2 DEF HostIn, HostInEvent, HostInError, AllAgentsSocksFull
<1>3. CASE \E i \in Agents : AgentOut(i)
  BY <1>1, <1>3 DEF AgentOut, AgentOutEvent
<1>4. CASE LoopTop
  BY <1>4 DEF LoopTop, CloseIdle, CloseHost
<1>5. CASE HostOut \/ SendDataHost
  BY <1>5 DEF HostOut, HostOutEvent, SendDataHost, Deliver, DeliverPacket, DeliverBlocks,
              DeliverReset, DeliverError
<1> QED
  BY <1>2, <1>3, <1>4, <1>5

\* What happens around the child does not move it.
LEMMA AroundSamePc ==
  ASSUME \/ HostWrites \/ HostCloses \/ HostReads \/ HostResets \/ PeerActs
         \/ Ended \/ UNCHANGED vars
         \/ \E i \in Agents : PeerTakes(i) \/ AgentBreaks(i)
  PROVE  pc' = pc
BY DEF HostWrites, HostWrite, HostCloses, HostClose, HostReads, HostTakes, HostResets,
       HostBreaks, PeerActs, PeerSends, PeerCloses, PeerDies, PeerTakes, WireDrain,
       AgentBreaks, Ended, vars, childVars

\* Whatever breaks, and whenever, read_agent_send_host() always finds something to read
\* and a slot for it.
THEOREM AlwaysRoom == Spec => []NeverCornered
<1>1. Init => NeverCornered
  BY DEF Init, ChildInit, NeverCornered
<1>2. TypeInv /\ SlotInv /\ NeverCornered /\ [Next]_vars => NeverCornered'
  <2> SUFFICES ASSUME TypeInv, SlotInv, NeverCornered, [Next]_vars PROVE NeverCornered'
    OBVIOUS
  <2>1. CASE \E i \in Agents : AgentIn(i)
    BY <2>1, AgentInEnds DEF NeverCornered
  <2>2. CASE LoopTop \/ HostIn \/ HostOut \/ SendDataHost \/ \E i \in Agents : AgentOut(i)
    BY <2>2, OtherEnds DEF NeverCornered
  <2>3. CASE \/ HostWrites \/ HostCloses \/ HostReads \/ HostResets \/ PeerActs
             \/ Ended \/ UNCHANGED vars
             \/ \E i \in Agents : PeerTakes(i) \/ AgentBreaks(i)
    BY <2>3, AroundSamePc DEF NeverCornered
  <2> QED
    BY <2>1, <2>2, <2>3 DEF Next
<1> QED
  BY <1>1, <1>2, TypeInvariant, SlotInvariant, PTL DEF Spec

(***************************************************************************)
(* When only one end closes.                                               *)
(***************************************************************************)

\* The peer has numbered no packet too many; the host has closed only if it may.
Allowed == peerSeq <= MaxPackets /\ (hostEof => "host close" \in EnvEvents)

\* The packets stay within the bound, and a host that may not close does not.
LEMMA AllowedStep == TypeInv /\ Allowed /\ [Next]_vars => Allowed'
<1> SUFFICES ASSUME TypeInv, Allowed, [Next]_vars PROVE Allowed'
  OBVIOUS
<1>0. peerSeq \in Nat /\ MaxPackets \in Nat
  BY QueueAssumption DEF TypeInv, TypeOK, PeerTypeOK
<1>1. peerSeq' = peerSeq \/ (peerSeq' = peerSeq + 1 /\ peerSeq < MaxPackets)
  <2>1. CASE LoopTop \/ HostIn \/ \E i \in Agents : AgentOut(i)
    BY <2>1 DEF LoopTop, HostIn, AgentOut, recvVars, peerVars
  <2>2. CASE HostOut \/ SendDataHost
    BY <2>2 DEF HostOut, HostOutEvent, SendDataHost, Deliver, DeliverPacket, DeliverBlocks,
                DeliverReset, DeliverError, recvVars, peerVars
  <2>3. ASSUME NEW i \in Agents, AgentIn(i) PROVE peerSeq' = peerSeq
    <3>1. CASE NoSlot(i)
      BY <3>1 DEF NoSlot, recvVars, peerVars
    <3>2. CASE \E n : Consume(i, n)
      BY <3>2 DEF Consume
    <3>3. NoSlot(i) \/ \E n : Consume(i, n)
      <4>1. NoSlot(i) \/ \E s \in Slots :
               \/ HeaderBlocks(i, s) \/ HeaderEof(i, s) \/ HeaderReset(i, s)
               \/ BodyBlocks(i, s) \/ BodyEof(i, s) \/ BodyReset(i, s) \/ PacketComplete(i, s)
        BY <2>3 DEF AgentIn, AgentInEvent, ReadAgentSendHost
      <4> QED
        BY <4>1 DEF HeaderBlocks, HeaderEof, HeaderReset, BodyBlocks, BodyEof, BodyReset,
                    PacketComplete
    <3> QED
      BY <3>1, <3>2, <3>3
  <2>4. CASE PeerActs
    BY <2>4 DEF PeerActs, PeerSends, PeerCloses, PeerDies, Peer!Take, Peer!Push, Peer!Lose,
                Peer!Close, Peer!Die, Peer!GoesLost
  <2>5. CASE \/ HostWrites \/ HostCloses \/ HostReads \/ HostResets \/ Ended
             \/ UNCHANGED vars \/ \E i \in Agents : PeerTakes(i) \/ AgentBreaks(i)
    BY <2>5 DEF HostWrites, HostCloses, HostReads, HostTakes, HostResets, HostBreaks, Ended,
                PeerTakes, AgentBreaks, Peer!Reset, vars, recvVars, peerVars
  <2> QED
    BY <2>1, <2>2, <2>3, <2>4, <2>5 DEF Next
<1>2. hostEof' = hostEof \/ "host close" \in EnvEvents
  <2>1. CASE LoopTop \/ HostOut \/ SendDataHost \/ PeerActs \/ HostReads \/ HostResets
             \/ \E i \in Agents : AgentIn(i)
    BY <2>1 DEF LoopTop, HostOut, SendDataHost, PeerActs, HostReads, HostResets, AgentIn,
                sendVars
  <2>2. ASSUME NEW i \in Agents, NEW hm, NEW am, ReadHostSendAgent(i, hm, am)
        PROVE  hostEof' = hostEof
    BY <2>2 DEF ReadHostSendAgent, SendRest, SendNew, HostNothing, HostEnded, sendVars
  <2>3. CASE HostIn \/ \E i \in Agents : AgentOut(i)
    BY <2>2, <2>3 DEF HostIn, HostInEvent, HostInError, AllAgentsSocksFull, AgentOut,
                      AgentOutEvent, sendVars
  <2>4. CASE \/ HostWrites \/ HostCloses \/ Ended \/ UNCHANGED vars
             \/ \E i \in Agents : PeerTakes(i) \/ AgentBreaks(i)
    BY <2>4 DEF HostWrites, HostWrite, HostCloses, HostClose, Ended, PeerTakes, WireDrain,
                AgentBreaks, vars, sendVars
  <2> QED
    BY <2>1, <2>3, <2>4 DEF Next
<1>3. peerSeq' <= MaxPackets
  <2>1. peerSeq <= MaxPackets
    BY DEF Allowed
  <2> QED
    BY <1>0, <1>1, <2>1
<1>4. hostEof' => "host close" \in EnvEvents
  BY <1>2 DEF Allowed
<1> QED
  BY <1>3, <1>4 DEF Allowed

(***************************************************************************)
(* While nothing but its host ends a tunnel, and that only where the peer  *)
(* sends nothing.                                                          *)
(***************************************************************************)
HostEndsIt ==
  EnvEvents \subseteq {"host close"} /\ ("host close" \in EnvEvents => MaxPackets = 0)

\* Connections are closed after the host; those that are left when the child waits
\* have a packet to send.
HostFirst ==
  /\ \A j \in Agents : agentSock[j] = "closed" => hostMask = CLOSED
  /\ pc = "wait" /\ hostMask = CLOSED => \A j \in Agents : Pending(j) \/ agentMask[j] = CLOSED

\* A step that closes no connection, and after which the child does not wait.
LEMMA StillHostFirst ==
  ASSUME HostFirst, agentSock' = agentSock, hostMask = CLOSED => hostMask' = CLOSED,
         pc' # "wait"
  PROVE  HostFirst'
BY DEF HostFirst

\* read_host_send_agent() works on what the loop left open.
LEMMA ReadHostSendAgentGoesOn ==
  ASSUME Unbroken, NEW i \in Agents, NEW hm, NEW am,
         Pending(i) => "out" \in am[i], hostIn = 0 /\ hostEof /\ ~Pending(i) => Registered(hm),
         ReadHostSendAgent(i, hm, am)
  PROVE  pc' = "top" /\ agentSock' = agentSock
<1>1. ASSUME NEW p, NEW am2, Send(i, p, am2)
      PROVE  pc' = "top" /\ agentSock' = agentSock
  BY <1>1 DEF Send, SendSome, SendReset, SendPipe, Unbroken
<1>2. CASE SendRest(i, hm, am) \/ SendNew(i, hm, am)
  BY <1>1, <1>2 DEF SendRest, SendNew
<1>3. CASE HostNothing(i, hm, am) \/ HostEnded(i, hm, am)
  BY <1>3 DEF HostNothing, HostEnded, Unbroken
<1> QED
  BY <1>2, <1>3 DEF ReadHostSendAgent

\* While the host ends the tunnel, the outbound half comes back to the loop, or is killed by a
\* system error.
LEMMA OutboundGoesOn ==
  ASSUME TypeInv, PollingInv, LeavingInv, HostFirst,
         HostIn \/ \E i \in Agents : AgentOut(i)
  PROVE  pc' \in {"top", "exit"} /\ agentSock' = agentSock
<1>0. /\ hostMask \in Masks /\ agentMask \in [Agents -> Masks] /\ Unbroken /\ ClosedLast
      /\ Running /\ pc = "wait"
  BY DEF TypeInv, TypeOK, ChildTypeOK, LeavingInv, HostIn, HostInEvent, HostInError, AgentOut,
         AgentOutEvent, Running, Terminated, Aborts
<1>1. CASE HostIn
  <2>1. "in" \in hostMask /\ hostMask # CLOSED /\ Registered(hostMask)
    BY <1>0, <1>1, PolledMask DEF HostIn, HostInEvent, HostInError
  <2>2. \A j \in Agents : agentMask[j] # CLOSED /\ agentSock[j] # "closed"
    BY <1>0, <2>1 DEF ClosedLast, HostFirst
  <2>3. \A j \in Agents : Pending(j) => "out" \in agentMask[j]
    BY <1>0, <2>2 DEF PollingInv, PolledAs
  <2>4. CASE \E i \in Agents : ReadHostSendAgent(i, hostMask, agentMask)
    BY <1>0, <2>1, <2>3, <2>4, ReadHostSendAgentGoesOn
  <2>5. CASE AllAgentsSocksFull \/ HostInError
    BY <2>2, <2>5 DEF AllAgentsSocksFull, HostInError
  <2> QED
    BY <1>1, <2>4, <2>5 DEF HostIn, HostInEvent
<1>2. ASSUME NEW i \in Agents, AgentOut(i)
      PROVE  pc' \in {"top", "exit"} /\ agentSock' = agentSock
  <2>1. "out" \in agentMask[i] /\ agentMask[i] # CLOSED
    BY <1>0, <1>2, PolledMask DEF AgentOut, AgentOutEvent
  <2>2. CASE Pending(i)
    <3>1. ReadHostSendAgent(i, hostMask, agentMask)
      BY <1>2, <2>2 DEF AgentOut, AgentOutEvent
    <3> QED
      BY <1>0, <2>1, <2>2, <3>1, ReadHostSendAgentGoesOn
  <2>3. CASE ~Pending(i)
    <3>1. ReadHostSendAgent(i, HostResumed, AgentsResumed)
      BY <1>2, <2>3 DEF AgentOut, AgentOutEvent
    <3>2. hostMask # CLOSED
      BY <1>0, <2>1, <2>3 DEF HostFirst
    <3>3. Registered(HostResumed)
      <4>1. "in" \in PollFor(hostMask, "in") /\ PollFor(hostMask, "in") \in Masks
        BY <1>0, <3>2, PollForMask
      <4> QED
        BY <4>1, PolledMask DEF HostResumed
    <3> QED
      BY <1>0, <2>3, <3>1, <3>3, ReadHostSendAgentGoesOn
  <2> QED
    BY <2>2, <2>3
<1> QED
  BY <1>1, <1>2

\* The head of the loop.
LEMMA LoopHostFirst ==
  ASSUME TypeInv, LeavingInv, HostFirst, LoopTop
  PROVE  HostFirst' /\ pc' \notin Aborts
<1>1. UNCHANGED <<hostMask, packet>>
  BY DEF LoopTop, sendVars
<1>2. CASE hostMask = CLOSED
  <2>1. CloseIdle
    BY <1>2 DEF LoopTop
  <2>2. \A j \in Agents : Pending(j)' \/ agentMask'[j] = CLOSED
    BY <1>1, <2>1 DEF CloseIdle, Pending
  <2> QED
    BY <1>1, <1>2, <2>1, <2>2 DEF CloseIdle, HostFirst, Aborts
<1>3. CASE hostMask # CLOSED
  BY <1>1, <1>3 DEF LoopTop, CloseHost, HostFirst, Aborts
<1> QED
  BY <1>2, <1>3

\* A packet is delivered only where the host does not close.
LEMMA DeliveredToHost ==
  ASSUME HostEndsIt, TypeInv, OrderInv, LeavingInv, Allowed, pc = "deliver"
  PROVE  hostMask # CLOSED /\ "out" \notin hostMask
<1>1. Running
  BY DEF Running, Terminated, Aborts
<1>2. HostOK
  BY <1>1 DEF OrderInv, StreamOK
<1>3. recvSeq < peerSeq /\ "out" \notin hostMask
  BY <1>2 DEF HostOK, Holds, HeadTaken
<1>4. recvSeq \in Nat /\ peerSeq \in Nat /\ MaxPackets \in Nat /\ peerSeq <= MaxPackets
  BY QueueAssumption DEF TypeInv, TypeOK, SlotTypeOK, PeerTypeOK, Allowed
<1>5. MaxPackets # 0
  BY <1>3, <1>4
<1>6. ~hostEof
  BY <1>5 DEF HostEndsIt, Allowed
<1> QED
  BY <1>3, <1>6 DEF LeavingInv, ClosedLast

\* The events of the inbound half.
LEMMA InboundGoesOn ==
  ASSUME HostEndsIt, TypeInv, OrderInv, SlotInv, LeavingInv, Allowed, HostFirst,
         HostOut \/ SendDataHost \/ \E i \in Agents : AgentIn(i)
  PROVE  HostFirst' /\ pc' \notin Aborts
<1>0. /\ hostMask \in Masks /\ Unbroken /\ ClosedLast
  BY DEF TypeInv, TypeOK, ChildTypeOK, LeavingInv
<1>1. CASE HostOut
  <2>1. /\ pc' = "deliver" /\ agentSock' = agentSock
        /\ hostMask' = StopPolling(hostMask, "out") /\ "out" \in hostMask
    BY <1>1 DEF HostOut, HostOutEvent
  <2>2. hostMask # CLOSED
    BY <1>0, <2>1, PolledMask
  <2> QED
    BY <2>1, <2>2, StillHostFirst DEF Aborts
<1>2. CASE SendDataHost
  <2>1. pc = "deliver" /\ hostMask # CLOSED /\ "out" \notin hostMask /\ cur.agent \in Agents
    BY <1>2, DeliveredToHost DEF SendDataHost, Deliver, TypeInv, OutKnown
  <2>2. CASE DeliverPacket
    <3>1. agentSock[cur.agent] # "closed"
      BY <2>1 DEF HostFirst
    <3>2. pc' \in {"top", "deliver"} /\ UNCHANGED <<agentSock, hostMask>>
      BY <2>2, <3>1 DEF DeliverPacket
    <3> QED
      BY <3>2, StillHostFirst DEF Aborts
  <2>3. CASE DeliverBlocks
    <3>1. hostMask \in {MaskIN, OFF}
      BY <1>0, <2>1 DEF Masks, OUT, INAndOut
    <3>2. pc' = "top" /\ agentSock' = agentSock
      BY <2>3, <3>1 DEF DeliverBlocks
    <3> QED
      BY <2>1, <3>2, StillHostFirst DEF Aborts
  <2>4. CASE DeliverReset \/ DeliverError
    <3>1. pc' = "exit" /\ UNCHANGED <<agentSock, hostMask>>
      BY <1>0, <2>4 DEF DeliverReset, DeliverError, Unbroken
    <3> QED
      BY <3>1, StillHostFirst DEF Aborts
  <2> QED
    BY <1>2, <2>2, <2>3, <2>4 DEF SendDataHost, Deliver
<1>3. ASSUME NEW i \in Agents, AgentIn(i) PROVE HostFirst' /\ pc' \notin Aborts
  <2>1. pc' \in {"top", "deliver", "exit"}
    BY <1>3, AgentInEnds
  <2>2. UNCHANGED <<agentSock, hostMask>>
    <3>1. \/ NoSlot(i)
          \/ \E s \in Slots :
               \/ HeaderBlocks(i, s) \/ HeaderEof(i, s) \/ HeaderReset(i, s)
               \/ BodyBlocks(i, s) \/ BodyEof(i, s) \/ BodyReset(i, s) \/ PacketComplete(i, s)
      BY <1>3 DEF AgentIn, AgentInEvent, ReadAgentSendHost
    <3>2. \A s \in Slots : ~HeaderReset(i, s)
      BY <1>0 DEF HeaderReset, IsReset, Unbroken
    <3> QED
      BY <3>1, <3>2 DEF NoSlot, HeaderBlocks, HeaderEof, BodyBlocks, BodyEof, BodyReset,
                        PacketComplete
  <2> QED
    BY <2>1, <2>2, StillHostFirst DEF Aborts
<1> QED
  BY <1>1, <1>2, <1>3

\* The host, the peer and the network leave the masks, and close nothing.
LEMMA AroundHostFirst ==
  ASSUME HostEndsIt, TypeInv, LeavingInv, HostFirst,
         \/ HostWrites \/ HostCloses \/ HostReads \/ HostResets \/ PeerActs
         \/ Ended \/ UNCHANGED vars
         \/ \E i \in Agents : PeerTakes(i) \/ AgentBreaks(i)
  PROVE  HostFirst' /\ pc' = pc
<1>1. UNCHANGED <<pc, hostMask, agentMask, agentSock, packet>>
  <2>1. CASE HostWrites \/ HostCloses \/ \E i \in Agents : PeerTakes(i)
    BY <2>1 DEF HostWrites, HostWrite, HostCloses, HostClose, PeerTakes, WireDrain, childVars
  <2>2. CASE HostReads \/ PeerActs
    BY <2>2 DEF HostReads, HostTakes, PeerActs, PeerSends, PeerCloses, PeerDies, childVars,
                sendVars
  <2>3. CASE HostResets \/ \E i \in Agents : AgentBreaks(i)
    BY <2>3 DEF HostResets, HostBreaks, AgentBreaks, HostEndsIt, LeavingInv, Unbroken
  <2>4. CASE Ended \/ UNCHANGED vars
    BY <2>4 DEF Ended, vars, childVars, sendVars
  <2> QED
    BY <2>1, <2>2, <2>3, <2>4
<1> QED
  BY <1>1 DEF HostFirst, Pending

\* No such exit(1) in a tunnel that only its host ends, or nobody.
LEMMA HostEndsOrderly ==
  ASSUME HostEndsIt
  PROVE  Spec => []NoInternalAbort
<1> DEFINE Inv == Allowed /\ HostFirst /\ NoInternalAbort
<1>1. Init => Inv
  <2> SUFFICES ASSUME Init PROVE Inv
    OBVIOUS
  <2>1. pc = "top" /\ \A j \in Agents : agentSock[j] # "closed"
    BY DEF Init, ChildInit
  <2>2. peerSeq = 0 /\ ~hostEof
    BY DEF Init, RecvInit, SendInit, Peer!Init
  <2>3. peerSeq <= MaxPackets
    BY <2>2, QueueAssumption
  <2>4. Allowed
    BY <2>2, <2>3 DEF Allowed
  <2> QED
    BY <2>1, <2>4 DEF HostFirst, NoInternalAbort, Aborts
<1>2. TypeInv /\ PollingInv /\ OrderInv /\ SlotInv /\ LeavingInv /\ Inv /\ [Next]_vars
        => Inv'
  <2> SUFFICES ASSUME TypeInv, PollingInv, OrderInv, SlotInv, LeavingInv,
                      Allowed, HostFirst, NoInternalAbort, [Next]_vars
               PROVE  Inv'
    OBVIOUS
  <2>0. Allowed'
    BY AllowedStep
  <2>1. CASE LoopTop
    BY <2>0, <2>1, LoopHostFirst DEF NoInternalAbort
  <2>2. CASE HostIn \/ \E i \in Agents : AgentOut(i)
    <3>1. pc' \in {"top", "exit"} /\ agentSock' = agentSock
      BY <2>2, OutboundGoesOn
    <3>2. hostMask = CLOSED => hostMask' = CLOSED
      BY <2>2, LoopReading DEF SameOutput
    <3> QED
      BY <2>0, <3>1, <3>2, StillHostFirst DEF NoInternalAbort, Aborts
  <2>3. CASE HostOut \/ SendDataHost \/ \E i \in Agents : AgentIn(i)
    BY <2>0, <2>3, InboundGoesOn DEF NoInternalAbort
  <2>4. CASE \/ HostWrites \/ HostCloses \/ HostReads \/ HostResets \/ PeerActs
             \/ Ended \/ UNCHANGED vars
             \/ \E i \in Agents : PeerTakes(i) \/ AgentBreaks(i)
    BY <2>0, <2>4, AroundHostFirst DEF NoInternalAbort
  <2> QED
    BY <2>1, <2>2, <2>3, <2>4 DEF Next
<1>3. EnvEvents \subseteq {"host close"}
  BY DEF HostEndsIt
<1> QED
  BY <1>1, <1>2, <1>3, TypeInvariant, PollingInvariant, OrderInvariant, SlotInvariant,
     LeavingInvariant, PTL DEF Spec

(***************************************************************************)
(* While nothing but the peer ends a tunnel, and its host writes nothing.  *)
(***************************************************************************)
PeerEndsIt == EnvEvents \subseteq {"peer close"} /\ MaxChunks = 0

\* The outbound half has nothing to do.
NothingOut ==
  /\ hostIn = 0 /\ ~hostEof /\ hostMask # CLOSED
  /\ \A j \in Agents : ~Pending(j) /\ wireOut[j] = <<>> /\ "out" \notin agentMask[j]

\* Both ends stay open while the child runs.
StillOpen ==
  Running => hostSock = "open" /\ \A j \in Agents : agentSock[j] = "open"

IdleInv == NothingOut /\ StillOpen

\* Neither do its events come.
LEMMA NoOutbound ==
  ASSUME TypeInv, IdleInv
  PROVE  /\ ~HostIn /\ \A i \in Agents : ~AgentOut(i) /\ ~PeerTakes(i)
         /\ PeerEndsIt => ~HostWrites /\ ~HostCloses /\ ~HostResets
         /\ PeerEndsIt => \A i \in Agents : ~AgentBreaks(i)
<1>0. NothingOut /\ StillOpen
  BY DEF IdleInv
<1>1. ~HostIn
  <2> SUFFICES ASSUME HostIn PROVE FALSE
    OBVIOUS
  <2>1. HostReadable /\ Running
    BY DEF HostIn, HostInEvent, HostInError, Running, Terminated, Aborts
  <2> QED
    BY <1>0, <2>1 DEF HostReadable, NothingOut, StillOpen
<1>2. \A i \in Agents : ~AgentOut(i) /\ ~PeerTakes(i)
  BY <1>0 DEF AgentOut, AgentOutEvent, PeerTakes, WireDrain, NothingOut
<1>3. ASSUME PeerEndsIt PROVE ~HostWrites
  <2>1. sendSeq \in Nat /\ hostIn \in Nat
    BY DEF TypeInv, TypeOK, SendTypeOK
  <2>2. ~(sendSeq + hostIn < MaxChunks)
    <3>1. MaxChunks = 0
      BY <1>3 DEF PeerEndsIt
    <3> QED
      BY <2>1, <3>1
  <2> QED
    BY <2>2 DEF HostWrites, HostWrite
<1>4. ASSUME PeerEndsIt PROVE ~HostCloses /\ ~HostResets /\ \A i \in Agents : ~AgentBreaks(i)
  BY <1>0, <1>4 DEF PeerEndsIt, HostCloses, HostClose, HostResets, HostBreaks, AgentBreaks,
                    NothingOut
<1> QED
  BY <1>1, <1>2, <1>3, <1>4

\* A step that leaves the outbound half and the connections alone.
LEMMA StillIdle ==
  ASSUME IdleInv, UNCHANGED <<sendVars, hostSock, agentSock>>, Running,
         hostMask' # CLOSED,
         \A j \in Agents : "out" \in agentMask'[j] => "out" \in agentMask[j]
  PROVE  IdleInv'
BY DEF IdleInv, NothingOut, StillOpen, sendVars, Pending

\* The events of the inbound half.
LEMMA InboundIdle ==
  ASSUME TypeInv, OrderInv, SlotInv, IdleInv,
         HostOut \/ SendDataHost \/ \E i \in Agents : AgentIn(i)
  PROVE  IdleInv' /\ pc' \notin Aborts
<1>0. /\ hostMask \in Masks /\ hostMask # CLOSED /\ agentMask \in [Agents -> Masks]
      /\ UNCHANGED sendVars
  BY DEF TypeInv, TypeOK, ChildTypeOK, IdleInv, NothingOut, HostOut, SendDataHost, AgentIn
<1>1. Running
  BY DEF HostOut, HostOutEvent, SendDataHost, Deliver, AgentIn, AgentInEvent, Running,
         Terminated, Aborts
<1>2. hostSock = "open" /\ \A j \in Agents : agentSock[j] = "open"
  BY <1>1 DEF IdleInv, StillOpen
<1>3. CASE HostOut
  <2>1. StopPolling(hostMask, "out") # CLOSED
    BY <1>0, StopPollingMask
  <2>2. /\ pc' = "deliver" /\ UNCHANGED <<agentMask, hostSock, agentSock>>
        /\ hostMask' = StopPolling(hostMask, "out")
    BY <1>3 DEF HostOut, HostOutEvent
  <2> QED
    BY <1>0, <1>1, <2>1, <2>2, StillIdle DEF Aborts
<1>4. CASE SendDataHost
  <2>1. pc = "deliver" /\ cur.agent \in Agents
    BY <1>4 DEF SendDataHost, Deliver, TypeInv, OutKnown
  <2>2. "out" \notin hostMask
    BY <1>1, <2>1 DEF OrderInv, StreamOK, HostOK
  <2>3. CASE DeliverPacket
    <3>1. pc' \in {"top", "deliver"} /\ UNCHANGED <<agentSock, hostSock, hostMask>>
      BY <1>2, <2>1, <2>3 DEF DeliverPacket
    <3>2. \A j \in Agents : "out" \in agentMask'[j] => "out" \in agentMask[j]
      <4>1. agentMask' = [agentMask EXCEPT ![cur.agent] = PollFor(@, "in")]
        BY <2>3 DEF DeliverPacket, MaskAfterDelivery
      <4> QED
        BY <1>0, <2>1, <4>1, OtherDirection
    <3> QED
      BY <1>0, <1>1, <3>1, <3>2, StillIdle DEF Aborts
  <2>4. CASE DeliverBlocks
    <3>1. hostMask \in {MaskIN, OFF}
      BY <1>0, <2>2 DEF Masks, OUT, INAndOut
    <3>2. /\ pc' = "top" /\ UNCHANGED <<agentMask, agentSock, hostSock>>
          /\ hostMask' = PollFor(hostMask, "out")
      BY <2>4, <3>1 DEF DeliverBlocks
    <3>3. hostMask' # CLOSED
      BY <1>0, <3>2, PollForMask
    <3> QED
      BY <1>0, <1>1, <3>2, <3>3, StillIdle DEF Aborts
  <2>5. ~DeliverReset /\ ~DeliverError
    BY <1>2 DEF DeliverReset, DeliverError
  <2> QED
    BY <1>4, <2>3, <2>4, <2>5 DEF SendDataHost, Deliver
<1>5. ASSUME NEW i \in Agents, AgentIn(i) PROVE IdleInv' /\ pc' \notin Aborts
  <2>1. pc' \in {"top", "deliver", "exit"}
    BY <1>5, AgentInEnds
  <2>2. \/ NoSlot(i)
        \/ \E s \in Slots :
             \/ HeaderBlocks(i, s) \/ HeaderEof(i, s) \/ HeaderReset(i, s)
             \/ BodyBlocks(i, s) \/ BodyEof(i, s) \/ BodyReset(i, s) \/ PacketComplete(i, s)
    BY <1>5 DEF AgentIn, AgentInEvent, ReadAgentSendHost
  <2>3. UNCHANGED <<agentSock, hostSock, hostMask>>
    <3>1. \A s \in Slots : ~HeaderReset(i, s)
      BY <1>2 DEF HeaderReset, IsReset
    <3> QED
      BY <2>2, <3>1 DEF NoSlot, HeaderBlocks, HeaderEof, BodyBlocks, BodyEof, BodyReset,
                        PacketComplete
  <2>4. \/ agentMask' = agentMask
        \/ agentMask' = [agentMask EXCEPT ![i] = CLOSED]
        \/ agentMask' = [agentMask EXCEPT ![i] = StopPolling(@, "in")]
    BY <2>2 DEF NoSlot, HeaderBlocks, HeaderEof, HeaderReset, BodyBlocks, BodyEof, BodyReset,
                PacketComplete, LeavePool
  <2>5. \A j \in Agents : "out" \in agentMask'[j] => "out" \in agentMask[j]
    BY <1>0, <2>4, OtherDirection DEF CLOSED
  <2> QED
    BY <1>0, <1>1, <2>1, <2>3, <2>5, StillIdle DEF Aborts
<1> QED
  BY <1>3, <1>4, <1>5

\* None in a tunnel that only its peer ends, or nobody.
LEMMA PeerEndsOrderly ==
  ASSUME PeerEndsIt
  PROVE  Spec => []NoInternalAbort
<1>1. Init => IdleInv /\ NoInternalAbort
  <2> SUFFICES ASSUME Init PROVE IdleInv /\ NoInternalAbort
    OBVIOUS
  <2>1. /\ pc = "top" /\ hostMask # CLOSED /\ hostSock = "open"
        /\ \A j \in Agents : agentSock[j] = "open" /\ "out" \notin agentMask[j]
    BY DEF Init, ChildInit, MaskIN, CLOSED
  <2>2. hostIn = 0 /\ ~hostEof /\ \A j \in Agents : ~Pending(j) /\ wireOut[j] = <<>>
    BY DEF Init, SendInit, Pending, EmptyPacket
  <2> QED
    BY <2>1, <2>2 DEF IdleInv, NothingOut, StillOpen, NoInternalAbort, Aborts
<1>2. TypeInv /\ OrderInv /\ SlotInv /\ IdleInv /\ NoInternalAbort /\ [Next]_vars
        => IdleInv' /\ NoInternalAbort'
  <2> SUFFICES ASSUME TypeInv, OrderInv, SlotInv, IdleInv, NoInternalAbort, [Next]_vars
               PROVE  IdleInv' /\ NoInternalAbort'
    OBVIOUS
  <2>1. CASE LoopTop
    <3>1. hostMask # CLOSED
      BY DEF IdleInv, NothingOut
    <3>2. CloseHost /\ UNCHANGED <<hostMask, sendVars>>
      BY <2>1, <3>1 DEF LoopTop
    <3>3. NothingOut'
      BY <3>2 DEF CloseHost, IdleInv, NothingOut, sendVars, Pending
    <3>4. Running /\ UNCHANGED agentSock /\ pc' \in {"done", "wait"}
      BY <2>1, <3>2 DEF LoopTop, CloseHost, Running, Terminated, Aborts
    <3>5. pc' # "done" => hostSock' = hostSock
      BY <3>2 DEF CloseHost
    <3> QED
      BY <3>3, <3>4, <3>5 DEF IdleInv, StillOpen, NoInternalAbort, Aborts, Running, Terminated
  <2>2. CASE HostOut \/ SendDataHost \/ \E i \in Agents : AgentIn(i)
    BY <2>2, InboundIdle DEF NoInternalAbort
  <2>3. CASE HostReads \/ PeerActs
    <3>1. Running /\ UNCHANGED <<childVars, sendVars>>
      BY <2>3 DEF HostReads, HostTakes, PeerActs, PeerSends, PeerCloses, PeerDies
    <3> QED
      BY <3>1 DEF childVars, sendVars, IdleInv, NothingOut, StillOpen, Running, Terminated,
                  Pending, NoInternalAbort
  <2>4. CASE Ended \/ UNCHANGED vars
    BY <2>4 DEF Ended, vars, childVars, sendVars, IdleInv, NothingOut, StillOpen, Running,
                Terminated, Pending, NoInternalAbort
  <2>5. CASE \/ HostIn \/ HostWrites \/ HostCloses \/ HostResets
             \/ \E i \in Agents : AgentOut(i) \/ PeerTakes(i) \/ AgentBreaks(i)
    BY <2>5, NoOutbound
  <2> QED
    BY <2>1, <2>2, <2>3, <2>4, <2>5 DEF Next
<1> QED
  BY <1>1, <1>2, TypeInvariant, OrderInvariant, SlotInvariant, PTL DEF Spec

\* In a tunnel that only its host ends, where the peer sends nothing, or only the peer,
\* where the host writes nothing, or that nobody ends, a child does not leave through one
\* of the exit(1)s that report a state the program believes impossible; for any number of
\* connections and any sizes.
THEOREM OrderlyEnd ==
  ASSUME \/ EnvEvents = {}
         \/ EnvEvents \subseteq {"host close"} /\ MaxPackets = 0
         \/ EnvEvents \subseteq {"peer close"} /\ MaxChunks = 0
  PROVE  Spec => []NoInternalAbort
<1>1. HostEndsIt \/ PeerEndsIt
  BY DEF HostEndsIt, PeerEndsIt
<1> QED
  BY <1>1, HostEndsOrderly, PeerEndsOrderly

=============================================================================
