----------------------------- MODULE TunnelProofs -----------------------------
(***************************************************************************)
(* Proofs about a whole tunnel, for every number of connections, every     *)
(* size of packets, queues and socket buffers, and every number of chunks. *)
(*                                                                         *)
(* Each end is an end of EndProofs.  A step of one is a step of the other  *)
(* end for the other, and each relies on the other to close connections    *)
(* only when the exchange is over, or after it.  What is shown for end A   *)
(* is shown for end B in the same way.                                     *)
(***************************************************************************)
EXTENDS TunnelProperties, SequenceTheorems, TLAPS

AP == INSTANCE EndProofs
       WITH pc <- pcA, hostMask <- hostMaskA, agentMask <- agentMaskA,
            hostSock <- hostSockA, agentSock <- agentSockA, hostIn <- hostInA,
            hostEof <- hostEofA, sendSeq <- sendSeqA, packet <- packetA,
            wireOut <- wireOutA, recvSeq <- recvSeqA, slot <- slotA,
            indexIn <- indexInA, needHdr <- needHdrA,
            queueCount <- queueCountA, table <- tableA, indexOut <- indexOutA,
            outAgent <- outAgentA, cur <- curA, written <- writtenA,
            drained <- drainedA, peerSeq <- sendSeqB, peerPkt <- packetB,
            wireIn <- wireOutB, peerUp <- UpB, MaxChunks <- ChunksA,
            MaxPackets <- ChunksB, EnvEvents <- {"host close"}

BP == INSTANCE EndProofs
       WITH pc <- pcB, hostMask <- hostMaskB, agentMask <- agentMaskB,
            hostSock <- hostSockB, agentSock <- agentSockB, hostIn <- hostInB,
            hostEof <- hostEofB, sendSeq <- sendSeqB, packet <- packetB,
            wireOut <- wireOutB, recvSeq <- recvSeqB, slot <- slotB,
            indexIn <- indexInB, needHdr <- needHdrB,
            queueCount <- queueCountB, table <- tableB, indexOut <- indexOutB,
            outAgent <- outAgentB, cur <- curB, written <- writtenB,
            drained <- drainedB, peerSeq <- sendSeqA, peerPkt <- packetA,
            wireIn <- wireOutA, peerUp <- UpA, MaxChunks <- ChunksB,
            MaxPackets <- ChunksA, EnvEvents <- {"host close"}

\* The set of connections is finite, as the modules of end A mean it.
LEMMA FinA == AP!IsFiniteSet(Agents)
BY TunnelAssumption DEF IsFiniteSet, AP!IsFiniteSet

\* And as those of end B do.
LEMMA FinB == BP!IsFiniteSet(Agents)
BY TunnelAssumption DEF IsFiniteSet, BP!IsFiniteSet

\* Nothing is closed before a host has closed.
FirstCloses ==
  AP!Gone \/ BP!Gone => hostMaskA = AP!CLOSED \/ hostMaskB = BP!CLOSED

TunnelInv == AP!EndInv /\ BP!EndInv /\ FirstCloses

(***************************************************************************)
(* End A.                                                                  *)
(***************************************************************************)

\* A step of end A is a step of such an end: TunnelEnds takes its actions from the
\* same modules, with the same variables.
LEMMA SameStepA ==
  ASSUME StepA
  PROVE  AP!EndStep /\ UNCHANGED <<ownB, held>>
<1> USE DEF A!childVars, A!sendVars, A!recvVars, A!slotVars, A!outVars, A!peerVars,
    A!hostVars, A!Pending, A!Slots, A!OFF, A!MaskIN, A!OUT, A!INAndOut, A!CLOSED,
    A!Registered, A!PollFor, A!StopPolling, A!Running, A!Terminated, A!Aborts,
    A!PktUnits, AP!childVars, AP!sendVars, AP!recvVars, AP!slotVars, AP!outVars,
    AP!peerVars, AP!hostVars, AP!Pending, AP!Slots, AP!OFF, AP!MaskIN, AP!OUT,
    AP!INAndOut, AP!CLOSED, AP!Registered, AP!PollFor, AP!StopPolling, AP!Running,
    AP!Terminated, AP!Aborts, AP!PktUnits
<1>1. A!LoopTop => AP!LoopTop
  BY DEF A!LoopTop, A!CloseIdle, A!CloseHost, A!AllReceived, AP!LoopTop,
         AP!CloseIdle, AP!CloseHost, AP!AllReceived
<1>2. A!HostIn => AP!HostIn
  BY DEF A!HostIn, A!HostInEvent, A!HostReadable, A!Writable, A!Room,
         A!ReadHostSendAgent, A!SendRest, A!Send, A!SendSome, A!Sendable, A!Units,
         A!AfterSend, A!EmptyPacket, A!MaskAfterSend, A!SendReset, A!SendPipe,
         A!SendNew, A!HostNothing, A!HostEnded, A!AllAgentsSocksFull, A!HostInError,
         AP!HostIn, AP!HostInEvent, AP!HostReadable, AP!Writable, AP!Room,
         AP!ReadHostSendAgent, AP!SendRest, AP!Send, AP!SendSome, AP!Sendable,
         AP!Units, AP!AfterSend, AP!EmptyPacket, AP!MaskAfterSend, AP!SendReset,
         AP!SendPipe, AP!SendNew, AP!HostNothing, AP!HostEnded,
         AP!AllAgentsSocksFull, AP!HostInError
<1>3. A!HostOut => AP!HostOut
  BY DEF A!HostOut, A!HostReadable, A!HostOutEvent, A!HostRoom, A!SavedSize,
         AP!HostOut, AP!HostReadable, AP!HostOutEvent, AP!HostRoom, AP!SavedSize
<1>4. A!SendDataHost => AP!SendDataHost
  BY DEF A!SendDataHost, A!Deliver, A!DeliverPacket, A!Rest, A!HostRoom,
         A!HostUnits, A!MaskAfterDelivery, A!InTable, A!DeliverBlocks,
         A!RememberOut, A!DeliverReset, A!DeliverError, AP!SendDataHost, AP!Deliver,
         AP!DeliverPacket, AP!Rest, AP!HostRoom, AP!HostUnits, AP!MaskAfterDelivery,
         AP!InTable, AP!DeliverBlocks, AP!RememberOut, AP!DeliverReset,
         AP!DeliverError
<1>5. A!HostWrites => AP!HostWrites
  BY DEF A!HostWrites, A!HostWrite, AP!HostWrites, AP!HostWrite
<1>6. A!HostCloses => AP!HostCloses
  BY DEF A!HostCloses, A!HostClose, AP!HostCloses, AP!HostClose
<1>7. HostReadsA => AP!HostIsRead
  BY DEF HostReadsA, A!HostTakes, AP!HostIsRead, AP!HostTakes
<1>8. ASSUME NEW i \in Agents, A!AgentOut(i) PROVE AP!AgentOut(i)
  BY <1>8 DEF A!AgentOut, A!AgentOutEvent, A!Writable, A!Room, A!ReadHostSendAgent,
         A!SendRest, A!Send, A!SendSome, A!Sendable, A!Units, A!AfterSend,
         A!EmptyPacket, A!MaskAfterSend, A!SendReset, A!SendPipe, A!SendNew,
         A!HostNothing, A!HostEnded, A!HostResumed, A!AgentsResumed, AP!AgentOut,
         AP!AgentOutEvent, AP!Writable, AP!Room, AP!ReadHostSendAgent, AP!SendRest,
         AP!Send, AP!SendSome, AP!Sendable, AP!Units, AP!AfterSend, AP!EmptyPacket,
         AP!MaskAfterSend, AP!SendReset, AP!SendPipe, AP!SendNew, AP!HostNothing,
         AP!HostEnded, AP!HostResumed, AP!AgentsResumed
<1>9. ASSUME NEW i \in Agents, A!AgentIn(i) PROVE AP!AgentIn(i)
  BY <1>9 DEF A!AgentIn, A!Writable, A!Room, A!AgentInEvent, A!AgentReadable,
         A!ReadAgentSendHost, A!NoSlot, A!AtHeader, A!EMPTY, A!NoFreeIndex,
         A!WorkSlot, A!FreeIndex, A!HeaderBlocks, A!Avail, A!HdrLeft, A!InBody,
         A!InHeader, A!WouldBlock, A!Claimed, A!Consume, A!HeaderEof, A!AtEof,
         A!Released, A!LeavePool, A!HeaderReset, A!IsReset, A!BodyBlocks,
         A!BodyShort, A!BodyLeft, A!BodyHave, A!CountPacket, A!BodyEof, A!BodyReset,
         A!PacketComplete, A!QueueFull, AP!AgentIn, AP!Writable, AP!Room,
         AP!AgentInEvent, AP!AgentReadable, AP!ReadAgentSendHost, AP!NoSlot,
         AP!AtHeader, AP!EMPTY, AP!NoFreeIndex, AP!WorkSlot, AP!FreeIndex,
         AP!HeaderBlocks, AP!Avail, AP!HdrLeft, AP!InBody, AP!InHeader,
         AP!WouldBlock, AP!Claimed, AP!Consume, AP!HeaderEof, AP!AtEof, AP!Released,
         AP!LeavePool, AP!HeaderReset, AP!IsReset, AP!BodyBlocks, AP!BodyShort,
         AP!BodyLeft, AP!BodyHave, AP!CountPacket, AP!BodyEof, AP!BodyReset,
         AP!PacketComplete, AP!QueueFull
<1>10. HostDoneA => AP!HostIsDone
  BY DEF HostDoneA, AP!HostIsDone
<1> QED
  BY <1>1, <1>2, <1>3, <1>4, <1>5, <1>6, <1>7, <1>8, <1>9, <1>10 DEF StepA, ThreadA, AtA,
     AP!EndStep

\* The child at end A runs or is done, and its sockets are open or closed.
PlainA ==
  /\ pcA \in {"top", "wait", "deliver", "done"}
  /\ AP!Running <=> pcA # "done"
  /\ EndedPC(pcA) <=> pcA = "done"
  /\ \A j \in Agents : agentSockA[j] \in {"open", "closed"}

\* It follows from the invariant of the end.
LEMMA StateA == AP!EndInv => PlainA
<1>1. AP!EndInv => AP!Orderly /\ AP!NoReset /\ AP!ChildTypeOK
  BY DEF AP!EndInv, AP!InTurn, AP!BaseInv, AP!TypeInv, AP!TypeOK
<1> QED
  BY <1>1 DEF AP!Orderly, AP!NoReset, AP!ChildTypeOK, AP!SockStates, AP!Running,
              AP!Terminated, AP!Aborts, EndedPC, PlainA

\* Also after a step.
LEMMA StateNextA == AP!EndInv' => PlainA'
BY StateA, PTL

\* A connection that is closed at end A was closed by the child, or with it.
LEMMA LeftA ==
  ASSUME AP!EndInv, NEW i \in Agents, ~UpA[i]
  PROVE  pcA = "done" \/ agentSockA[i] = "closed"
BY StateA DEF PlainA, UpA, StillOpen

\* Where the host at end A has closed, the exchange is over.
LEMMA HostClosedA ==
  ASSUME AP!EndInv, hostMaskA = AP!CLOSED
  PROVE  /\ hostInA = 0 /\ sendSeqA = ChunksA
         /\ recvSeqA = ChunksB /\ sendSeqB = ChunksB
         /\ \A j \in Agents : wireOutB[j] = <<>> /\ packetB[j].left = 0
         /\ Len(writtenA) = ChunksB * PayUnits
<1>1. /\ AP!EofLast /\ AP!ClosedInOrder /\ Len(writtenA) <= sendSeqB * PayUnits
      /\ drainedA \in 0..Len(writtenA) /\ writtenA \in Seq(AP!Unit) /\ sendSeqA \in Nat
  BY DEF AP!EndInv, AP!InTurn, AP!BaseInv, AP!TypeInv, AP!TypeOK, AP!HostTypeOK,
         AP!SendTypeOK, AP!Bounded
<1>2. hostInA = 0 /\ AP!HostIsDone /\ AP!AllRead
  BY <1>1 DEF AP!EofLast, AP!ClosedInOrder
<1>3. Len(writtenA) = ChunksB * PayUnits
  <2>1. drainedA = ChunksB * PayUnits /\ Len(writtenA) <= ChunksB * PayUnits
    BY <1>1, <1>2 DEF AP!HostIsDone, AP!AllRead
  <2>2. drainedA <= Len(writtenA) /\ drainedA \in Nat /\ Len(writtenA) \in Nat
    BY <1>1, LenProperties
  <2> QED
    BY <2>1, <2>2
<1> QED
  BY <1>1, <1>2, <1>3 DEF AP!HostIsDone, AP!AllRead

(***************************************************************************)
(* End B.                                                                  *)
(***************************************************************************)

\* A step of end B is a step of such an end: TunnelEnds takes its actions from the
\* same modules, with the same variables.
LEMMA SameStepB ==
  ASSUME StepB
  PROVE  BP!EndStep /\ UNCHANGED <<ownA, held>>
<1> USE DEF B!childVars, B!sendVars, B!recvVars, B!slotVars, B!outVars, B!peerVars,
    B!hostVars, B!Pending, B!Slots, B!OFF, B!MaskIN, B!OUT, B!INAndOut, B!CLOSED,
    B!Registered, B!PollFor, B!StopPolling, B!Running, B!Terminated, B!Aborts,
    B!PktUnits, BP!childVars, BP!sendVars, BP!recvVars, BP!slotVars, BP!outVars,
    BP!peerVars, BP!hostVars, BP!Pending, BP!Slots, BP!OFF, BP!MaskIN, BP!OUT,
    BP!INAndOut, BP!CLOSED, BP!Registered, BP!PollFor, BP!StopPolling, BP!Running,
    BP!Terminated, BP!Aborts, BP!PktUnits
<1>1. B!LoopTop => BP!LoopTop
  BY DEF B!LoopTop, B!CloseIdle, B!CloseHost, B!AllReceived, BP!LoopTop,
         BP!CloseIdle, BP!CloseHost, BP!AllReceived
<1>2. B!HostIn => BP!HostIn
  BY DEF B!HostIn, B!HostInEvent, B!HostReadable, B!Writable, B!Room,
         B!ReadHostSendAgent, B!SendRest, B!Send, B!SendSome, B!Sendable, B!Units,
         B!AfterSend, B!EmptyPacket, B!MaskAfterSend, B!SendReset, B!SendPipe,
         B!SendNew, B!HostNothing, B!HostEnded, B!AllAgentsSocksFull, B!HostInError,
         BP!HostIn, BP!HostInEvent, BP!HostReadable, BP!Writable, BP!Room,
         BP!ReadHostSendAgent, BP!SendRest, BP!Send, BP!SendSome, BP!Sendable,
         BP!Units, BP!AfterSend, BP!EmptyPacket, BP!MaskAfterSend, BP!SendReset,
         BP!SendPipe, BP!SendNew, BP!HostNothing, BP!HostEnded,
         BP!AllAgentsSocksFull, BP!HostInError
<1>3. B!HostOut => BP!HostOut
  BY DEF B!HostOut, B!HostReadable, B!HostOutEvent, B!HostRoom, B!SavedSize,
         BP!HostOut, BP!HostReadable, BP!HostOutEvent, BP!HostRoom, BP!SavedSize
<1>4. B!SendDataHost => BP!SendDataHost
  BY DEF B!SendDataHost, B!Deliver, B!DeliverPacket, B!Rest, B!HostRoom,
         B!HostUnits, B!MaskAfterDelivery, B!InTable, B!DeliverBlocks,
         B!RememberOut, B!DeliverReset, B!DeliverError, BP!SendDataHost, BP!Deliver,
         BP!DeliverPacket, BP!Rest, BP!HostRoom, BP!HostUnits, BP!MaskAfterDelivery,
         BP!InTable, BP!DeliverBlocks, BP!RememberOut, BP!DeliverReset,
         BP!DeliverError
<1>5. B!HostWrites => BP!HostWrites
  BY DEF B!HostWrites, B!HostWrite, BP!HostWrites, BP!HostWrite
<1>6. B!HostCloses => BP!HostCloses
  BY DEF B!HostCloses, B!HostClose, BP!HostCloses, BP!HostClose
<1>7. HostReadsB => BP!HostIsRead
  BY DEF HostReadsB, B!HostTakes, BP!HostIsRead, BP!HostTakes
<1>8. ASSUME NEW i \in Agents, B!AgentOut(i) PROVE BP!AgentOut(i)
  BY <1>8 DEF B!AgentOut, B!AgentOutEvent, B!Writable, B!Room, B!ReadHostSendAgent,
         B!SendRest, B!Send, B!SendSome, B!Sendable, B!Units, B!AfterSend,
         B!EmptyPacket, B!MaskAfterSend, B!SendReset, B!SendPipe, B!SendNew,
         B!HostNothing, B!HostEnded, B!HostResumed, B!AgentsResumed, BP!AgentOut,
         BP!AgentOutEvent, BP!Writable, BP!Room, BP!ReadHostSendAgent, BP!SendRest,
         BP!Send, BP!SendSome, BP!Sendable, BP!Units, BP!AfterSend, BP!EmptyPacket,
         BP!MaskAfterSend, BP!SendReset, BP!SendPipe, BP!SendNew, BP!HostNothing,
         BP!HostEnded, BP!HostResumed, BP!AgentsResumed
<1>9. ASSUME NEW i \in Agents, B!AgentIn(i) PROVE BP!AgentIn(i)
  BY <1>9 DEF B!AgentIn, B!Writable, B!Room, B!AgentInEvent, B!AgentReadable,
         B!ReadAgentSendHost, B!NoSlot, B!AtHeader, B!EMPTY, B!NoFreeIndex,
         B!WorkSlot, B!FreeIndex, B!HeaderBlocks, B!Avail, B!HdrLeft, B!InBody,
         B!InHeader, B!WouldBlock, B!Claimed, B!Consume, B!HeaderEof, B!AtEof,
         B!Released, B!LeavePool, B!HeaderReset, B!IsReset, B!BodyBlocks,
         B!BodyShort, B!BodyLeft, B!BodyHave, B!CountPacket, B!BodyEof, B!BodyReset,
         B!PacketComplete, B!QueueFull, BP!AgentIn, BP!Writable, BP!Room,
         BP!AgentInEvent, BP!AgentReadable, BP!ReadAgentSendHost, BP!NoSlot,
         BP!AtHeader, BP!EMPTY, BP!NoFreeIndex, BP!WorkSlot, BP!FreeIndex,
         BP!HeaderBlocks, BP!Avail, BP!HdrLeft, BP!InBody, BP!InHeader,
         BP!WouldBlock, BP!Claimed, BP!Consume, BP!HeaderEof, BP!AtEof, BP!Released,
         BP!LeavePool, BP!HeaderReset, BP!IsReset, BP!BodyBlocks, BP!BodyShort,
         BP!BodyLeft, BP!BodyHave, BP!CountPacket, BP!BodyEof, BP!BodyReset,
         BP!PacketComplete, BP!QueueFull
<1>10. HostDoneB => BP!HostIsDone
  BY DEF HostDoneB, BP!HostIsDone
<1> QED
  BY <1>1, <1>2, <1>3, <1>4, <1>5, <1>6, <1>7, <1>8, <1>9, <1>10 DEF StepB, ThreadB, AtB,
     BP!EndStep

\* The child at end B runs or is done, and its sockets are open or closed.
PlainB ==
  /\ pcB \in {"top", "wait", "deliver", "done"}
  /\ BP!Running <=> pcB # "done"
  /\ EndedPC(pcB) <=> pcB = "done"
  /\ \A j \in Agents : agentSockB[j] \in {"open", "closed"}

\* It follows from the invariant of the end.
LEMMA StateB == BP!EndInv => PlainB
<1>1. BP!EndInv => BP!Orderly /\ BP!NoReset /\ BP!ChildTypeOK
  BY DEF BP!EndInv, BP!InTurn, BP!BaseInv, BP!TypeInv, BP!TypeOK
<1> QED
  BY <1>1 DEF BP!Orderly, BP!NoReset, BP!ChildTypeOK, BP!SockStates, BP!Running,
              BP!Terminated, BP!Aborts, EndedPC, PlainB

\* Also after a step.
LEMMA StateNextB == BP!EndInv' => PlainB'
BY StateB, PTL

\* A connection that is closed at end B was closed by the child, or with it.
LEMMA LeftB ==
  ASSUME BP!EndInv, NEW i \in Agents, ~UpB[i]
  PROVE  pcB = "done" \/ agentSockB[i] = "closed"
BY StateB DEF PlainB, UpB, StillOpen

\* Where the host at end B has closed, the exchange is over.
LEMMA HostClosedB ==
  ASSUME BP!EndInv, hostMaskB = BP!CLOSED
  PROVE  /\ hostInB = 0 /\ sendSeqB = ChunksB
         /\ recvSeqB = ChunksA /\ sendSeqA = ChunksA
         /\ \A j \in Agents : wireOutA[j] = <<>> /\ packetA[j].left = 0
         /\ Len(writtenB) = ChunksA * PayUnits
<1>1. /\ BP!EofLast /\ BP!ClosedInOrder /\ Len(writtenB) <= sendSeqA * PayUnits
      /\ drainedB \in 0..Len(writtenB) /\ writtenB \in Seq(BP!Unit) /\ sendSeqB \in Nat
  BY DEF BP!EndInv, BP!InTurn, BP!BaseInv, BP!TypeInv, BP!TypeOK, BP!HostTypeOK,
         BP!SendTypeOK, BP!Bounded
<1>2. hostInB = 0 /\ BP!HostIsDone /\ BP!AllRead
  BY <1>1 DEF BP!EofLast, BP!ClosedInOrder
<1>3. Len(writtenB) = ChunksA * PayUnits
  <2>1. drainedB = ChunksA * PayUnits /\ Len(writtenB) <= ChunksA * PayUnits
    BY <1>1, <1>2 DEF BP!HostIsDone, BP!AllRead
  <2>2. drainedB <= Len(writtenB) /\ drainedB \in Nat /\ Len(writtenB) \in Nat
    BY <1>1, LenProperties
  <2> QED
    BY <2>1, <2>2
<1> QED
  BY <1>1, <1>2, <1>3 DEF BP!HostIsDone, BP!AllRead

\* End A may rely on end B: B closes connections only when the exchange is over, or
\* after A.
LEMMA RelyA ==
  ASSUME TunnelInv
  PROVE  AP!PeerLeavesLast
<1>1. AP!EndInv /\ BP!EndInv
  BY DEF TunnelInv
<1>2. SUFFICES ASSUME AP!Running, NEW i \in Agents, ~UpB[i]
               PROVE  hostInA = 0 /\ \A j \in Agents : ~AP!Pending(j)
  BY DEF AP!PeerLeavesLast
<1>3. CASE hostMaskB = BP!CLOSED
  <2>1. sendSeqA = ChunksA /\ \A j \in Agents : packetA[j].left = 0
    BY <1>1, <1>3, HostClosedB
  <2>2. hostInA \in Nat /\ sendSeqA + hostInA <= ChunksA /\ ChunksA \in Nat
    BY <1>1, TunnelAssumption DEF AP!EndInv, AP!Bounded, AP!HostBound, AP!BaseInv,
       AP!TypeInv, AP!TypeOK, AP!SendTypeOK
  <2> QED
    BY <2>1, <2>2 DEF AP!Pending
<1>4. CASE hostMaskB # BP!CLOSED
  <2>1. BP!ClosedInOrder /\ BP!DoneLast /\ AP!ClosedInOrder
    BY <1>1 DEF AP!EndInv, AP!InTurn, BP!EndInv, BP!InTurn
  <2>2. pcB = "done"
    <3>1. agentSockB[i] = "closed" => ~BP!Running
      BY <1>4, <2>1 DEF BP!ClosedInOrder
    <3> QED
      BY <1>1, <1>2, <3>1, LeftB, StateB DEF PlainB
  <2>3. \A j \in Agents : ~UpA[j]
    BY <1>4, <2>1, <2>2 DEF BP!DoneLast, BP!HasAllSent, BP!ReadOut
  <2>4. \A j \in Agents : agentSockA[j] = "closed"
    BY <1>1, <1>2, <2>3, LeftA, StateA DEF PlainA
  <2> QED
    BY <1>2, <2>1, <2>4 DEF AP!ClosedInOrder
<1> QED
  BY <1>3, <1>4

\* What end B sees of a step of end A.
LEMMA SeenByB ==
  ASSUME AP!EndInv, AP!EndInv', AP!EndDoes, UNCHANGED <<ownB, held>>
  PROVE  BP!Beyond
<1>1. /\ UNCHANGED <<BP!childVars, hostInB, hostEofB, sendSeqB, packetB>>
      /\ UNCHANGED <<BP!slotVars, BP!outVars, BP!hostVars>>
  BY DEF ownB, BP!childVars, BP!slotVars, BP!outVars, BP!hostVars
<1>2. BP!PeerReads \/ UNCHANGED wireOutB
  BY DEF AP!EndDoes, AP!Gets, BP!PeerReads
<1>3. ASSUME NEW j \in Agents, UpA'[j] PROVE UpA[j]
  <2>1. "A" \in held \/ (pcA' # "done" /\ agentSockA'[j] = "open")
    BY <1>3, StateNextA DEF PlainA, UpA, StillOpen
  <2>2. (AP!Running' <=> pcA' # "done") /\ (AP!Running <=> pcA # "done")
    BY StateA, StateNextA DEF PlainA
  <2>3. "A" \in held \/ (pcA # "done" /\ agentSockA[j] = "open")
    BY <2>1, <2>2 DEF AP!EndDoes
  <2> QED
    BY <2>3, StateA DEF PlainA, UpA, StillOpen
<1>4. CASE UNCHANGED <<sendSeqA, packetA, wireOutA>>
  <2>1. UpA' \in [Agents -> BOOLEAN]
    BY DEF UpA, StillOpen
  <2> QED
    BY <1>1, <1>2, <1>3, <1>4, <2>1 DEF BP!Beyond, BP!PeerShuts
<1>5. CASE AP!Sends /\ AP!Running /\ AP!Running' /\ UNCHANGED <<agentSockA, wireOutB>>
  <2>1. /\ pcA # "done" /\ pcA' # "done"
    BY <1>5, StateA, StateNextA DEF PlainA
  <2>2. UpA' = UpA
    BY <1>5, <2>1, StateA, StateNextA DEF PlainA, UpA, StillOpen
  <2>3. PICK i \in Agents, n \in 0..AP!PktUnits :
          AP!Outbound!Take(i, n) \/ AP!Outbound!Push(i, n)
    BY <1>5 DEF AP!Sends
  <2>4. n \in 0..BP!PktUnits
    BY <2>3 DEF AP!PktUnits, BP!PktUnits
  <2>5. agentSockA[i] = "open"
    BY <2>3 DEF AP!Outbound!Take, AP!Outbound!Push, AP!IsUp
  <2>6. UpA[i]
    BY <2>1, <2>5, StateA DEF PlainA, UpA, StillOpen
  <2>7. BP!Peer!Take(i, n) \/ BP!Peer!Push(i, n)
    BY <2>2, <2>3, <2>6
       DEF AP!Outbound!Take, AP!Outbound!Push, AP!Outbound!Put, AP!Outbound!Units,
           AP!Outbound!After, AP!Outbound!EmptyPacket, AP!PktUnits,
           BP!Peer!Take, BP!Peer!Push, BP!Peer!Put, BP!Peer!Units, BP!Peer!After,
           BP!Peer!EmptyPacket, BP!PktUnits
  <2> QED
    BY <1>1, <1>2, <2>4, <2>7 DEF BP!Beyond, BP!PeerPuts
<1> QED
  BY <1>4, <1>5 DEF AP!EndDoes

\* A step of end A keeps the invariant of the tunnel.
LEMMA KeepsA ==
  ASSUME TunnelInv, StepA
  PROVE  TunnelInv'
<1>1. AP!EndInv /\ BP!EndInv /\ AP!PeerLeavesLast /\ AP!EndStep /\ UNCHANGED <<ownB, held>>
  BY RelyA, SameStepA DEF TunnelInv
<1>2. AP!EndInv' /\ AP!EndDoes
  BY <1>1, TunnelAssumption, FinA, AP!EndKeeps, AP!EndGives
<1>3. BP!EndInv'
  BY <1>1, <1>2, SeenByB, TunnelAssumption, FinB, BP!BeyondKeeps
<1>4. hostMaskA = AP!CLOSED => hostMaskA' = AP!CLOSED
  BY <1>2 DEF AP!EndDoes, AP!CLOSED
<1>5. hostMaskB' = hostMaskB /\ pcB' = pcB /\ agentSockB' = agentSockB
  BY <1>1 DEF ownB
<1>6. ASSUME AP!Gone' \/ BP!Gone' PROVE hostMaskA = AP!CLOSED \/ hostMaskB = BP!CLOSED
  <2>1. BP!Gone' => BP!Gone
    BY <1>5 DEF BP!Gone
  <2>2. ASSUME \A j \in Agents : ~UpB[j] PROVE BP!Gone
    <3>1. PICK i \in Agents : ~UpB[i]
      BY <2>2, TunnelAssumption
    <3> QED
      BY <1>1, <3>1, LeftB DEF BP!Gone
  <2>3. AP!Gone \/ BP!Gone \/ hostMaskA = AP!CLOSED
    BY <1>2, <1>6, <2>1, <2>2 DEF AP!EndDoes
  <2> QED
    BY <2>3 DEF TunnelInv, FirstCloses
<1>7. FirstCloses'
  BY <1>4, <1>5, <1>6 DEF FirstCloses, AP!CLOSED, BP!CLOSED
<1> QED
  BY <1>2, <1>3, <1>7 DEF TunnelInv

\* And adds to both streams what it should.
LEMMA StreamsA ==
  ASSUME TunnelInv, StepA
  PROVE  /\ AtoB!Next \/ UNCHANGED <<hostInA + sendSeqA, writtenB>>
         /\ BtoA!Next \/ UNCHANGED <<hostInB + sendSeqB, writtenA>>
<1>1. AP!EndInv /\ BP!EndInv /\ AP!PeerLeavesLast /\ AP!EndStep /\ UNCHANGED <<ownB, held>>
  BY RelyA, SameStepA DEF TunnelInv
<1>2. UNCHANGED <<hostInB, sendSeqB, writtenB>>
  BY <1>1 DEF ownB
<1>3. \/ hostInA' + sendSeqA' = hostInA + sendSeqA
      \/ hostInA' + sendSeqA' = hostInA + sendSeqA + 1 /\ writtenA' = writtenA
  BY <1>1, TunnelAssumption, FinA, AP!EndOffers
<1>4. writtenA' = writtenA \/ \E n \in 1..PayUnits : AP!HostS!Write(n)
  BY <1>1, TunnelAssumption, FinA, AP!EndWrites DEF AP!EndInv
<1>5. ASSUME NEW n \in 1..PayUnits, AP!HostS!Write(n) PROVE BtoA!Write(n)
  <2>1. hostInB \in Nat /\ sendSeqB \in Nat
    BY <1>1 DEF BP!EndInv, BP!BaseInv, BP!TypeInv, BP!TypeOK, BP!SendTypeOK
  <2>2. 0..(sendSeqB - 1) \subseteq 0..((hostInB + sendSeqB) - 1)
    BY <2>1
  <2>3. PICK q \in 0..(sendSeqB - 1), b \in 0..(PayUnits - 1) :
          /\ Len(writtenA) = q * PayUnits + b
          /\ b + n <= PayUnits
          /\ writtenA' = writtenA \o [j \in 1..n |-> <<q, b + j>>]
    BY <1>5 DEF AP!HostS!Write
  <2>4. q \in 0..((hostInB + sendSeqB) - 1)
    BY <2>2
  <2>5. UNCHANGED (hostInB + sendSeqB)
    BY <1>2
  <2> QED
    BY <2>3, <2>4, <2>5, Zenon DEF BtoA!Write
<1>6. AtoB!Next \/ UNCHANGED <<hostInA + sendSeqA, writtenB>>
  BY <1>2, <1>3 DEF AtoB!Next, AtoB!Put
<1>7. BtoA!Next \/ UNCHANGED <<hostInB + sendSeqB, writtenA>>
  BY <1>2, <1>4, <1>5 DEF BtoA!Next
<1> QED
  BY <1>6, <1>7

\* A child that is done has given its host all.
LEMMA DeliveredA ==
  ASSUME TunnelInv, pcA = "done"
  PROVE  Len(writtenA) = ChunksB * PayUnits
<1>1. AP!EndInv /\ BP!EndInv
  BY DEF TunnelInv
<1>2. CASE hostMaskA = AP!CLOSED
  BY <1>1, <1>2, HostClosedA
<1>3. CASE hostMaskA # AP!CLOSED
  <2>1. AP!DoneLast /\ BP!ClosedInOrder /\ BP!DoneLast
    BY <1>1 DEF AP!EndInv, AP!InTurn, BP!EndInv, BP!InTurn
  <2>2. AP!HasAllSent
    BY <1>3, <2>1 DEF AP!DoneLast
  <2>3. hostMaskB = BP!CLOSED
    BY <1>3 DEF TunnelInv, FirstCloses, AP!Gone
  <2>4. sendSeqB = ChunksB
    BY <1>1, <2>3, HostClosedB
  <2>5. ASSUME NEW j \in Agents PROVE ~BP!Pending(j)
    <3>1. ~UpB[j]
      BY <2>2 DEF AP!HasAllSent, AP!ReadOut
    <3>2. pcB = "done" \/ agentSockB[j] = "closed"
      BY <1>1, <3>1, LeftB
    <3> QED
      BY <1>1, <2>1, <2>3, <3>2, StateB DEF PlainB, BP!DoneLast, BP!ClosedInOrder
  <2>6. recvSeqA \in Nat /\ sendSeqB \in Nat /\ recvSeqA <= sendSeqB
    BY <1>1, <2>2 DEF AP!EndInv, AP!BaseInv, AP!TypeInv, AP!TypeOK, AP!SlotTypeOK,
       AP!PeerTypeOK, AP!HasAllSent
  <2>7. ~(recvSeqA < sendSeqB)
    BY <2>2, <2>5, <2>6 DEF AP!HasAllSent, BP!Pending
  <2>8. recvSeqA = ChunksB
    BY <2>4, <2>6, <2>7
  <2> QED
    BY <2>2, <2>8 DEF AP!HasAllSent
<1> QED
  BY <1>2, <1>3

\* What end A has closed was read to its end.
LEMMA InTimeA ==
  ASSUME TunnelInv, NEW i \in Agents, ~UpA[i]
  PROVE  wireOutB[i] = <<>>
<1>1. AP!EndInv
  BY DEF TunnelInv
<1>2. AP!ClosedInOrder /\ AP!DoneLast
  BY <1>1 DEF AP!EndInv, AP!InTurn
<1>3. CASE hostMaskA = AP!CLOSED
  BY <1>1, <1>3, HostClosedA
<1>4. CASE hostMaskA # AP!CLOSED
  <2>1. pcA = "done"
    BY <1>1, <1>2, <1>4, LeftA, StateA DEF PlainA, AP!ClosedInOrder
  <2> QED
    BY <1>2, <1>4, <2>1 DEF AP!DoneLast, AP!HasAllSent, AP!ReadOut
<1> QED
  BY <1>3, <1>4

\* The child at end A keeps its polling in order, and aborts nowhere.
LEMMA PollingA ==
  ASSUME AP!EndInv
  PROVE  /\ A!PendingIsPolled /\ A!NoIdleWakeup /\ A!PausedIffFull /\ A!BlockedPacketKept
         /\ A!NoInternalAbort
<1>1. AP!PendingIsPolled /\ AP!NoIdleWakeup /\ AP!PausedIffFull /\ AP!BlockedPacketKept
  BY TunnelAssumption, FinA, AP!KeepsPolling DEF AP!EndInv
<1>2. A!Running <=> AP!Running
  BY DEF A!Running, A!Terminated, A!Aborts, AP!Running, AP!Terminated, AP!Aborts
<1>3. A!PendingIsPolled /\ A!NoIdleWakeup
  BY <1>1, <1>2 DEF A!PendingIsPolled, A!NoIdleWakeup, A!Pending, A!Served, A!CLOSED,
     AP!PendingIsPolled, AP!NoIdleWakeup, AP!Pending, AP!Served, AP!CLOSED
<1>4. A!PausedIffFull
  BY <1>1, <1>2 DEF A!PausedIffFull, A!Served, A!EMPTY, A!CLOSED,
     AP!PausedIffFull, AP!Served, AP!EMPTY, AP!CLOSED
<1>5. A!BlockedPacketKept
  BY <1>1, <1>2 DEF A!BlockedPacketKept, AP!BlockedPacketKept
<1>6. A!NoInternalAbort
  BY StateA DEF PlainA, A!NoInternalAbort, A!Aborts
<1> QED
  BY <1>3, <1>4, <1>5, <1>6

\* End B may rely on end A: A closes connections only when the exchange is over, or
\* after B.
LEMMA RelyB ==
  ASSUME TunnelInv
  PROVE  BP!PeerLeavesLast
<1>1. BP!EndInv /\ AP!EndInv
  BY DEF TunnelInv
<1>2. SUFFICES ASSUME BP!Running, NEW i \in Agents, ~UpA[i]
               PROVE  hostInB = 0 /\ \A j \in Agents : ~BP!Pending(j)
  BY DEF BP!PeerLeavesLast
<1>3. CASE hostMaskA = AP!CLOSED
  <2>1. sendSeqB = ChunksB /\ \A j \in Agents : packetB[j].left = 0
    BY <1>1, <1>3, HostClosedA
  <2>2. hostInB \in Nat /\ sendSeqB + hostInB <= ChunksB /\ ChunksB \in Nat
    BY <1>1, TunnelAssumption DEF BP!EndInv, BP!Bounded, BP!HostBound, BP!BaseInv,
       BP!TypeInv, BP!TypeOK, BP!SendTypeOK
  <2> QED
    BY <2>1, <2>2 DEF BP!Pending
<1>4. CASE hostMaskA # AP!CLOSED
  <2>1. AP!ClosedInOrder /\ AP!DoneLast /\ BP!ClosedInOrder
    BY <1>1 DEF BP!EndInv, BP!InTurn, AP!EndInv, AP!InTurn
  <2>2. pcA = "done"
    <3>1. agentSockA[i] = "closed" => ~AP!Running
      BY <1>4, <2>1 DEF AP!ClosedInOrder
    <3> QED
      BY <1>1, <1>2, <3>1, LeftA, StateA DEF PlainA
  <2>3. \A j \in Agents : ~UpB[j]
    BY <1>4, <2>1, <2>2 DEF AP!DoneLast, AP!HasAllSent, AP!ReadOut
  <2>4. \A j \in Agents : agentSockB[j] = "closed"
    BY <1>1, <1>2, <2>3, LeftB, StateB DEF PlainB
  <2> QED
    BY <1>2, <2>1, <2>4 DEF BP!ClosedInOrder
<1> QED
  BY <1>3, <1>4

\* What end A sees of a step of end B.
LEMMA SeenByA ==
  ASSUME BP!EndInv, BP!EndInv', BP!EndDoes, UNCHANGED <<ownA, held>>
  PROVE  AP!Beyond
<1>1. /\ UNCHANGED <<AP!childVars, hostInA, hostEofA, sendSeqA, packetA>>
      /\ UNCHANGED <<AP!slotVars, AP!outVars, AP!hostVars>>
  BY DEF ownA, AP!childVars, AP!slotVars, AP!outVars, AP!hostVars
<1>2. AP!PeerReads \/ UNCHANGED wireOutA
  BY DEF BP!EndDoes, BP!Gets, AP!PeerReads
<1>3. ASSUME NEW j \in Agents, UpB'[j] PROVE UpB[j]
  <2>1. "B" \in held \/ (pcB' # "done" /\ agentSockB'[j] = "open")
    BY <1>3, StateNextB DEF PlainB, UpB, StillOpen
  <2>2. (BP!Running' <=> pcB' # "done") /\ (BP!Running <=> pcB # "done")
    BY StateB, StateNextB DEF PlainB
  <2>3. "B" \in held \/ (pcB # "done" /\ agentSockB[j] = "open")
    BY <2>1, <2>2 DEF BP!EndDoes
  <2> QED
    BY <2>3, StateB DEF PlainB, UpB, StillOpen
<1>4. CASE UNCHANGED <<sendSeqB, packetB, wireOutB>>
  <2>1. UpB' \in [Agents -> BOOLEAN]
    BY DEF UpB, StillOpen
  <2> QED
    BY <1>1, <1>2, <1>3, <1>4, <2>1 DEF AP!Beyond, AP!PeerShuts
<1>5. CASE BP!Sends /\ BP!Running /\ BP!Running' /\ UNCHANGED <<agentSockB, wireOutA>>
  <2>1. /\ pcB # "done" /\ pcB' # "done"
    BY <1>5, StateB, StateNextB DEF PlainB
  <2>2. UpB' = UpB
    BY <1>5, <2>1, StateB, StateNextB DEF PlainB, UpB, StillOpen
  <2>3. PICK i \in Agents, n \in 0..BP!PktUnits :
          BP!Outbound!Take(i, n) \/ BP!Outbound!Push(i, n)
    BY <1>5 DEF BP!Sends
  <2>4. n \in 0..AP!PktUnits
    BY <2>3 DEF BP!PktUnits, AP!PktUnits
  <2>5. agentSockB[i] = "open"
    BY <2>3 DEF BP!Outbound!Take, BP!Outbound!Push, BP!IsUp
  <2>6. UpB[i]
    BY <2>1, <2>5, StateB DEF PlainB, UpB, StillOpen
  <2>7. AP!Peer!Take(i, n) \/ AP!Peer!Push(i, n)
    BY <2>2, <2>3, <2>6
       DEF BP!Outbound!Take, BP!Outbound!Push, BP!Outbound!Put, BP!Outbound!Units,
           BP!Outbound!After, BP!Outbound!EmptyPacket, BP!PktUnits,
           AP!Peer!Take, AP!Peer!Push, AP!Peer!Put, AP!Peer!Units, AP!Peer!After,
           AP!Peer!EmptyPacket, AP!PktUnits
  <2> QED
    BY <1>1, <1>2, <2>4, <2>7 DEF AP!Beyond, AP!PeerPuts
<1> QED
  BY <1>4, <1>5 DEF BP!EndDoes

\* A step of end B keeps the invariant of the tunnel.
LEMMA KeepsB ==
  ASSUME TunnelInv, StepB
  PROVE  TunnelInv'
<1>1. BP!EndInv /\ AP!EndInv /\ BP!PeerLeavesLast /\ BP!EndStep /\ UNCHANGED <<ownA, held>>
  BY RelyB, SameStepB DEF TunnelInv
<1>2. BP!EndInv' /\ BP!EndDoes
  BY <1>1, TunnelAssumption, FinB, BP!EndKeeps, BP!EndGives
<1>3. AP!EndInv'
  BY <1>1, <1>2, SeenByA, TunnelAssumption, FinA, AP!BeyondKeeps
<1>4. hostMaskB = BP!CLOSED => hostMaskB' = BP!CLOSED
  BY <1>2 DEF BP!EndDoes, BP!CLOSED
<1>5. hostMaskA' = hostMaskA /\ pcA' = pcA /\ agentSockA' = agentSockA
  BY <1>1 DEF ownA
<1>6. ASSUME BP!Gone' \/ AP!Gone' PROVE hostMaskB = BP!CLOSED \/ hostMaskA = AP!CLOSED
  <2>1. AP!Gone' => AP!Gone
    BY <1>5 DEF AP!Gone
  <2>2. ASSUME \A j \in Agents : ~UpA[j] PROVE AP!Gone
    <3>1. PICK i \in Agents : ~UpA[i]
      BY <2>2, TunnelAssumption
    <3> QED
      BY <1>1, <3>1, LeftA DEF AP!Gone
  <2>3. BP!Gone \/ AP!Gone \/ hostMaskB = BP!CLOSED
    BY <1>2, <1>6, <2>1, <2>2 DEF BP!EndDoes
  <2> QED
    BY <2>3 DEF TunnelInv, FirstCloses
<1>7. FirstCloses'
  BY <1>4, <1>5, <1>6 DEF FirstCloses, BP!CLOSED, AP!CLOSED
<1> QED
  BY <1>2, <1>3, <1>7 DEF TunnelInv

\* And adds to both streams what it should.
LEMMA StreamsB ==
  ASSUME TunnelInv, StepB
  PROVE  /\ BtoA!Next \/ UNCHANGED <<hostInB + sendSeqB, writtenA>>
         /\ AtoB!Next \/ UNCHANGED <<hostInA + sendSeqA, writtenB>>
<1>1. BP!EndInv /\ AP!EndInv /\ BP!PeerLeavesLast /\ BP!EndStep /\ UNCHANGED <<ownA, held>>
  BY RelyB, SameStepB DEF TunnelInv
<1>2. UNCHANGED <<hostInA, sendSeqA, writtenA>>
  BY <1>1 DEF ownA
<1>3. \/ hostInB' + sendSeqB' = hostInB + sendSeqB
      \/ hostInB' + sendSeqB' = hostInB + sendSeqB + 1 /\ writtenB' = writtenB
  BY <1>1, TunnelAssumption, FinB, BP!EndOffers
<1>4. writtenB' = writtenB \/ \E n \in 1..PayUnits : BP!HostS!Write(n)
  BY <1>1, TunnelAssumption, FinB, BP!EndWrites DEF BP!EndInv
<1>5. ASSUME NEW n \in 1..PayUnits, BP!HostS!Write(n) PROVE AtoB!Write(n)
  <2>1. hostInA \in Nat /\ sendSeqA \in Nat
    BY <1>1 DEF AP!EndInv, AP!BaseInv, AP!TypeInv, AP!TypeOK, AP!SendTypeOK
  <2>2. 0..(sendSeqA - 1) \subseteq 0..((hostInA + sendSeqA) - 1)
    BY <2>1
  <2>3. PICK q \in 0..(sendSeqA - 1), b \in 0..(PayUnits - 1) :
          /\ Len(writtenB) = q * PayUnits + b
          /\ b + n <= PayUnits
          /\ writtenB' = writtenB \o [j \in 1..n |-> <<q, b + j>>]
    BY <1>5 DEF BP!HostS!Write
  <2>4. q \in 0..((hostInA + sendSeqA) - 1)
    BY <2>2
  <2>5. UNCHANGED (hostInA + sendSeqA)
    BY <1>2
  <2> QED
    BY <2>3, <2>4, <2>5, Zenon DEF AtoB!Write
<1>6. BtoA!Next \/ UNCHANGED <<hostInB + sendSeqB, writtenA>>
  BY <1>2, <1>3 DEF BtoA!Next, BtoA!Put
<1>7. AtoB!Next \/ UNCHANGED <<hostInA + sendSeqA, writtenB>>
  BY <1>2, <1>4, <1>5 DEF AtoB!Next
<1> QED
  BY <1>6, <1>7

\* A child that is done has given its host all.
LEMMA DeliveredB ==
  ASSUME TunnelInv, pcB = "done"
  PROVE  Len(writtenB) = ChunksA * PayUnits
<1>1. BP!EndInv /\ AP!EndInv
  BY DEF TunnelInv
<1>2. CASE hostMaskB = BP!CLOSED
  BY <1>1, <1>2, HostClosedB
<1>3. CASE hostMaskB # BP!CLOSED
  <2>1. BP!DoneLast /\ AP!ClosedInOrder /\ AP!DoneLast
    BY <1>1 DEF BP!EndInv, BP!InTurn, AP!EndInv, AP!InTurn
  <2>2. BP!HasAllSent
    BY <1>3, <2>1 DEF BP!DoneLast
  <2>3. hostMaskA = AP!CLOSED
    BY <1>3 DEF TunnelInv, FirstCloses, BP!Gone
  <2>4. sendSeqA = ChunksA
    BY <1>1, <2>3, HostClosedA
  <2>5. ASSUME NEW j \in Agents PROVE ~AP!Pending(j)
    <3>1. ~UpA[j]
      BY <2>2 DEF BP!HasAllSent, BP!ReadOut
    <3>2. pcA = "done" \/ agentSockA[j] = "closed"
      BY <1>1, <3>1, LeftA
    <3> QED
      BY <1>1, <2>1, <2>3, <3>2, StateA DEF PlainA, AP!DoneLast, AP!ClosedInOrder
  <2>6. recvSeqB \in Nat /\ sendSeqA \in Nat /\ recvSeqB <= sendSeqA
    BY <1>1, <2>2 DEF BP!EndInv, BP!BaseInv, BP!TypeInv, BP!TypeOK, BP!SlotTypeOK,
       BP!PeerTypeOK, BP!HasAllSent
  <2>7. ~(recvSeqB < sendSeqA)
    BY <2>2, <2>5, <2>6 DEF BP!HasAllSent, AP!Pending
  <2>8. recvSeqB = ChunksA
    BY <2>4, <2>6, <2>7
  <2> QED
    BY <2>2, <2>8 DEF BP!HasAllSent
<1> QED
  BY <1>2, <1>3

\* What end B has closed was read to its end.
LEMMA InTimeB ==
  ASSUME TunnelInv, NEW i \in Agents, ~UpB[i]
  PROVE  wireOutA[i] = <<>>
<1>1. BP!EndInv
  BY DEF TunnelInv
<1>2. BP!ClosedInOrder /\ BP!DoneLast
  BY <1>1 DEF BP!EndInv, BP!InTurn
<1>3. CASE hostMaskB = BP!CLOSED
  BY <1>1, <1>3, HostClosedB
<1>4. CASE hostMaskB # BP!CLOSED
  <2>1. pcB = "done"
    BY <1>1, <1>2, <1>4, LeftB, StateB DEF PlainB, BP!ClosedInOrder
  <2> QED
    BY <1>2, <1>4, <2>1 DEF BP!DoneLast, BP!HasAllSent, BP!ReadOut
<1> QED
  BY <1>3, <1>4

\* The child at end B keeps its polling in order, and aborts nowhere.
LEMMA PollingB ==
  ASSUME BP!EndInv
  PROVE  /\ B!PendingIsPolled /\ B!NoIdleWakeup /\ B!PausedIffFull /\ B!BlockedPacketKept
         /\ B!NoInternalAbort
<1>1. BP!PendingIsPolled /\ BP!NoIdleWakeup /\ BP!PausedIffFull /\ BP!BlockedPacketKept
  BY TunnelAssumption, FinB, BP!KeepsPolling DEF BP!EndInv
<1>2. B!Running <=> BP!Running
  BY DEF B!Running, B!Terminated, B!Aborts, BP!Running, BP!Terminated, BP!Aborts
<1>3. B!PendingIsPolled /\ B!NoIdleWakeup
  BY <1>1, <1>2 DEF B!PendingIsPolled, B!NoIdleWakeup, B!Pending, B!Served, B!CLOSED,
     BP!PendingIsPolled, BP!NoIdleWakeup, BP!Pending, BP!Served, BP!CLOSED
<1>4. B!PausedIffFull
  BY <1>1, <1>2 DEF B!PausedIffFull, B!Served, B!EMPTY, B!CLOSED,
     BP!PausedIffFull, BP!Served, BP!EMPTY, BP!CLOSED
<1>5. B!BlockedPacketKept
  BY <1>1, <1>2 DEF B!BlockedPacketKept, BP!BlockedPacketKept
<1>6. B!NoInternalAbort
  BY StateB DEF PlainB, B!NoInternalAbort, B!Aborts
<1> QED
  BY <1>3, <1>4, <1>5, <1>6

(***************************************************************************)
(* Both ends.                                                              *)
(***************************************************************************)

\* It holds at the start.
LEMMA TunnelStart == Init => TunnelInv
<1>0. SUFFICES ASSUME Init PROVE TunnelInv
  OBVIOUS
<1>1. Init => AP!Init
  BY DEF Init, A!ChildInit, A!SendInit, A!RecvInit, A!MaskIN, A!EmptyPacket, A!FreshSlot,
         A!Slots, A!EMPTY, A!Peer!Init, A!Peer!EmptyPacket, AP!Init, AP!ChildInit,
         AP!SendInit, AP!RecvInit, AP!MaskIN, AP!EmptyPacket, AP!FreshSlot, AP!Slots,
         AP!EMPTY, AP!Peer!Init, AP!Peer!EmptyPacket
<1>2. Init => BP!Init
  BY DEF Init, B!ChildInit, B!SendInit, B!RecvInit, B!MaskIN, B!EmptyPacket, B!FreshSlot,
         B!Slots, B!EMPTY, B!Peer!Init, B!Peer!EmptyPacket, BP!Init, BP!ChildInit,
         BP!SendInit, BP!RecvInit, BP!MaskIN, BP!EmptyPacket, BP!FreshSlot, BP!Slots,
         BP!EMPTY, BP!Peer!Init, BP!Peer!EmptyPacket
<1>3. AP!EndInv /\ BP!EndInv
  BY <1>0, <1>1, <1>2, TunnelAssumption, FinA, FinB, AP!EndInit, BP!EndInit
<1>4. FirstCloses
  BY <1>0, <1>1, <1>2
     DEF FirstCloses, AP!Gone, BP!Gone, AP!Init, AP!ChildInit, BP!Init, BP!ChildInit
<1> QED
  BY <1>3, <1>4 DEF TunnelInv

\* A child that ends and had copies of the sockets of an end may close connections.
LEMMA KeepsHeld ==
  ASSUME TunnelInv, HolderEnds \/ UNCHANGED vars
  PROVE  TunnelInv'
<1>1. AP!EndInv /\ BP!EndInv /\ FirstCloses
  BY DEF TunnelInv
<1>2. /\ UNCHANGED <<ownA, ownB, wireOutA, wireOutB>>
      /\ \A e : e \in held' => e \in held
  BY DEF HolderEnds, vars
<1>3. BP!Beyond
  <2>1. \A j \in Agents : UpA'[j] => UpA[j]
    BY <1>2 DEF UpA, StillOpen, ownA
  <2>2. UpA' \in [Agents -> BOOLEAN]
    BY DEF UpA, StillOpen
  <2> QED
    BY <1>2, <2>1, <2>2 DEF BP!Beyond, BP!PeerShuts, ownA, ownB, BP!childVars,
       BP!slotVars, BP!outVars, BP!hostVars
<1>4. AP!Beyond
  <2>1. \A j \in Agents : UpB'[j] => UpB[j]
    BY <1>2 DEF UpB, StillOpen, ownB
  <2>2. UpB' \in [Agents -> BOOLEAN]
    BY DEF UpB, StillOpen
  <2> QED
    BY <1>2, <2>1, <2>2 DEF AP!Beyond, AP!PeerShuts, ownA, ownB, AP!childVars,
       AP!slotVars, AP!outVars, AP!hostVars
<1>5. AP!EndInv' /\ BP!EndInv'
  BY <1>1, <1>3, <1>4, TunnelAssumption, FinA, FinB, AP!BeyondKeeps, BP!BeyondKeeps
<1>6. FirstCloses'
  BY <1>1, <1>2 DEF FirstCloses, AP!Gone, BP!Gone, AP!CLOSED, BP!CLOSED, ownA, ownB
<1> QED
  BY <1>5, <1>6 DEF TunnelInv

\* The invariant holds in every state of a tunnel.
LEMMA TunnelInvariant == Spec => []TunnelInv
<1>1. TunnelInv /\ [Next]_vars => TunnelInv'
  BY KeepsA, KeepsB, KeepsHeld DEF Next
<1> QED
  BY <1>1, TunnelStart, PTL DEF Spec

\* No connection carries data its reader has closed the door to: in a tunnel whose network
\* breaks nothing no reset is due, at any moment of the two shutdowns.
THEOREM NothingTooLate == Spec => []NoLateData
<1>1. TunnelInv => NoLateData
  BY InTimeA, InTimeB DEF NoLateData
<1> QED
  BY <1>1, TunnelInvariant, PTL

\* A child that leaves by "Everything has been closed!" has given its host all the other
\* host wrote, though it only sees connections close.
THEOREM DoneIsDelivered == Spec => []DoneMeansDelivered
<1>1. TunnelInv => DoneMeansDelivered
  BY DeliveredA, DeliveredB DEF DoneMeansDelivered
<1> QED
  BY <1>1, TunnelInvariant, PTL

\* Both ends at once poll for what they wait for, and for nothing else.
THEOREM BothPoll == Spec => []BothKeepPolling
<1>1. TunnelInv => BothKeepPolling
  BY PollingA, PollingB DEF TunnelInv, BothKeepPolling
<1> QED
  BY <1>1, TunnelInvariant, PTL

\* Neither child leaves through one of the exit(1)s that report an impossible state.
THEOREM NeitherAborts == Spec => [](A!NoInternalAbort /\ B!NoInternalAbort)
<1>1. TunnelInv => A!NoInternalAbort /\ B!NoInternalAbort
  BY PollingA, PollingB DEF TunnelInv
<1> QED
  BY <1>1, TunnelInvariant, PTL

\* The tunnel implements two byte streams, one in each direction.
THEOREM TwoStreams == Spec => ActsAsStreams
<1>1. Init => AtoB!Init /\ BtoA!Init
  BY DEF Init, A!SendInit, B!SendInit, A!RecvInit, B!RecvInit, AtoB!Init, BtoA!Init
<1>2. TunnelInv /\ [Next]_vars => /\ [AtoB!Next]_<<hostInA + sendSeqA, writtenB>>
                                  /\ [BtoA!Next]_<<hostInB + sendSeqB, writtenA>>
  <2>1. SUFFICES ASSUME TunnelInv, StepA \/ StepB \/ HolderEnds \/ UNCHANGED vars
                 PROVE  /\ AtoB!Next \/ UNCHANGED <<hostInA + sendSeqA, writtenB>>
                        /\ BtoA!Next \/ UNCHANGED <<hostInB + sendSeqB, writtenA>>
    BY DEF Next
  <2>2. CASE StepA
    BY <2>1, <2>2, StreamsA
  <2>3. CASE StepB
    BY <2>1, <2>3, StreamsB
  <2>4. CASE HolderEnds \/ UNCHANGED vars
    BY <2>4 DEF HolderEnds, vars, ownA, ownB
  <2> QED
    BY <2>1, <2>2, <2>3, <2>4
<1> QED
  BY <1>1, <1>2, TunnelInvariant, PTL DEF Spec, ActsAsStreams, AtoB!Spec, BtoA!Spec

=============================================================================
