------------------------------ MODULE ChildProofs ------------------------------
(***************************************************************************)
(* Proofs about a data-transfer child, for every number of connections,    *)
(* every size of packets, queues and socket buffers, and every             *)
(* environment event.                                                      *)
(***************************************************************************)
EXTENDS ChildProperties, SequenceTheorems, TLAPS

(***************************************************************************)
(* Masks.                                                                  *)
(***************************************************************************)

\* Polling for one more direction gives a mask, and neither enters nor leaves
\* CLOSED.
LEMMA PollForMask ==
  ASSUME NEW m \in Masks, NEW b \in {"in", "out"}
  PROVE  /\ PollFor(m, b) \in Masks
         /\ PollFor(m, b) = CLOSED <=> m = CLOSED
         /\ m # CLOSED => b \in PollFor(m, b)
         /\ \A c \in {"in", "out"} : c # b => (c \in PollFor(m, b) <=> c \in m)
<1>1. CASE m = CLOSED
  BY <1>1 DEF PollFor, Masks, CLOSED
<1>2. CASE m = OFF
  BY <1>2 DEF PollFor, Masks, OFF, MaskIN, OUT, INAndOut, CLOSED
<1>3. CASE m = MaskIN
  BY <1>3 DEF PollFor, Masks, OFF, MaskIN, OUT, INAndOut, CLOSED
<1>4. CASE m = OUT
  BY <1>4 DEF PollFor, Masks, OFF, MaskIN, OUT, INAndOut, CLOSED
<1>5. CASE m = INAndOut
  BY <1>5 DEF PollFor, Masks, OFF, MaskIN, OUT, INAndOut, CLOSED
<1> QED
  BY <1>1, <1>2, <1>3, <1>4, <1>5 DEF Masks

\* So does polling for one direction less.
LEMMA StopPollingMask ==
  ASSUME NEW m \in Masks, NEW b \in {"in", "out"}
  PROVE  /\ StopPolling(m, b) \in Masks
         /\ StopPolling(m, b) = CLOSED <=> m = CLOSED
         /\ b \notin StopPolling(m, b)
         /\ \A c \in {"in", "out"} : c # b => (c \in StopPolling(m, b) <=> c \in m)
<1>1. CASE m = CLOSED
  BY <1>1 DEF StopPolling, Masks, CLOSED
<1>2. CASE m = OFF
  BY <1>2 DEF StopPolling, Masks, OFF, MaskIN, OUT, INAndOut, CLOSED
<1>3. CASE m = MaskIN
  BY <1>3 DEF StopPolling, Masks, OFF, MaskIN, OUT, INAndOut, CLOSED
<1>4. CASE m = OUT
  BY <1>4 DEF StopPolling, Masks, OFF, MaskIN, OUT, INAndOut, CLOSED
<1>5. CASE m = INAndOut
  BY <1>5 DEF StopPolling, Masks, OFF, MaskIN, OUT, INAndOut, CLOSED
<1> QED
  BY <1>1, <1>2, <1>3, <1>4, <1>5 DEF Masks

\* A mask with a direction in it is neither CLOSED nor OFF.
LEMMA PolledMask ==
  ASSUME NEW m \in Masks, NEW b \in {"in", "out"}, b \in m
  PROVE  m # CLOSED /\ Registered(m)
BY DEF Masks, OFF, MaskIN, OUT, INAndOut, CLOSED, Registered

(***************************************************************************)
(* The outbound half keeps its types.                                      *)
(***************************************************************************)

\* The masks a caller of read_host_send_agent() may pass: they differ from the
\* current ones, but CLOSED stays CLOSED and the host is not polled for output
\* unless it was.
PassedMasks(hm, am) ==
  /\ hm \in Masks
  /\ "out" \in hm => "out" \in hostMask
  /\ am \in [Agents -> Masks]
  /\ \A j \in Agents : agentMask[j] = CLOSED => am[j] = CLOSED

\* What every step of the outbound half guarantees to the inbound half.
OutboundFrame ==
  /\ pc' # "deliver"
  /\ "out" \in hostMask' => "out" \in hostMask
  /\ \A j \in Agents : agentMask[j] = CLOSED => agentMask'[j] = CLOSED

\* Units of a packet are units.
LEMMA UnitsType ==
  ASSUME NEW p \in Packet, NEW n \in Nat, n <= p.left
  PROVE  Units(p, n) \in Seq(Unit) /\ Len(Units(p, n)) = n
<1>1. HdrUnits \in Nat /\ PayUnits \in Nat /\ PktUnits \in Nat
  BY UnitsAssumption DEF PktUnits
<1>2. p.seq \in Nat /\ p.left \in Nat /\ p.left <= PktUnits
  BY <1>1 DEF Packet
<1>3. \A j \in 1..n : PktUnits - p.left + j \in Nat
  BY <1>1, <1>2
<1>4. Units(p, n) \in [1..n -> Unit]
  BY <1>2, <1>3 DEF Units, Unit
<1> QED
  BY <1>4

\* Appending units to a wire.
LEMMA ConcatUnits ==
  ASSUME NEW s \in Seq(Unit), NEW t \in Seq(Unit)
  PROVE  /\ s \o t \in Seq(Unit)
         /\ Len(s \o t) = Len(s) + Len(t)
BY ConcatProperties

\* The send loop keeps the types of what it changes, whichever way it ends.
LEMMA SendType ==
  ASSUME ChildTypeOK, SendTypeOK,
         NEW i \in Agents, NEW p \in Packet, NEW am \in [Agents -> Masks],
         \A j \in Agents : agentMask[j] = CLOSED => am[j] = CLOSED,
         Send(i, p, am)
  PROVE  /\ pc' \in PCs /\ pc' # "deliver"
         /\ agentMask' \in [Agents -> Masks]
         /\ \A j \in Agents : agentMask[j] = CLOSED => agentMask'[j] = CLOSED
         /\ agentSock' \in [Agents -> SockStates]
         /\ packet' \in [Agents -> Packet]
         /\ wireOut' \in [Agents -> Seq(Unit)]
         /\ \A j \in Agents : Len(wireOut'[j]) <= WireCap
<1>1. CASE SendSome(i, p, am)
  <2> DEFINE n == Sendable(i, p)
  <2>1. p.left \in Nat /\ p.seq \in Nat /\ p.left <= PktUnits /\ PktUnits \in Nat
    BY UnitsAssumption DEF Packet, PktUnits
  <2>2. wireOut[i] \in Seq(Unit) /\ Len(wireOut[i]) \in Nat /\ Len(wireOut[i]) <= WireCap
    BY LenProperties DEF SendTypeOK
  <2>3. n \in Nat /\ n <= p.left /\ Len(wireOut[i]) + n <= WireCap
    BY <2>1, <2>2, WireAssumption DEF Sendable, Room
  <2>4. Units(p, n) \in Seq(Unit) /\ Len(Units(p, n)) = n
    BY <2>3, UnitsType
  <2>5. /\ wireOut[i] \o Units(p, n) \in Seq(Unit)
        /\ Len(wireOut[i] \o Units(p, n)) = Len(wireOut[i]) + n
    BY <2>2, <2>4, ConcatUnits
  <2>6. wireOut' = [wireOut EXCEPT ![i] = @ \o Units(p, n)]
    BY <1>1 DEF SendSome
  <2>7. /\ wireOut' \in [Agents -> Seq(Unit)]
        /\ \A j \in Agents : Len(wireOut'[j]) <= WireCap
    BY <2>3, <2>5, <2>6 DEF SendTypeOK
  <2>8. AfterSend(p, n) \in Packet
    BY <2>1, <2>3 DEF AfterSend, EmptyPacket, Packet
  <2>9. packet' \in [Agents -> Packet]
    BY <1>1, <2>8 DEF SendSome, SendTypeOK
  <2>10. /\ PollFor(am[i], "out") \in Masks
         /\ am[i] = CLOSED => PollFor(am[i], "out") = CLOSED
    BY PollForMask
  <2>11. /\ agentMask' \in [Agents -> Masks]
         /\ \A j \in Agents : agentMask[j] = CLOSED => agentMask'[j] = CLOSED
    BY <1>1, <2>10 DEF SendSome, MaskAfterSend
  <2> QED
    BY <1>1, <2>7, <2>9, <2>11 DEF SendSome, PCs, ChildTypeOK
<1>2. CASE SendReset(i, p, am)
  <2>1. /\ agentMask' \in [Agents -> Masks]
        /\ \A j \in Agents : agentMask[j] = CLOSED => agentMask'[j] = CLOSED
    BY <1>2 DEF SendReset, Registered, Masks
  <2> QED
    BY <1>2, <2>1 DEF SendReset, PCs, Aborts, ChildTypeOK, SendTypeOK, SockStates
<1>3. CASE SendPipe(i, p, am)
  BY <1>3 DEF SendPipe, PCs, ChildTypeOK, SendTypeOK
<1> QED
  BY <1>1, <1>2, <1>3 DEF Send

\* So does read_host_send_agent(), called with any masks.
LEMMA ReadHostSendAgentType ==
  ASSUME ChildTypeOK, SendTypeOK,
         NEW i \in Agents, NEW hm, NEW am, PassedMasks(hm, am),
         ReadHostSendAgent(i, hm, am)
  PROVE  ChildTypeOK' /\ SendTypeOK' /\ OutboundFrame
<1> USE DEF PassedMasks
<1>1. CASE SendRest(i, hm, am)
  <2>1. CASE "out" \in am[i]
    <3> DEFINE am2 == [am EXCEPT ![i] = StopPolling(@, "out")]
    <3>1. StopPolling(am[i], "out") \in Masks /\ am[i] # CLOSED
      BY <2>1, StopPollingMask, PolledMask
    <3>2. /\ am2 \in [Agents -> Masks]
          /\ \A j \in Agents : agentMask[j] = CLOSED => am2[j] = CLOSED
      BY <3>1
    <3>3. packet[i] \in Packet /\ Send(i, packet[i], am2)
      BY <1>1, <2>1 DEF SendRest, SendTypeOK
    <3> HIDE DEF am2
    <3> QED
      BY <1>1, <3>2, <3>3, SendType
      DEF SendRest, ChildTypeOK, SendTypeOK, OutboundFrame
  <2>2. CASE "out" \notin am[i]
    BY <1>1, <2>2
    DEF SendRest, ChildTypeOK, SendTypeOK, OutboundFrame, PCs, Aborts
  <2> QED
    BY <2>1, <2>2
<1>2. CASE SendNew(i, hm, am)
  <2> DEFINE p == [seq |-> sendSeq, left |-> PktUnits]
  <2>1. p \in Packet
    BY UnitsAssumption DEF Packet, PktUnits, SendTypeOK
  <2>2. Send(i, p, am)
    BY <1>2 DEF SendNew
  <2>3. hostIn' \in Nat /\ hostEof' \in BOOLEAN /\ sendSeq' \in Nat
    BY <1>2 DEF SendNew, SendTypeOK
  <2> HIDE DEF p
  <2> QED
    BY <1>2, <2>1, <2>2, <2>3, SendType
    DEF SendNew, ChildTypeOK, SendTypeOK, OutboundFrame
<1>3. CASE HostNothing(i, hm, am)
  BY <1>3
  DEF HostNothing, ChildTypeOK, SendTypeOK, OutboundFrame, PCs, sendVars
<1>4. CASE HostEnded(i, hm, am)
  <2>0. hostMask' = CLOSED \/ hostMask' = hm
    BY <1>4 DEF HostEnded
  <2>1. hostMask' \in Masks /\ ("out" \in hostMask' => "out" \in hostMask)
    BY <2>0 DEF Masks, CLOSED
  <2>2. pc' \in PCs /\ pc' # "deliver"
    BY <1>4 DEF HostEnded, PCs, Aborts
  <2> QED
    BY <1>4, <2>1, <2>2
    DEF HostEnded, ChildTypeOK, SendTypeOK, OutboundFrame, sendVars
<1> QED
  BY <1>1, <1>2, <1>3, <1>4 DEF ReadHostSendAgent

\* Each event of the outbound half, and the loop head, keep the types.
LEMMA HostInType ==
  ASSUME ChildTypeOK, SendTypeOK, HostInEvent \/ HostInError
  PROVE  ChildTypeOK' /\ SendTypeOK' /\ OutboundFrame
<1>0. PassedMasks(hostMask, agentMask)
  BY DEF PassedMasks, ChildTypeOK
<1>1. ASSUME NEW i \in Agents, ReadHostSendAgent(i, hostMask, agentMask)
      PROVE  ChildTypeOK' /\ SendTypeOK' /\ OutboundFrame
  BY <1>0, <1>1, ReadHostSendAgentType
<1>2. CASE AllAgentsSocksFull
  <2>1. \A j \in Agents :
          /\ PollFor(agentMask[j], "out") \in Masks
          /\ agentMask[j] = CLOSED => PollFor(agentMask[j], "out") = CLOSED
    BY PollForMask DEF ChildTypeOK
  <2>2. /\ agentMask' \in [Agents -> Masks]
        /\ \A j \in Agents : agentMask[j] = CLOSED => agentMask'[j] = CLOSED
    <3>1. agentMask' = [j \in Agents |-> PollFor(agentMask[j], "out")]
      BY <1>2 DEF AllAgentsSocksFull
    <3>2. agentMask' \in [Agents -> Masks]
      BY <2>1, <3>1
    <3>3. \A j \in Agents : agentMask'[j] = PollFor(agentMask[j], "out")
      BY <3>1
    <3> QED
      BY <2>1, <3>2, <3>3
  <2>3. /\ StopPolling(hostMask, "in") \in Masks
        /\ "out" \in StopPolling(hostMask, "in") => "out" \in hostMask
    BY StopPollingMask DEF ChildTypeOK
  <2>4. hostMask' \in Masks /\ ("out" \in hostMask' => "out" \in hostMask)
    BY <1>2, <2>3 DEF AllAgentsSocksFull, ChildTypeOK
  <2>5. pc' \in PCs /\ pc' # "deliver"
    BY <1>2 DEF AllAgentsSocksFull, PCs, Aborts
  <2> QED
    BY <1>2, <2>2, <2>4, <2>5
    DEF AllAgentsSocksFull, sendVars, ChildTypeOK, SendTypeOK, OutboundFrame
<1>3. CASE HostInError
  BY <1>3 DEF HostInError, sendVars, ChildTypeOK, SendTypeOK, OutboundFrame, PCs
<1> QED
  BY <1>1, <1>2, <1>3 DEF HostInEvent

\* And the EPOLLOUT event of an agent socket, with or without a resume.
LEMMA AgentOutType ==
  ASSUME ChildTypeOK, SendTypeOK, NEW i \in Agents, AgentOutEvent(i)
  PROVE  ChildTypeOK' /\ SendTypeOK' /\ OutboundFrame
<1>1. CASE ReadHostSendAgent(i, hostMask, agentMask)
  BY <1>1, ReadHostSendAgentType DEF PassedMasks, ChildTypeOK
<1>2. CASE ReadHostSendAgent(i, HostResumed, AgentsResumed)
  <2>1. /\ HostResumed \in Masks
        /\ "out" \in HostResumed => "out" \in hostMask
    BY PollForMask DEF HostResumed, ChildTypeOK
  <2>2. \A j \in Agents :
          /\ StopPolling(agentMask[j], "out") \in Masks
          /\ agentMask[j] = CLOSED => StopPolling(agentMask[j], "out") = CLOSED
    BY StopPollingMask DEF ChildTypeOK
  <2>3. /\ AgentsResumed \in [Agents -> Masks]
        /\ \A j \in Agents : agentMask[j] = CLOSED => AgentsResumed[j] = CLOSED
    BY <2>2 DEF AgentsResumed, ChildTypeOK
  <2> QED
    BY <1>2, <2>1, <2>3, ReadHostSendAgentType DEF PassedMasks
<1> QED
  BY <1>1, <1>2 DEF AgentOutEvent

\* Closing what can be closed at the head of the loop keeps the types.
LEMMA LoopTopType ==
  ASSUME ChildTypeOK, LoopTop
  PROVE  ChildTypeOK' /\ OutboundFrame
<1>1. CASE CloseIdle
  BY <1>1 DEF LoopTop, CloseIdle, ChildTypeOK, OutboundFrame, PCs, SockStates, Masks
<1>2. CASE CloseHost
  BY <1>2 DEF LoopTop, CloseHost, ChildTypeOK, OutboundFrame, PCs, SockStates
<1> QED
  BY <1>1, <1>2 DEF LoopTop

(***************************************************************************)
(* The inbound half keeps its types.                                       *)
(***************************************************************************)

\* A connection without a slot is not inside a header.
ReadStateOK == \A i \in Agents : indexIn[i] = EMPTY => needHdr[i] = 0

\* The packet that is being delivered, or that waits for the host, is one of a
\* connection.
OutKnown ==
  /\ pc = "deliver" => cur.agent \in Agents
  /\ "out" \in hostMask => outAgent \in Agents

TypeInv == TypeOK /\ ReadStateOK /\ OutKnown

\* Slots are numbers, EMPTY is none of them, the first one exists.
LEMMA SlotsType == Slots \subseteq Nat /\ EMPTY \notin Slots /\ 1 \in Slots
BY QueueAssumption DEF Slots, EMPTY

\* recv() takes a prefix of what a connection holds.
LEMMA ConsumeType ==
  ASSUME PeerTypeOK, NEW i \in Agents, NEW n \in Nat, Consume(i, n)
  PROVE  PeerTypeOK'
<1>1. wireIn[i] \in Seq(Unit) /\ Len(wireIn[i]) \in Nat
  BY LenProperties DEF PeerTypeOK
<1>2. SubSeq(wireIn[i], n + 1, Len(wireIn[i])) \in Seq(Unit)
  BY <1>1, SubSeqProperties
<1> QED
  BY <1>2 DEF Consume, PeerTypeOK

\* The numbers an event of connection i computes with: recv() is never asked
\* for nothing, whose 0 would be taken for a closed peer.
LEMMA ReadNumbers ==
  ASSUME PeerTypeOK, SlotTypeOK, ReadStateOK, NEW i \in Agents,
         NEW s \in Slots, WorkSlot(i, s)
  PROVE  /\ Avail(i) \in Nat
         /\ HdrLeft(i) \in 0..HdrUnits
         /\ BodyHave(i, s) \in 0..(PayUnits - 1)
         /\ BodyLeft(i, s) \in 1..PayUnits
         /\ ~InBody(i) => HdrLeft(i) = HdrUnits - needHdr[i] /\ HdrLeft(i) > 0
         /\ InBody(i) => HdrLeft(i) = 0 /\ s = indexIn[i] /\ needHdr[i] = 0
<1>1. HdrUnits \in Nat \ {0} /\ PayUnits \in Nat \ {0}
  BY UnitsAssumption
<1>2. Avail(i) \in Nat
  BY LenProperties DEF Avail, PeerTypeOK
<1>3. needHdr[i] \in 0..(HdrUnits - 1)
  BY DEF SlotTypeOK
<1>4. InBody(i) => s = indexIn[i] /\ needHdr[i] = 0
  BY DEF InBody, AtHeader, InHeader, WorkSlot, ReadStateOK
<1>5. slot[i][s].sent \in 0..(PayUnits - 1)
  BY DEF SlotTypeOK, Slot
<1>6. BodyHave(i, s) \in 0..(PayUnits - 1)
  BY <1>1, <1>5 DEF BodyHave
<1>7. HdrLeft(i) \in 0..HdrUnits
  BY <1>1, <1>3 DEF HdrLeft
<1> QED
  BY <1>1, <1>2, <1>3, <1>4, <1>6, <1>7 DEF BodyLeft, HdrLeft

\* A slot may be given any contents of a slot.
LEMMA SlotUpdate ==
  ASSUME SlotTypeOK, NEW i \in Agents, NEW s \in Slots, NEW r \in Slot
  PROVE  [slot EXCEPT ![i][s] = r] \in [Agents -> [Slots -> Slot]]
BY DEF SlotTypeOK

\* The new contents the handlers give a slot.
LEMMA SlotContents ==
  ASSUME NEW q \in Slot
  PROVE  /\ [q EXCEPT !.inUse = TRUE] \in Slot
         /\ [q EXCEPT !.inUse = FALSE] \in Slot
         /\ \A m \in 0..(PayUnits - 1) :
              /\ [q EXCEPT !.sent = m] \in Slot
              /\ [q EXCEPT !.inUse = TRUE, !.sent = m] \in Slot
         /\ \A m \in Nat : [q EXCEPT !.inUse = TRUE, !.seq = m] \in Slot
BY DEF Slot

\* Claiming or releasing a slot leaves a table of slots.
LEMMA ClaimedType ==
  ASSUME SlotTypeOK, NEW i \in Agents, NEW s \in Slots
  PROVE  /\ Claimed(i, s) \in [Agents -> [Slots -> Slot]]
         /\ Released(i, s) \in [Agents -> [Slots -> Slot]]
<1>1. slot[i][s] \in Slot
  BY DEF SlotTypeOK
<1>2. /\ [slot[i][s] EXCEPT !.inUse = TRUE] \in Slot
      /\ [slot[i][s] EXCEPT !.inUse = FALSE] \in Slot
  BY <1>1, SlotContents
<1>3. [slot EXCEPT ![i][s] = [slot[i][s] EXCEPT !.inUse = TRUE]]
         \in [Agents -> [Slots -> Slot]]
  BY <1>2, SlotUpdate
<1>4. [slot EXCEPT ![i][s] = [slot[i][s] EXCEPT !.inUse = FALSE]]
         \in [Agents -> [Slots -> Slot]]
  BY <1>2, SlotUpdate
<1> QED
  BY <1>3, <1>4 DEF Claimed, Released

\* What an event of the inbound half has to preserve.
InboundTyped ==
  /\ ChildTypeOK' /\ SlotTypeOK' /\ OutTypeOK' /\ PeerTypeOK' /\ HostTypeOK'
  /\ ReadStateOK' /\ OutKnown'

\* The situation of read_agent_send_host(): connection i is read, into slot s.
Reading(i, s) ==
  /\ "in" \in agentMask[i] /\ AgentReadable(i)
  /\ WorkSlot(i, s)

\* Counting a packet keeps the counters of every connection.
LEMMA CountPacketType ==
  ASSUME SlotTypeOK, NEW i \in Agents, CountPacket(i)
  PROVE  /\ needHdr' \in [Agents -> 0..(HdrUnits - 1)]
         /\ needHdr' = [needHdr EXCEPT ![i] = 0]
         /\ queueCount' \in [Agents -> Int]
<1>1. 0 \in 0..(HdrUnits - 1)
  BY UnitsAssumption
<1> QED
  BY <1>1 DEF CountPacket, SlotTypeOK

\* A polled socket leaves the pool: its mask is CLOSED.
LEMMA LeavePoolType ==
  ASSUME ChildTypeOK, NEW i \in Agents, "in" \in agentMask[i], LeavePool(i)
  PROVE  agentMask' \in [Agents -> Masks] /\ pc' = "top"
<1>1. Registered(agentMask[i])
  BY PolledMask DEF ChildTypeOK
<1> QED
  BY <1>1 DEF LeavePool, ChildTypeOK, Masks

\* A handler that leaves the host, and the packet that waits for it, alone.
HostLeftAlone == UNCHANGED <<hostMask, hostSock, outVars, hostVars>>

\* A step that leaves the host and send_data_host()'s variables alone keeps their types.
LEMMA HostLeftAloneType ==
  ASSUME TypeInv, HostLeftAlone, pc' \in PCs, pc' # "deliver",
         agentMask' \in [Agents -> Masks], agentSock' \in [Agents -> SockStates]
  PROVE  ChildTypeOK' /\ OutTypeOK' /\ HostTypeOK' /\ OutKnown'
BY DEF TypeInv, TypeOK, HostLeftAlone, outVars, hostVars,
       ChildTypeOK, OutTypeOK, HostTypeOK, OutKnown

\* recv() had nothing, or an error, before the header was complete.
LEMMA HeaderType ==
  ASSUME TypeInv, NEW i \in Agents, NEW s \in Slots, Reading(i, s),
         HeaderBlocks(i, s) \/ HeaderEof(i, s) \/ HeaderReset(i, s)
  PROVE  InboundTyped
<1>0. ChildTypeOK /\ SlotTypeOK /\ PeerTypeOK /\ ReadStateOK
  BY DEF TypeInv, TypeOK
<1>1. /\ Avail(i) \in Nat
      /\ needHdr[i] \in 0..(HdrUnits - 1)
      /\ HdrLeft(i) \in 0..(HdrUnits - needHdr[i])
  <2>1. /\ Avail(i) \in Nat
        /\ ~InBody(i) => HdrLeft(i) = HdrUnits - needHdr[i] /\ HdrLeft(i) > 0
        /\ InBody(i) => HdrLeft(i) = 0 /\ needHdr[i] = 0
    BY <1>0, ReadNumbers DEF Reading
  <2>2. needHdr[i] \in 0..(HdrUnits - 1) /\ HdrUnits \in Nat
    BY <1>0, UnitsAssumption DEF SlotTypeOK
  <2> QED
    BY <2>1, <2>2
<1>2. PeerTypeOK'
  BY <1>0, <1>1, ConsumeType DEF HeaderBlocks, HeaderEof, HeaderReset
<1>3. slot' \in [Agents -> [Slots -> Slot]]
  <2>1. slot' \in {Claimed(i, s), Released(i, s)}
    BY DEF HeaderBlocks, HeaderEof, HeaderReset
  <2> QED
    BY <1>0, <2>1, ClaimedType
<1>4. /\ indexIn' = [indexIn EXCEPT ![i] = s]
      /\ UNCHANGED <<recvSeq, queueCount, table>>
      /\ HostLeftAlone
  BY DEF HeaderBlocks, HeaderEof, HeaderReset, HostLeftAlone
<1>5. needHdr' \in [Agents -> 0..(HdrUnits - 1)]
      /\ \A j \in Agents \ {i} : needHdr'[j] = needHdr[j]
  <2>1. CASE HeaderBlocks(i, s)
    <3>1. needHdr[i] + Avail(i) \in 0..(HdrUnits - 1)
      <4>1. Avail(i) < HdrLeft(i)
        BY <2>1 DEF HeaderBlocks
      <4> QED
        BY <1>1, <4>1, UnitsAssumption
    <3>2. needHdr' = needHdr \/ needHdr' = [needHdr EXCEPT ![i] = @ + Avail(i)]
      BY <2>1 DEF HeaderBlocks
    <3> QED
      BY <1>0, <3>1, <3>2 DEF SlotTypeOK
  <2>2. CASE HeaderEof(i, s) \/ HeaderReset(i, s)
    BY <1>0, <2>2 DEF HeaderEof, HeaderReset, SlotTypeOK
  <2> QED
    BY <2>1, <2>2
<1>6. SlotTypeOK' /\ ReadStateOK'
  BY <1>0, <1>3, <1>4, <1>5, SlotsType DEF SlotTypeOK, ReadStateOK
<1>7. pc' \in PCs /\ pc' # "deliver" /\ agentMask' \in [Agents -> Masks]
  <2>1. CASE HeaderBlocks(i, s)
    BY <1>0, <2>1 DEF HeaderBlocks, PCs, Aborts, ChildTypeOK
  <2>2. CASE HeaderEof(i, s) \/ HeaderReset(i, s)
    BY <1>0, <2>2, LeavePoolType DEF Reading, HeaderEof, HeaderReset, PCs
  <2> QED
    BY <2>1, <2>2
<1>8. agentSock' \in [Agents -> SockStates]
  BY <1>0 DEF HeaderBlocks, HeaderEof, HeaderReset, ChildTypeOK, SockStates
<1> QED
  BY <1>2, <1>4, <1>6, <1>7, <1>8, HostLeftAloneType DEF InboundTyped

\* recv() had nothing, or an error, before the body was complete.
LEMMA BodyType ==
  ASSUME TypeInv, NEW i \in Agents, NEW s \in Slots, Reading(i, s),
         BodyBlocks(i, s) \/ BodyEof(i, s) \/ BodyReset(i, s)
  PROVE  InboundTyped
<1>0. ChildTypeOK /\ SlotTypeOK /\ PeerTypeOK /\ ReadStateOK
  BY DEF TypeInv, TypeOK
<1>1. /\ Avail(i) \in Nat
      /\ HdrLeft(i) \in 0..HdrUnits
      /\ BodyHave(i, s) \in 0..(PayUnits - 1)
  BY <1>0, ReadNumbers DEF Reading
<1>2. PeerTypeOK'
  BY <1>0, <1>1, ConsumeType DEF BodyBlocks, BodyEof, BodyReset
<1>3. slot' \in [Agents -> [Slots -> Slot]]
  <2>1. CASE BodyBlocks(i, s)
    <3> DEFINE m == BodyHave(i, s) + Avail(i) - HdrLeft(i)
               r == [slot[i][s] EXCEPT !.inUse = TRUE, !.sent = m]
    <3>1. m \in 0..(PayUnits - 1)
      <4>1. /\ Avail(i) >= HdrLeft(i)
            /\ Avail(i) - HdrLeft(i) < PayUnits - BodyHave(i, s)
        BY <2>1 DEF BodyBlocks, BodyShort, BodyLeft
      <4> QED
        BY <1>1, <4>1, UnitsAssumption
    <3>2. slot' = [slot EXCEPT ![i][s] = r]
      BY <2>1 DEF BodyBlocks, Claimed
    <3> HIDE DEF m
    <3>3. slot[i][s] \in Slot
      BY <1>0 DEF SlotTypeOK
    <3>4. r \in Slot
      BY <3>1, <3>3, SlotContents
    <3> HIDE DEF r
    <3> QED
      BY <1>0, <3>2, <3>4, SlotUpdate
  <2>2. CASE BodyEof(i, s) \/ BodyReset(i, s)
    BY <1>0, <2>2, ClaimedType DEF BodyEof, BodyReset
  <2> QED
    BY <2>1, <2>2
<1>4. /\ indexIn' = [indexIn EXCEPT ![i] = s]
      /\ UNCHANGED <<recvSeq, table, agentSock>>
      /\ HostLeftAlone
  BY DEF BodyBlocks, BodyEof, BodyReset, HostLeftAlone
<1>5. /\ needHdr' \in [Agents -> 0..(HdrUnits - 1)]
      /\ needHdr' = [needHdr EXCEPT ![i] = 0]
      /\ queueCount' \in [Agents -> Int]
  BY <1>0, CountPacketType DEF BodyBlocks, BodyEof, BodyReset
<1>6. SlotTypeOK' /\ ReadStateOK'
  BY <1>0, <1>3, <1>4, <1>5, SlotsType DEF SlotTypeOK, ReadStateOK
<1>7. pc' \in PCs /\ pc' # "deliver" /\ agentMask' \in [Agents -> Masks]
  <2>1. CASE BodyBlocks(i, s) \/ BodyReset(i, s)
    BY <1>0, <2>1 DEF BodyBlocks, BodyReset, PCs, ChildTypeOK
  <2>2. CASE BodyEof(i, s)
    BY <1>0, <2>2, LeavePoolType DEF Reading, BodyEof, PCs
  <2> QED
    BY <2>1, <2>2
<1> QED
  BY <1>0, <1>2, <1>4, <1>6, <1>7, HostLeftAloneType DEF InboundTyped, ChildTypeOK

\* The packet is complete, and goes to the host or to the table.
LEMMA PacketCompleteType ==
  ASSUME TypeInv, NEW i \in Agents, NEW s \in Slots, Reading(i, s),
         PacketComplete(i, s)
  PROVE  InboundTyped
<1>0. /\ ChildTypeOK /\ SlotTypeOK /\ OutTypeOK /\ PeerTypeOK /\ HostTypeOK
      /\ ReadStateOK /\ OutKnown
  BY DEF TypeInv, TypeOK
<1> DEFINE n == HdrLeft(i) + BodyLeft(i, s)
           q == wireIn[i][n][1]
           r == [slot[i][s] EXCEPT !.inUse = TRUE, !.seq = q]
<1>1. n \in Nat /\ n >= 1
  <2>1. /\ HdrLeft(i) \in 0..HdrUnits
        /\ BodyLeft(i, s) \in 1..PayUnits
    BY <1>0, ReadNumbers DEF Reading
  <2> QED
    BY <2>1, UnitsAssumption
<1>2. q \in Nat
  <2>1. wireIn[i] \in Seq(Unit) /\ n <= Len(wireIn[i]) /\ Len(wireIn[i]) \in Nat
    BY <1>0, LenProperties DEF PacketComplete, PeerTypeOK, Avail
  <2>2. n \in 1..Len(wireIn[i])
    BY <1>1, <2>1
  <2>3. wireIn[i][n] \in Unit
    BY <2>1, <2>2, ElementOfSeq
  <2> QED
    BY <2>3 DEF Unit
<1>3. slot' = [slot EXCEPT ![i][s] = r]
  BY DEF PacketComplete, Claimed
<1>4. /\ indexIn' = [indexIn EXCEPT ![i] = EMPTY]
      /\ table' = table \cup {<<i, s>>} \/ table' = table
      /\ UNCHANGED <<recvSeq, hostMask, hostSock, agentSock, outAgent, hostVars>>
  BY DEF PacketComplete
<1>5. /\ pc' = "deliver" => cur' = [agent |-> i, slot |-> s, size |-> 0]
      /\ cur' = [agent |-> i, slot |-> s, size |-> 0] \/ cur' = cur
      /\ indexOut' = s \/ indexOut' = indexOut
      /\ pc' \in {"top", "deliver"}
  BY DEF PacketComplete
<1>6. agentMask' \in [Agents -> Masks]
  <2>1. StopPolling(agentMask[i], "in") \in Masks
    BY <1>0, StopPollingMask DEF ChildTypeOK
  <2> QED
    BY <1>0, <2>1 DEF PacketComplete, ChildTypeOK
<1>7. PeerTypeOK'
  BY <1>0, <1>1, ConsumeType DEF PacketComplete
<1> HIDE DEF n, q
<1>8. slot' \in [Agents -> [Slots -> Slot]]
  <2>1. slot[i][s] \in Slot
    BY <1>0 DEF SlotTypeOK
  <2>2. r \in Slot
    BY <1>2, <2>1, SlotContents
  <2> HIDE DEF r
  <2> QED
    BY <1>0, <1>3, <2>2, SlotUpdate
<1>9. /\ needHdr' \in [Agents -> 0..(HdrUnits - 1)]
      /\ needHdr' = [needHdr EXCEPT ![i] = 0]
      /\ queueCount' \in [Agents -> Int]
  BY <1>0, CountPacketType DEF PacketComplete
<1>10. SlotTypeOK' /\ ReadStateOK'
  BY <1>0, <1>4, <1>8, <1>9 DEF SlotTypeOK, ReadStateOK
<1>11. OutTypeOK' /\ OutKnown'
  <2>1. 0 \in 0..(PayUnits - 1)
    BY UnitsAssumption
  <2> QED
    BY <1>0, <1>4, <1>5, <2>1 DEF OutTypeOK, OutKnown
<1>12. ChildTypeOK' /\ HostTypeOK'
  BY <1>0, <1>4, <1>5, <1>6 DEF ChildTypeOK, HostTypeOK, hostVars, PCs
<1> QED
  BY <1>7, <1>10, <1>11, <1>12 DEF InboundTyped

\* read_agent_send_host() keeps the types, whichever way it ends.
LEMMA AgentInType ==
  ASSUME TypeInv, NEW i \in Agents, AgentInEvent(i)
  PROVE  InboundTyped
<1>1. CASE NoSlot(i)
  BY <1>1
  DEF NoSlot, InboundTyped, TypeInv, TypeOK, recvVars, slotVars, outVars, peerVars,
      hostVars, ChildTypeOK, SlotTypeOK, OutTypeOK, PeerTypeOK, HostTypeOK,
      ReadStateOK, OutKnown, PCs, Aborts
<1>2. ASSUME NEW s \in Slots, WorkSlot(i, s),
             \/ HeaderBlocks(i, s) \/ HeaderEof(i, s) \/ HeaderReset(i, s)
             \/ BodyBlocks(i, s) \/ BodyEof(i, s) \/ BodyReset(i, s)
             \/ PacketComplete(i, s)
      PROVE  InboundTyped
  <2>1. Reading(i, s)
    BY <1>2 DEF AgentInEvent, Reading
  <2> QED
    BY <1>2, <2>1, HeaderType, BodyType, PacketCompleteType
<1> QED
  BY <1>1, <1>2 DEF AgentInEvent, ReadAgentSendHost

\* The part of packet cur that is put on the host socket.
LEMMA HostUnitsType ==
  ASSUME TypeInv, pc = "deliver", NEW n \in Nat, n <= Rest, n <= HostRoom,
         written' = written \o HostUnits(n), drained' = drained
  PROVE  HostTypeOK'
<1>0. SlotTypeOK /\ OutTypeOK /\ HostTypeOK /\ cur.agent \in Agents
  BY DEF TypeInv, TypeOK, OutKnown
<1>1. cur.slot \in Slots /\ cur.size \in Nat
  BY <1>0, UnitsAssumption DEF OutTypeOK
<1>2. slot[cur.agent][cur.slot].seq \in Nat
  BY <1>0, <1>1 DEF SlotTypeOK, Slot
<1>3. HostUnits(n) \in [1..n -> Unit]
  BY <1>1, <1>2 DEF HostUnits, Unit
<1>4. HostUnits(n) \in Seq(Unit) /\ Len(HostUnits(n)) = n
  BY <1>3
<1>5. written \in Seq(Unit) /\ Len(written) \in Nat
  BY <1>0, LenProperties DEF HostTypeOK
<1>6. written' \in Seq(Unit) /\ Len(written') = Len(written) + n
  BY <1>4, <1>5, ConcatUnits
<1>7. n <= HostCap - (Len(written) - drained) /\ HostCap \in Nat
  BY QueueAssumption DEF HostRoom
<1> QED
  BY <1>0, <1>5, <1>6, <1>7 DEF HostTypeOK

\* What send_data_host() computes with.
LEMMA DeliverNumbers ==
  ASSUME TypeInv, pc = "deliver"
  PROVE  /\ HostRoom \in Nat
         /\ Rest \in 1..PayUnits
         /\ cur.size \in 0..(PayUnits - 1)
         /\ cur.agent \in Agents /\ cur.slot \in Slots
<1>0. OutTypeOK /\ HostTypeOK /\ cur.agent \in Agents
  BY DEF TypeInv, TypeOK, OutKnown
<1>1. cur.size \in 0..(PayUnits - 1) /\ cur.slot \in Slots
  BY <1>0 DEF OutTypeOK
<1>2. Rest \in 1..PayUnits
  BY <1>1, UnitsAssumption DEF Rest
<1>3. Len(written) \in Nat
  BY <1>0, LenProperties DEF HostTypeOK
<1>4. HostRoom \in Nat
  BY <1>0, <1>3, QueueAssumption DEF HostRoom, HostTypeOK
<1> QED
  BY <1>0, <1>1, <1>2, <1>4

\* A packet the host takes whole, and the look-up of the next one.
LEMMA DeliverPacketType ==
  ASSUME TypeInv, pc = "deliver", DeliverPacket
  PROVE  InboundTyped
<1>0. /\ ChildTypeOK /\ SlotTypeOK /\ OutTypeOK /\ PeerTypeOK /\ HostTypeOK
      /\ ReadStateOK /\ OutKnown
  BY DEF TypeInv, TypeOK
<1>1. /\ HostRoom \in Nat /\ Rest \in 1..PayUnits
      /\ cur.agent \in Agents /\ cur.slot \in Slots
  BY DeliverNumbers
<1>2. HostTypeOK'
  <2>1. /\ Rest <= HostRoom
        /\ written' = written \o HostUnits(Rest) /\ drained' = drained
    BY DEF DeliverPacket
  <2>2. Rest \in Nat /\ Rest <= Rest
    BY <1>1, UnitsAssumption
  <2> QED
    BY <2>1, <2>2, HostUnitsType
<1>3. slot' \in [Agents -> [Slots -> Slot]]
  BY <1>0, <1>1, ClaimedType DEF DeliverPacket, Released
<1>4. agentMask' \in [Agents -> Masks]
  <2>1. PollFor(agentMask[cur.agent], "in") \in Masks
    BY <1>0, <1>1, PollForMask DEF ChildTypeOK
  <2> QED
    BY <1>0, <2>1 DEF DeliverPacket, MaskAfterDelivery, ChildTypeOK
<1>5. /\ queueCount' = [queueCount EXCEPT ![cur.agent] = @ - 1]
      /\ recvSeq' = recvSeq + 1
      /\ UNCHANGED <<hostMask, hostSock, agentSock, indexIn, needHdr, indexOut,
                     outAgent, peerVars>>
  BY DEF DeliverPacket
<1>6. /\ pc' \in {"top", "deliver", "epoll_ctl failed"}
      /\ table' \subseteq table
      /\ \/ cur' = cur
         \/ \E p \in table : cur' = [agent |-> p[1], slot |-> p[2], size |-> 0]
  BY DEF DeliverPacket
<1>7. cur' \in [agent : Agents, slot : Slots, size : 0..(PayUnits - 1)]
  <2>1. 0 \in 0..(PayUnits - 1)
    BY UnitsAssumption
  <2>2. cur \in [agent : Agents, slot : Slots, size : 0..(PayUnits - 1)]
    BY <1>0, <1>1 DEF OutTypeOK
  <2>3. \A p \in table : p[1] \in Agents /\ p[2] \in Slots
    BY <1>0 DEF SlotTypeOK
  <2>4. ASSUME NEW p \in table, cur' = [agent |-> p[1], slot |-> p[2], size |-> 0]
        PROVE  cur' \in [agent : Agents, slot : Slots, size : 0..(PayUnits - 1)]
    BY <2>1, <2>3, <2>4
  <2> QED
    BY <1>6, <2>2, <2>4
<1>8. SlotTypeOK' /\ ReadStateOK'
  <2>1. recvSeq' \in Nat /\ queueCount' \in [Agents -> Int]
    BY <1>0, <1>1, <1>5 DEF SlotTypeOK
  <2>2. table' \subseteq Agents \X Slots
    BY <1>0, <1>6 DEF SlotTypeOK
  <2> QED
    BY <1>0, <1>3, <1>5, <2>1, <2>2 DEF SlotTypeOK, ReadStateOK
<1>9. OutTypeOK' /\ OutKnown'
  BY <1>0, <1>5, <1>7 DEF OutTypeOK, OutKnown
<1>10. ChildTypeOK' /\ PeerTypeOK'
  BY <1>0, <1>4, <1>5, <1>6 DEF ChildTypeOK, PeerTypeOK, PCs, Aborts, peerVars
<1> QED
  BY <1>2, <1>8, <1>9, <1>10 DEF InboundTyped

\* A packet that is cut short by a full host socket.
LEMMA DeliverBlocksType ==
  ASSUME TypeInv, pc = "deliver", DeliverBlocks
  PROVE  InboundTyped
<1>0. /\ ChildTypeOK /\ SlotTypeOK /\ OutTypeOK /\ PeerTypeOK /\ HostTypeOK
      /\ ReadStateOK /\ OutKnown
  BY DEF TypeInv, TypeOK
<1>1. /\ HostRoom \in Nat /\ Rest \in 1..PayUnits
      /\ cur.size \in 0..(PayUnits - 1)
      /\ cur.agent \in Agents /\ cur.slot \in Slots
  BY DeliverNumbers
<1>2. HostTypeOK'
  <2>1. /\ Rest > HostRoom
        /\ written' = written \o HostUnits(HostRoom) /\ drained' = drained
    BY DEF DeliverBlocks
  <2>2. HostRoom <= Rest /\ HostRoom <= HostRoom
    BY <1>1, <2>1, UnitsAssumption
  <2> QED
    BY <1>1, <2>1, <2>2, HostUnitsType
<1>3. slot' \in [Agents -> [Slots -> Slot]]
  <2> DEFINE m == cur.size + HostRoom
             r == [slot[cur.agent][cur.slot] EXCEPT !.sent = m]
  <2>1. m \in 0..(PayUnits - 1)
    <3>1. PayUnits - cur.size > HostRoom
      BY DEF DeliverBlocks, Rest
    <3> QED
      BY <1>1, <3>1, UnitsAssumption
  <2>2. slot[cur.agent][cur.slot] \in Slot
    BY <1>0, <1>1 DEF SlotTypeOK
  <2>3. slot' = [slot EXCEPT ![cur.agent][cur.slot] = r]
    BY DEF DeliverBlocks
  <2> HIDE DEF m
  <2>4. r \in Slot
    BY <2>1, <2>2, SlotContents
  <2> HIDE DEF r
  <2> QED
    BY <1>0, <1>1, <2>3, <2>4, SlotUpdate
<1>4. /\ indexOut' = cur.slot /\ outAgent' = cur.agent
      /\ pc' \in {"top", "host not pollable"}
      /\ hostMask' = PollFor(hostMask, "out") \/ hostMask' = hostMask
      /\ UNCHANGED <<agentMask, hostSock, agentSock, recvSeq, indexIn, needHdr,
                     queueCount, table, cur, peerVars>>
  BY DEF DeliverBlocks, RememberOut
<1>5. hostMask' \in Masks
  BY <1>0, <1>4, PollForMask DEF ChildTypeOK
<1>6. SlotTypeOK' /\ ReadStateOK'
  BY <1>0, <1>3, <1>4 DEF SlotTypeOK, ReadStateOK
<1>7. OutTypeOK' /\ OutKnown'
  BY <1>0, <1>1, <1>4 DEF OutTypeOK, OutKnown
<1>8. ChildTypeOK' /\ PeerTypeOK'
  BY <1>0, <1>4, <1>5 DEF ChildTypeOK, PeerTypeOK, PCs, Aborts, peerVars
<1> QED
  BY <1>2, <1>6, <1>7, <1>8 DEF InboundTyped

\* send_data_host() keeps the types, whichever way it ends.
LEMMA DeliverType ==
  ASSUME TypeInv, Deliver
  PROVE  InboundTyped
<1>1. CASE DeliverReset \/ DeliverError
  <2>1. /\ hostMask' \in {hostMask, CLOSED} /\ hostSock' \in {hostSock, "closed"}
        /\ pc' \in {"top", "exit", "epoll_ctl failed"}
        /\ UNCHANGED <<agentMask, agentSock, recvVars>>
    BY <1>1 DEF DeliverReset, DeliverError
  <2>2. hostMask' \in Masks /\ ("out" \in hostMask' => "out" \in hostMask)
    BY <2>1 DEF TypeInv, TypeOK, ChildTypeOK, Masks, CLOSED
  <2> QED
    BY <2>1, <2>2
    DEF InboundTyped, TypeInv, TypeOK, recvVars, slotVars, outVars, peerVars,
        hostVars, ChildTypeOK, SlotTypeOK, OutTypeOK, PeerTypeOK, HostTypeOK,
        ReadStateOK, OutKnown, PCs, Aborts, SockStates
<1> QED
  BY <1>1, DeliverPacketType, DeliverBlocksType DEF Deliver

\* Taking up a packet that was cut short keeps the types.
LEMMA HostOutType ==
  ASSUME TypeInv, HostOutEvent
  PROVE  InboundTyped
<1>1. outAgent \in Agents /\ indexOut \in Slots
  BY DEF TypeInv, TypeOK, HostOutEvent, OutKnown, OutTypeOK
<1>2. SavedSize \in 0..(PayUnits - 1)
  BY <1>1 DEF TypeInv, TypeOK, SlotTypeOK, Slot, SavedSize
<1>3. hostMask' \in Masks /\ "out" \notin hostMask'
  BY StopPollingMask DEF HostOutEvent, TypeInv, TypeOK, ChildTypeOK
<1>4. /\ cur' = [agent |-> outAgent, slot |-> indexOut, size |-> SavedSize]
      /\ pc' = "deliver"
      /\ UNCHANGED <<agentMask, hostSock, agentSock, slotVars, indexOut, outAgent,
                     peerVars, hostVars>>
  BY DEF HostOutEvent
<1> QED
  BY <1>1, <1>2, <1>3, <1>4
  DEF InboundTyped, TypeInv, TypeOK, slotVars, peerVars, hostVars, ChildTypeOK,
      SlotTypeOK, OutTypeOK, PeerTypeOK, HostTypeOK, ReadStateOK, OutKnown, PCs

(***************************************************************************)
(* The environment keeps the types.                                        *)
(***************************************************************************)

\* The peer puts units of a packet on a connection.
LEMMA PeerPutType ==
  ASSUME PeerTypeOK, NEW i \in Agents, NEW p \in Packet, NEW n \in Nat,
         Peer!Put(i, p, n)
  PROVE  /\ wireIn' \in [Agents -> Seq(Unit)]
         /\ peerPkt' \in [Agents -> Packet]
         /\ peerUp' = peerUp
<1>1. Peer!Units(p, n) = Units(p, n) /\ n <= p.left
  BY DEF Peer!Put, Peer!Units, Units
<1>2. Peer!Units(p, n) \in Seq(Unit)
  BY <1>1, UnitsType
<1>3. wireIn[i] \in Seq(Unit)
  BY DEF PeerTypeOK
<1>4. wireIn[i] \o Peer!Units(p, n) \in Seq(Unit)
  BY <1>2, <1>3, ConcatUnits
<1>5. Peer!After(p, n) \in Packet
  <2>1. p.left \in Nat /\ p.left <= PktUnits /\ PktUnits \in Nat
    BY UnitsAssumption DEF Packet, PktUnits
  <2>2. 0 \in 0..PktUnits /\ (n # p.left => p.left - n \in 0..PktUnits)
    BY <1>1, <2>1
  <2> QED
    BY <2>2 DEF Peer!After, Peer!EmptyPacket, Packet
<1> QED
  BY <1>4, <1>5 DEF Peer!Put, PeerTypeOK

\* What the peer does keeps its connections typed.
LEMMA PeerActsType ==
  ASSUME PeerTypeOK, PeerSends \/ PeerCloses \/ PeerDies
  PROVE  PeerTypeOK'
<1>0. PktUnits \in Nat
  BY UnitsAssumption DEF PktUnits
<1>1. ASSUME NEW i \in Agents, NEW n \in 0..PktUnits, Peer!Take(i, n)
      PROVE  PeerTypeOK'
  <2> DEFINE p == [seq |-> peerSeq, left |-> PktUnits]
  <2>1. p \in Packet /\ n \in Nat
    BY <1>0 DEF Packet, PeerTypeOK
  <2>2. Peer!Put(i, p, n) /\ peerSeq' \in Nat
    BY <1>1 DEF Peer!Take, PeerTypeOK
  <2> HIDE DEF p
  <2> QED
    BY <2>1, <2>2, PeerPutType DEF PeerTypeOK
<1>2. ASSUME NEW i \in Agents, NEW n \in 0..PktUnits, Peer!Push(i, n)
      PROVE  PeerTypeOK'
  <2>1. /\ peerPkt[i] \in Packet /\ n \in Nat
        /\ Peer!Put(i, peerPkt[i], n) /\ peerSeq' = peerSeq
    BY <1>0, <1>2 DEF Peer!Push, PeerTypeOK
  <2> QED
    BY <2>1, PeerPutType DEF PeerTypeOK
<1>3. ASSUME NEW S, Peer!Close(S)
      PROVE  PeerTypeOK'
  <2>1. peerUp' \in [Agents -> BOOLEAN]
    BY <1>3, Zenon DEF Peer!Close
  <2> QED
    BY <1>3, <2>1 DEF Peer!Close, PeerTypeOK
<1>4. ASSUME NEW i \in Agents, Peer!GoesLost(i)
      PROVE  peerSeq' \in Nat /\ peerPkt' \in [Agents -> Packet]
  BY <1>0, <1>4 DEF Peer!GoesLost, PeerTypeOK, Packet
<1>5. ASSUME NEW i \in Agents, Peer!Lose(i)
      PROVE  PeerTypeOK'
  BY <1>4, <1>5 DEF Peer!Lose, PeerTypeOK
<1>6. ASSUME Peer!Die
      PROVE  PeerTypeOK'
  <2>1. peerUp' \in [Agents -> BOOLEAN] /\ wireIn' = wireIn
    BY <1>6, Zenon DEF Peer!Die
  <2>2. peerSeq' \in Nat /\ peerPkt' \in [Agents -> Packet]
    BY <1>4, <1>6 DEF Peer!Die, PeerTypeOK
  <2> QED
    BY <2>1, <2>2 DEF PeerTypeOK
<1> QED
  BY <1>1, <1>2, <1>3, <1>5, <1>6 DEF PeerSends, PeerCloses, PeerDies

\* A connection that breaks keeps a prefix of what had arrived.
LEMMA AgentBreaksType ==
  ASSUME TypeInv, NEW i \in Agents, AgentBreaks(i)
  PROVE  TypeInv'
<1>1. ChildTypeOK'
  BY DEF TypeInv, TypeOK, ChildTypeOK, AgentBreaks, SockStates
<1>2. SendTypeOK'
  <2>1. <<>> \in Seq(Unit) /\ Len(<<>>) = 0
    BY EmptySeq
  <2>2. wireOut' = [wireOut EXCEPT ![i] = <<>>]
    BY DEF AgentBreaks
  <2>3. /\ wireOut' \in [Agents -> Seq(Unit)]
        /\ \A j \in Agents : Len(wireOut'[j]) <= WireCap
    BY <2>1, <2>2, WireAssumption DEF TypeInv, TypeOK, SendTypeOK
  <2> QED
    BY <2>3 DEF TypeInv, TypeOK, SendTypeOK, AgentBreaks
<1>3. PeerTypeOK'
  <2>1. wireIn[i] \in Seq(Unit) /\ Len(wireIn[i]) \in Nat
    BY LenProperties DEF TypeInv, TypeOK, PeerTypeOK
  <2>2. \A n \in 0..Len(wireIn[i]) : SubSeq(wireIn[i], 1, n) \in Seq(Unit)
    BY <2>1, SubSeqProperties
  <2> QED
    BY <2>2 DEF TypeInv, TypeOK, PeerTypeOK, AgentBreaks, Peer!Reset
<1>4. UNCHANGED <<pc, hostMask, slotVars, outVars, hostVars>>
  BY DEF AgentBreaks
<1> QED
  BY <1>1, <1>2, <1>3, <1>4
  DEF TypeInv, TypeOK, slotVars, outVars, hostVars, SlotTypeOK, OutTypeOK,
      HostTypeOK, ReadStateOK, OutKnown

\* What the peer takes leaves the rest of the connection.
LEMMA PeerTakesType ==
  ASSUME TypeInv, NEW i \in Agents, PeerTakes(i)
  PROVE  TypeInv'
<1>1. wireOut[i] \in Seq(Unit) /\ wireOut[i] # <<>>
  BY DEF TypeInv, TypeOK, SendTypeOK, PeerTakes, WireDrain
<1>2. /\ Tail(wireOut[i]) \in Seq(Unit)
      /\ Len(Tail(wireOut[i])) = Len(wireOut[i]) - 1
      /\ Len(wireOut[i]) \in Nat
  BY <1>1, HeadTailProperties, LenProperties
<1>3. wireOut' = [wireOut EXCEPT ![i] = Tail(@)]
  BY DEF PeerTakes, WireDrain
<1>4. /\ wireOut' \in [Agents -> Seq(Unit)]
      /\ \A j \in Agents : Len(wireOut'[j]) <= WireCap
  BY <1>2, <1>3, WireAssumption DEF TypeInv, TypeOK, SendTypeOK
<1>5. UNCHANGED <<childVars, hostIn, hostEof, sendSeq, packet, recvVars>>
  BY DEF PeerTakes, WireDrain
<1> QED
  BY <1>4, <1>5
  DEF TypeInv, TypeOK, childVars, recvVars, slotVars, outVars, peerVars, hostVars,
      ChildTypeOK, SendTypeOK, SlotTypeOK, OutTypeOK, PeerTypeOK, HostTypeOK,
      ReadStateOK, OutKnown

\* What the host does keeps the types.
LEMMA HostActsType ==
  ASSUME TypeInv, HostWrites \/ HostCloses \/ HostReads \/ HostResets
  PROVE  TypeInv'
<1> USE DEF TypeInv, TypeOK, childVars, sendVars, recvVars, slotVars, outVars,
            peerVars, hostVars, ChildTypeOK, SendTypeOK, SlotTypeOK, OutTypeOK,
            PeerTypeOK, HostTypeOK, ReadStateOK, OutKnown
<1>1. CASE HostWrites
  <2>1. /\ hostIn' \in Nat
        /\ UNCHANGED <<childVars, hostEof, sendSeq, packet, wireOut, recvVars>>
    BY <1>1 DEF HostWrites, HostWrite
  <2> QED
    BY <2>1
<1>2. CASE HostCloses
  BY <1>2 DEF HostCloses, HostClose
<1>3. CASE HostReads
  <2>1. drained' \in 0..Len(written) /\ Len(written) - drained' <= HostCap
    BY <1>3, LenProperties, QueueAssumption DEF HostReads, HostTakes
  <2> QED
    BY <1>3, <2>1 DEF HostReads, HostTakes
<1>4. CASE HostResets
  BY <1>4 DEF HostResets, HostBreaks, SockStates
<1> QED
  BY <1>1, <1>2, <1>3, <1>4

(***************************************************************************)
(* The child.                                                              *)
(***************************************************************************)

\* A step of one half leaves the other half alone.
LEMMA OutboundStep ==
  ASSUME TypeInv, ChildTypeOK', SendTypeOK', OutboundFrame, UNCHANGED recvVars
  PROVE  TypeInv'
BY DEF TypeInv, TypeOK, OutboundFrame, recvVars, slotVars, outVars, peerVars,
       hostVars, SlotTypeOK, OutTypeOK, PeerTypeOK, HostTypeOK, ReadStateOK, OutKnown

\* Every step of the inbound half keeps TypeInv.
LEMMA InboundStep ==
  ASSUME TypeInv, InboundTyped, UNCHANGED sendVars
  PROVE  TypeInv'
BY DEF TypeInv, TypeOK, InboundTyped, sendVars, SendTypeOK

\* configure_poll() establishes TypeInv.
LEMMA TypeInit == Init => TypeInv
<1> SUFFICES ASSUME Init PROVE TypeInv
  OBVIOUS
<1> USE DEF Init
<1>1. ChildTypeOK
  BY DEF ChildInit, ChildTypeOK, PCs, Masks, SockStates
<1>2. <<>> \in Seq(Unit) /\ Len(<<>>) = 0
  BY EmptySeq
<1>3. EmptyPacket \in Packet /\ Peer!EmptyPacket \in Packet
  BY UnitsAssumption DEF EmptyPacket, Peer!EmptyPacket, Packet, PktUnits
<1>4. SendTypeOK
  <2>1. packet \in [Agents -> Packet] /\ wireOut \in [Agents -> Seq(Unit)]
    BY <1>2, <1>3 DEF SendInit
  <2>2. \A i \in Agents : Len(wireOut[i]) <= WireCap
    BY <1>2, WireAssumption DEF SendInit
  <2> QED
    BY <2>1, <2>2 DEF SendInit, SendTypeOK
<1>5. FreshSlot \in Slot /\ 0 \in 0..(HdrUnits - 1) /\ 0 \in 0..(PayUnits - 1)
  BY UnitsAssumption DEF FreshSlot, Slot
<1>6. SlotTypeOK
  BY <1>5 DEF RecvInit, SlotTypeOK
<1>7. OutTypeOK
  BY <1>5, SlotsType DEF RecvInit, OutTypeOK
<1>8. PeerTypeOK
  BY <1>2, <1>3 DEF RecvInit, PeerTypeOK, Peer!Init
<1>9. HostTypeOK
  BY <1>2, QueueAssumption DEF RecvInit, HostTypeOK
<1>10. ReadStateOK /\ OutKnown
  BY DEF RecvInit, ReadStateOK, OutKnown, ChildInit, MaskIN
<1> QED
  BY <1>1, <1>4, <1>6, <1>7, <1>8, <1>9, <1>10 DEF TypeInv, TypeOK

\* Every step of the child and of its environment keeps TypeInv.
LEMMA TypeStep == TypeInv /\ [Next]_vars => TypeInv'
<1> SUFFICES ASSUME TypeInv, [Next]_vars PROVE TypeInv'
  OBVIOUS
<1>0. ChildTypeOK /\ SendTypeOK /\ PeerTypeOK
  BY DEF TypeInv, TypeOK
<1>1. CASE LoopTop
  <2>1. SendTypeOK' /\ UNCHANGED recvVars
    BY <1>0, <1>1 DEF LoopTop, sendVars, SendTypeOK
  <2> QED
    BY <1>0, <1>1, <2>1, LoopTopType, OutboundStep
<1>2. CASE HostIn
  BY <1>0, <1>2, HostInType, OutboundStep DEF HostIn
<1>3. CASE HostOut
  BY <1>3, HostOutType, InboundStep DEF HostOut
<1>4. CASE SendDataHost
  BY <1>4, DeliverType, InboundStep DEF SendDataHost
<1>5. CASE HostWrites \/ HostCloses \/ HostReads \/ HostResets
  BY <1>5, HostActsType
<1>6. CASE PeerActs
  <2>1. PeerTypeOK' /\ UNCHANGED <<childVars, sendVars, slotVars, outVars, hostVars>>
    BY <1>0, <1>6, PeerActsType DEF PeerActs, PeerSends, PeerCloses, PeerDies
  <2> QED
    BY <2>1
    DEF TypeInv, TypeOK, childVars, sendVars, slotVars, outVars, hostVars,
        ChildTypeOK, SendTypeOK, SlotTypeOK, OutTypeOK, HostTypeOK, ReadStateOK,
        OutKnown
<1>7. ASSUME NEW i \in Agents, AgentOut(i) PROVE TypeInv'
  BY <1>0, <1>7, AgentOutType, OutboundStep DEF AgentOut
<1>8. ASSUME NEW i \in Agents, AgentIn(i) PROVE TypeInv'
  BY <1>8, AgentInType, InboundStep DEF AgentIn
<1>9. ASSUME NEW i \in Agents, PeerTakes(i) PROVE TypeInv'
  BY <1>9, PeerTakesType
<1>10. ASSUME NEW i \in Agents, AgentBreaks(i) PROVE TypeInv'
  BY <1>10, AgentBreaksType
<1>11. CASE Ended \/ UNCHANGED vars
  BY <1>11
  DEF Ended, vars, TypeInv, TypeOK, childVars, sendVars, recvVars, slotVars,
      outVars, peerVars, hostVars, ChildTypeOK, SendTypeOK, SlotTypeOK, OutTypeOK,
      PeerTypeOK, HostTypeOK, ReadStateOK, OutKnown
<1> QED
  BY <1>1, <1>2, <1>3, <1>4, <1>5, <1>6, <1>7, <1>8, <1>9, <1>10, <1>11 DEF Next

\* TypeInv holds in every reachable state.
LEMMA TypeInvariant == Spec => []TypeInv
BY TypeInit, TypeStep, PTL DEF Spec

\* Every variable of a child keeps its type, for any number of connections and
\* any sizes: masks are masks of datatypes.h, remembered packets fit a packet,
\* host_sent_size stays below the size of a body, and no socket buffer holds
\* more than it can, whatever the host, the peer and the network do.
THEOREM TypeCorrect == Spec => []TypeOK
BY TypeInvariant, PTL DEF TypeInv

(***************************************************************************)
(* Outbound polling: no remainder is forgotten, and no connection wakes    *)
(* the child for nothing.                                                  *)
(***************************************************************************)

\* What read_host_send_agent() relies on for connection j, and restores.
PolledAs(hm, am, j) ==
  /\ Pending(j) /\ agentSock[j] # "closed" /\ am[j] # CLOSED => "out" \in am[j]
  /\ "out" \in am[j] /\ ~Pending(j) => "in" \notin hm

PollingInv == Running => \A j \in Agents : PolledAs(hostMask, agentMask, j)

\* The send loop on connection i, whose mask at this point may say "not polled".
LEMMA SendPolling ==
  ASSUME ChildTypeOK, SendTypeOK,
         NEW i \in Agents, NEW p \in Packet, NEW hm, NEW am \in [Agents -> Masks],
         \A j \in Agents \ {i} : PolledAs(hm, am, j),
         "out" \in am[i] => "in" \notin hm,
         hostMask' = hm,
         Send(i, p, am)
  PROVE  PollingInv'
<1>1. CASE SendSome(i, p, am)
  <2> DEFINE n == Sendable(i, p)
  <2>1. n \in Nat /\ n <= p.left /\ p.left \in Nat
    <3>1. p.left \in Nat
      BY UnitsAssumption DEF Packet, PktUnits
    <3>2. Len(wireOut[i]) \in Nat /\ Len(wireOut[i]) <= WireCap
      BY LenProperties DEF SendTypeOK
    <3> QED
      BY <3>1, <3>2, WireAssumption DEF Sendable, Room
  <2>2. /\ packet' = [packet EXCEPT ![i] = AfterSend(p, n)]
        /\ agentMask' = MaskAfterSend(i, p, n, am)
        /\ agentSock' = agentSock
    BY <1>1 DEF SendSome
  <2> HIDE DEF n
  <2>3. \A j \in Agents \ {i} :
          packet'[j] = packet[j] /\ agentMask'[j] = am[j] /\ agentSock'[j] = agentSock[j]
    BY <2>2 DEF MaskAfterSend, SendTypeOK
  <2>4. \A j \in Agents \ {i} : PolledAs(hostMask, agentMask, j)'
    BY <2>3 DEF PolledAs, Pending
  <2>5. PolledAs(hostMask, agentMask, i)'
    <3>1. CASE n = p.left
      <4>1. packet'[i].left = 0 /\ agentMask'[i] = am[i]
        BY <2>2, <3>1 DEF AfterSend, EmptyPacket, MaskAfterSend, SendTypeOK
      <4> QED
        BY <4>1 DEF PolledAs, Pending
    <3>2. CASE n # p.left
      <4>1. packet'[i] = [p EXCEPT !.left = @ - n]
        BY <2>2, <3>2 DEF AfterSend, SendTypeOK
      <4>2. packet'[i].left = p.left - n
        BY <4>1 DEF Packet
      <4>3. packet'[i].left > 0
        BY <2>1, <3>2, <4>2
      <4>4. agentMask'[i] = PollFor(am[i], "out")
        BY <2>2, <3>2 DEF MaskAfterSend
      <4>5. agentMask'[i] # CLOSED => "out" \in agentMask'[i]
        BY <4>4, PollForMask
      <4> QED
        BY <4>3, <4>5 DEF PolledAs, Pending
    <3> QED
      BY <3>1, <3>2
  <2> QED
    BY <2>4, <2>5 DEF PollingInv
<1>2. CASE SendReset(i, p, am)
  <2>1. CASE Registered(am[i])
    <3>1. /\ agentMask' = [am EXCEPT ![i] = OFF]
          /\ agentSock' = [agentSock EXCEPT ![i] = "closed"]
          /\ packet' = [packet EXCEPT ![i] = p]
      BY <1>2, <2>1 DEF SendReset
    <3>2. \A j \in Agents \ {i} :
            packet'[j] = packet[j] /\ agentMask'[j] = am[j] /\ agentSock'[j] = agentSock[j]
      BY <3>1 DEF SendTypeOK, ChildTypeOK
    <3>3. agentMask'[i] = OFF /\ agentSock'[i] = "closed"
      BY <3>1 DEF ChildTypeOK
    <3> QED
      BY <3>2, <3>3 DEF PollingInv, PolledAs, Pending, OFF
  <2>2. CASE ~Registered(am[i])
    BY <1>2, <2>2 DEF SendReset, PollingInv, Running, Terminated, Aborts
  <2> QED
    BY <2>1, <2>2
<1>3. CASE SendPipe(i, p, am)
  BY <1>3 DEF SendPipe, PollingInv, Running, Terminated
<1> QED
  BY <1>1, <1>2, <1>3 DEF Send

\* read_host_send_agent() leaves every connection polled as it must be.
LEMMA ReadHostSendAgentPolling ==
  ASSUME ChildTypeOK, SendTypeOK,
         NEW i \in Agents, NEW hm, NEW am, PassedMasks(hm, am),
         \A j \in Agents : PolledAs(hm, am, j),
         ReadHostSendAgent(i, hm, am)
  PROVE  PollingInv'
<1>0. hm \in Masks /\ am \in [Agents -> Masks]
  BY DEF PassedMasks
<1>1. CASE SendRest(i, hm, am)
  <2>1. CASE "out" \in am[i]
    <3> DEFINE am2 == [am EXCEPT ![i] = StopPolling(@, "out")]
    <3>1. am2[i] \in Masks /\ "out" \notin am2[i]
      BY <1>0, StopPollingMask
    <3>2. am2 \in [Agents -> Masks] /\ \A j \in Agents \ {i} : am2[j] = am[j]
      BY <1>0, <3>1
    <3>3. \A j \in Agents \ {i} : PolledAs(hm, am2, j)
      BY <3>2 DEF PolledAs
    <3>4. packet[i] \in Packet /\ Send(i, packet[i], am2) /\ hostMask' = hm
      BY <1>1, <2>1 DEF SendRest, SendTypeOK
    <3> HIDE DEF am2
    <3> QED
      BY <3>1, <3>2, <3>3, <3>4, SendPolling
  <2>2. CASE "out" \notin am[i]
    BY <1>1, <2>2 DEF SendRest, PollingInv, Running, Terminated, Aborts
  <2> QED
    BY <2>1, <2>2
<1>2. CASE SendNew(i, hm, am)
  <2> DEFINE p == [seq |-> sendSeq, left |-> PktUnits]
  <2>1. p \in Packet
    BY UnitsAssumption DEF Packet, PktUnits, SendTypeOK
  <2>2. Send(i, p, am) /\ hostMask' = hm
    BY <1>2 DEF SendNew
  <2>3. "out" \in am[i] => "in" \notin hm
    BY <1>2 DEF SendNew, PolledAs
  <2> HIDE DEF p
  <2> QED
    BY <1>0, <2>1, <2>2, <2>3, SendPolling
<1>3. CASE HostNothing(i, hm, am)
  BY <1>3 DEF HostNothing, PollingInv, PolledAs, Pending, sendVars
<1>4. CASE HostEnded(i, hm, am)
  <2>1. /\ agentMask' = am /\ agentSock' = agentSock /\ packet' = packet
        /\ hostMask' = CLOSED \/ hostMask' = hm
    BY <1>4 DEF HostEnded, sendVars
  <2>2. "in" \in hostMask' => "in" \in hm
    BY <2>1 DEF CLOSED
  <2> QED
    BY <2>1, <2>2 DEF PollingInv, PolledAs, Pending
<1> QED
  BY <1>1, <1>2, <1>3, <1>4 DEF ReadHostSendAgent

\* The calls poll_data_transfer() makes, each with its masks.
LEMMA HostInPolling ==
  ASSUME TypeInv, PollingInv, HostInEvent \/ HostInError
  PROVE  PollingInv'
<1>0. ChildTypeOK /\ SendTypeOK /\ PassedMasks(hostMask, agentMask)
  BY DEF TypeInv, TypeOK, PassedMasks, ChildTypeOK
<1>1. CASE HostInError
  BY <1>1 DEF HostInError, PollingInv, Running, Terminated
<1>2. \A j \in Agents : PolledAs(hostMask, agentMask, j)
  BY DEF PollingInv, HostInEvent, HostInError, Running, Terminated, Aborts
<1>3. ASSUME NEW i \in Agents, ReadHostSendAgent(i, hostMask, agentMask)
      PROVE  PollingInv'
  BY <1>0, <1>2, <1>3, ReadHostSendAgentPolling
<1>4. CASE HostInEvent /\ AllAgentsSocksFull
  <2>1. \A j \in Agents :
          agentMask'[j] # CLOSED => "out" \in agentMask'[j]
    <3>1. \A j \in Agents : agentMask'[j] = PollFor(agentMask[j], "out")
      BY <1>4 DEF AllAgentsSocksFull
    <3> QED
      BY <1>0, <3>1, PollForMask DEF ChildTypeOK
  <2>2. "in" \notin hostMask'
    <3>1. hostMask \in {MaskIN, INAndOut}
      BY <1>0, <1>4
      DEF ChildTypeOK, HostInEvent, Masks, OFF, MaskIN, OUT, INAndOut, CLOSED
    <3> QED
      BY <1>0, <1>4, <3>1, StopPollingMask DEF AllAgentsSocksFull, ChildTypeOK
  <2> QED
    BY <2>1, <2>2 DEF PollingInv, PolledAs
<1> QED
  BY <1>1, <1>3, <1>4 DEF HostInEvent

\* So does the EPOLLOUT event, which may resume the host first.
LEMMA AgentOutPolling ==
  ASSUME TypeInv, PollingInv, NEW i \in Agents, AgentOutEvent(i)
  PROVE  PollingInv'
<1>0. ChildTypeOK /\ SendTypeOK
  BY DEF TypeInv, TypeOK
<1>1. \A j \in Agents : PolledAs(hostMask, agentMask, j)
  BY DEF PollingInv, AgentOutEvent, Running, Terminated, Aborts
<1>2. CASE ReadHostSendAgent(i, hostMask, agentMask)
  BY <1>0, <1>1, <1>2, ReadHostSendAgentPolling DEF PassedMasks, ChildTypeOK
<1>3. CASE ReadHostSendAgent(i, HostResumed, AgentsResumed)
  <2>1. /\ HostResumed \in Masks
        /\ "out" \in HostResumed => "out" \in hostMask
    BY <1>0, PollForMask DEF HostResumed, ChildTypeOK
  <2>2. \A j \in Agents :
          /\ StopPolling(agentMask[j], "out") \in Masks
          /\ agentMask[j] = CLOSED => StopPolling(agentMask[j], "out") = CLOSED
          /\ "out" \notin StopPolling(agentMask[j], "out")
    BY <1>0, StopPollingMask DEF ChildTypeOK
  <2>3. /\ AgentsResumed \in [Agents -> Masks]
        /\ \A j \in Agents : agentMask[j] = CLOSED => AgentsResumed[j] = CLOSED
    BY <1>0, <2>2 DEF AgentsResumed, ChildTypeOK
  <2>4. \A j \in Agents : /\ Pending(j) => AgentsResumed[j] = agentMask[j]
                          /\ ~Pending(j) => "out" \notin AgentsResumed[j]
    BY <2>2 DEF AgentsResumed
  <2>5. \A j \in Agents : PolledAs(HostResumed, AgentsResumed, j)
    BY <1>1, <2>4 DEF PolledAs
  <2> QED
    BY <1>0, <1>3, <2>1, <2>3, <2>5, ReadHostSendAgentPolling DEF PassedMasks
<1> QED
  BY <1>2, <1>3 DEF AgentOutEvent

\* Connections closed at the head of the loop owe nothing.
LEMMA LoopTopPolling ==
  ASSUME TypeInv, PollingInv, LoopTop
  PROVE  PollingInv'
<1>1. \A j \in Agents : PolledAs(hostMask, agentMask, j)
  BY DEF PollingInv, LoopTop, Running, Terminated, Aborts
<1>2. packet' = packet /\ hostMask' = hostMask
  BY DEF LoopTop, sendVars
<1>3. CASE CloseIdle
  <2>1. \A j \in Agents :
          /\ Pending(j) => agentMask'[j] = agentMask[j] /\ agentSock'[j] = agentSock[j]
          /\ ~Pending(j) => agentMask'[j] = CLOSED
    BY <1>3 DEF CloseIdle
  <2> QED
    BY <1>1, <1>2, <2>1 DEF PollingInv, PolledAs, Pending, CLOSED
<1>4. CASE CloseHost
  BY <1>1, <1>2, <1>4 DEF CloseHost, PollingInv, PolledAs, Pending
<1> QED
  BY <1>3, <1>4 DEF LoopTop

\* A step that neither polls for output nor stops it, and does not start to
\* read the host.
QuietMasks ==
  /\ packet' = packet
  /\ "in" \in hostMask' => "in" \in hostMask
  /\ \A j \in Agents :
       \/ agentMask'[j] = CLOSED
       \/ /\ "out" \in agentMask'[j] <=> "out" \in agentMask[j]
          /\ agentMask[j] # CLOSED
       \/ agentMask'[j] = agentMask[j]
  /\ \A j \in Agents : agentSock[j] = "closed" => agentSock'[j] = "closed"
  /\ Running' => Running

\* Steps that leave packets alone and masks no worse keep PollingInv.
LEMMA QuietPolling ==
  ASSUME PollingInv, QuietMasks
  PROVE  PollingInv'
BY DEF PollingInv, QuietMasks, PolledAs, Pending, CLOSED

\* read_agent_send_host() changes polling for input only.
LEMMA AgentInQuiet ==
  ASSUME TypeInv, NEW i \in Agents, AgentIn(i)
  PROVE  QuietMasks
<1>0. ChildTypeOK /\ "in" \in agentMask[i] /\ pc = "wait"
  BY DEF TypeInv, TypeOK, AgentIn, AgentInEvent
<1>1. /\ packet' = packet /\ hostMask' = hostMask
      /\ agentSock' \in {agentSock, [agentSock EXCEPT ![i] = "closed"]}
  BY DEF AgentIn, AgentInEvent, ReadAgentSendHost, sendVars, NoSlot, HeaderBlocks,
         HeaderEof, HeaderReset, BodyBlocks, BodyEof, BodyReset, PacketComplete
<1>2. \/ agentMask' = agentMask
      \/ agentMask' = [agentMask EXCEPT ![i] = CLOSED]
      \/ agentMask' = [agentMask EXCEPT ![i] = StopPolling(@, "in")]
  BY DEF AgentIn, AgentInEvent, ReadAgentSendHost, NoSlot, HeaderBlocks, HeaderEof,
         HeaderReset, BodyBlocks, BodyEof, BodyReset, PacketComplete, LeavePool
<1>3. /\ agentMask[i] # CLOSED
      /\ "out" \in StopPolling(agentMask[i], "in") <=> "out" \in agentMask[i]
  BY <1>0, PolledMask, StopPollingMask DEF ChildTypeOK
<1>4. \A j \in Agents :
        \/ agentMask'[j] = CLOSED
        \/ /\ "out" \in agentMask'[j] <=> "out" \in agentMask[j]
           /\ agentMask[j] # CLOSED
        \/ agentMask'[j] = agentMask[j]
  BY <1>0, <1>2, <1>3 DEF ChildTypeOK
<1>5. \A j \in Agents : agentSock[j] = "closed" => agentSock'[j] = "closed"
  BY <1>0, <1>1 DEF ChildTypeOK
<1>6. Running
  BY <1>0 DEF Running, Terminated, Aborts
<1> QED
  BY <1>1, <1>4, <1>5, <1>6 DEF QuietMasks

\* So does send_data_host(), apart from the host's polling for output.
LEMMA SendDataHostQuiet ==
  ASSUME TypeInv, SendDataHost
  PROVE  QuietMasks
<1>0. ChildTypeOK /\ pc = "deliver" /\ cur.agent \in Agents
  BY DeliverNumbers DEF TypeInv, TypeOK, SendDataHost, Deliver
<1>1. packet' = packet /\ agentSock' = agentSock
  BY DEF SendDataHost, Deliver, sendVars, DeliverPacket, DeliverBlocks, DeliverReset,
         DeliverError
<1>2. /\ agentMask' \in {agentMask, MaskAfterDelivery}
      /\ hostMask' \in {hostMask, CLOSED, PollFor(hostMask, "out")}
  BY DEF SendDataHost, Deliver, DeliverPacket, DeliverBlocks, DeliverReset, DeliverError
<1>3. "in" \in hostMask' => "in" \in hostMask
  BY <1>0, <1>2, PollForMask DEF ChildTypeOK, CLOSED
<1>4. \A j \in Agents :
        \/ agentMask'[j] = CLOSED
        \/ /\ "out" \in agentMask'[j] <=> "out" \in agentMask[j]
           /\ agentMask[j] # CLOSED
        \/ agentMask'[j] = agentMask[j]
  <2>1. /\ PollFor(agentMask[cur.agent], "in") = CLOSED <=> agentMask[cur.agent] = CLOSED
        /\ "out" \in PollFor(agentMask[cur.agent], "in")
             <=> "out" \in agentMask[cur.agent]
    BY <1>0, PollForMask DEF ChildTypeOK
  <2> QED
    BY <1>0, <1>2, <2>1 DEF MaskAfterDelivery, ChildTypeOK
<1>5. Running
  BY <1>0 DEF Running, Terminated, Aborts
<1> QED
  BY <1>1, <1>3, <1>4, <1>5 DEF QuietMasks

\* The EPOLLOUT event of the host changes the host's mask only.
LEMMA HostOutQuiet ==
  ASSUME TypeInv, HostOut
  PROVE  QuietMasks
<1>1. "in" \in StopPolling(hostMask, "out") <=> "in" \in hostMask
  BY StopPollingMask DEF TypeInv, TypeOK, ChildTypeOK
<1> QED
  BY <1>1 DEF HostOut, HostOutEvent, QuietMasks, sendVars, Running, Terminated, Aborts

\* Every step of the child and of its environment keeps PollingInv.
LEMMA PollingStep == TypeInv /\ PollingInv /\ [Next]_vars => PollingInv'
<1> SUFFICES ASSUME TypeInv, PollingInv, [Next]_vars PROVE PollingInv'
  OBVIOUS
<1>1. CASE LoopTop
  BY <1>1, LoopTopPolling
<1>2. CASE HostIn
  BY <1>2, HostInPolling DEF HostIn
<1>3. CASE HostOut
  BY <1>3, HostOutQuiet, QuietPolling
<1>4. CASE SendDataHost
  BY <1>4, SendDataHostQuiet, QuietPolling
<1>5. ASSUME NEW i \in Agents, AgentOut(i) PROVE PollingInv'
  BY <1>5, AgentOutPolling DEF AgentOut
<1>6. ASSUME NEW i \in Agents, AgentIn(i) PROVE PollingInv'
  BY <1>6, AgentInQuiet, QuietPolling
<1>7. CASE HostWrites \/ HostCloses \/ HostReads \/ HostResets \/ PeerActs
  <2>1. UNCHANGED <<pc, hostMask, agentMask, agentSock, packet>>
    BY <1>7
    DEF HostWrites, HostCloses, HostReads, HostResets, PeerActs, HostWrite, HostClose,
        HostTakes, HostBreaks, PeerSends, PeerCloses, PeerDies, childVars, sendVars
  <2> QED
    BY <2>1, QuietPolling DEF QuietMasks, Running, Terminated
<1>8. ASSUME NEW i \in Agents, PeerTakes(i) \/ AgentBreaks(i) PROVE PollingInv'
  <2>1. /\ UNCHANGED <<pc, hostMask, agentMask, packet>>
        /\ agentSock' \in {agentSock, [agentSock EXCEPT ![i] = "reset"]}
        /\ agentSock' # agentSock => agentSock[i] = "open"
    BY <1>8 DEF PeerTakes, WireDrain, AgentBreaks, childVars
  <2>2. \A j \in Agents : agentSock[j] = "closed" => agentSock'[j] = "closed"
    BY <2>1 DEF TypeInv, TypeOK, ChildTypeOK
  <2> QED
    BY <2>1, <2>2, QuietPolling DEF QuietMasks, Running, Terminated
<1>9. CASE Ended \/ UNCHANGED vars
  BY <1>9, QuietPolling
  DEF Ended, vars, childVars, sendVars, QuietMasks, Running, Terminated
<1> QED
  BY <1>1, <1>2, <1>3, <1>4, <1>5, <1>6, <1>7, <1>8, <1>9 DEF Next

\* PollingInv holds in every reachable state.
LEMMA PollingInvariant == Spec => []PollingInv
<1>1. Init => PollingInv
  BY DEF Init, ChildInit, SendInit, EmptyPacket, PollingInv, PolledAs, Pending, MaskIN
<1> QED
  BY <1>1, TypeInvariant, PollingStep, PTL DEF Spec

\* Whatever the sizes and the number of connections, and in whatever order
\* events come: the rest of a packet that did not fit its socket is polled for
\* output until it is sent or the connection is given up.
THEOREM RemainderIsPolled == Spec => []PendingIsPolled
<1>1. PollingInv => PendingIsPolled
  BY DEF PollingInv, PolledAs, PendingIsPolled, Served
<1> QED
  BY <1>1, PollingInvariant, PTL

\* And a connection with nothing to send is polled for output only while the
\* host is paused, so a wake-up for output always has something to do.
THEOREM IdleIsQuiet == Spec => []NoIdleWakeup
<1>1. PollingInv => NoIdleWakeup
  BY DEF PollingInv, PolledAs, NoIdleWakeup
<1> QED
  BY <1>1, PollingInvariant, PTL

=============================================================================
