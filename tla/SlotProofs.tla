------------------------------ MODULE SlotProofs ------------------------------
(***************************************************************************)
(* Proofs about the slots of a child: every slot in use is counted and has *)
(* one owner, a connection is left unread exactly while its slots are all  *)
(* taken, and the one that brings the next packet is always read.          *)
(***************************************************************************)
EXTENDS InboundProofs, FiniteSetTheorems

(***************************************************************************)
(* The outbound half leaves polling for input, and the packet the host     *)
(* waits for, alone.                                                       *)
(***************************************************************************)

\* A connection that is still served was served, and is read if it was read.
SameReading(j) ==
  Served(j)' => Served(j) /\ ("in" \in agentMask'[j] <=> "in" \in agentMask[j])

\* A host that is still polled is polled for output if it was.
SameOutput ==
  hostMask' # CLOSED =>
    hostMask # CLOSED /\ ("out" \in hostMask' <=> "out" \in hostMask)

\* The masks read_host_send_agent() is given, and keeps.
ReadsAs(am) ==
  \A j \in Agents : am[j] # CLOSED =>
    agentMask[j] # CLOSED /\ ("in" \in am[j] <=> "in" \in agentMask[j])

\* Polling for output, or not, leaves polling for input.
LEMMA OtherDirection ==
  ASSUME NEW m \in Masks
  PROVE  /\ "in" \in StopPolling(m, "out") <=> "in" \in m
         /\ "in" \in PollFor(m, "out") <=> "in" \in m
         /\ "out" \in StopPolling(m, "in") <=> "out" \in m
         /\ "out" \in PollFor(m, "in") <=> "out" \in m
         /\ m = CLOSED => StopPolling(m, "out") = CLOSED /\ PollFor(m, "out") = CLOSED
BY DEF StopPolling, PollFor, CLOSED

\* The send loop changes nothing about what is read from connections.
LEMMA SendReading ==
  ASSUME ChildTypeOK, NEW i \in Agents, NEW p, NEW am \in [Agents -> Masks], ReadsAs(am),
         Send(i, p, am)
  PROVE  \A j \in Agents : SameReading(j)
<1>1. ASSUME agentMask' = am, agentSock' = agentSock PROVE \A j \in Agents : SameReading(j)
  BY <1>1 DEF SameReading, Served, ReadsAs
<1>2. CASE SendSome(i, p, am)
  <2>1. agentSock' = agentSock
    BY <1>2 DEF SendSome
  <2>2. CASE agentMask' = am
    BY <1>1, <2>1, <2>2
  <2>3. CASE agentMask' = [am EXCEPT ![i] = PollFor(@, "out")]
    BY <2>1, <2>3, OtherDirection DEF SameReading, Served, ReadsAs
  <2> QED
    BY <1>2, <2>2, <2>3 DEF SendSome, MaskAfterSend
<1>3. CASE SendReset(i, p, am)
  <2>1. CASE agentMask' = [am EXCEPT ![i] = OFF]
             /\ agentSock' = [agentSock EXCEPT ![i] = "closed"]
    BY <2>1 DEF SameReading, Served, ReadsAs, ChildTypeOK
  <2> QED
    BY <1>1, <1>3, <2>1 DEF SendReset
<1>4. CASE SendPipe(i, p, am)
  BY <1>1, <1>4 DEF SendPipe
<1> QED
  BY <1>2, <1>3, <1>4 DEF Send

\* So does read_host_send_agent().
LEMMA ReadHostSendAgentReading ==
  ASSUME ChildTypeOK, NEW i \in Agents, NEW hm \in Masks, NEW am \in [Agents -> Masks],
         ReadsAs(am),
         hm # CLOSED => hostMask # CLOSED /\ ("out" \in hm <=> "out" \in hostMask),
         ReadHostSendAgent(i, hm, am)
  PROVE  SameOutput /\ \A j \in Agents : SameReading(j)
<1>1. SameOutput
  <2>1. hostMask' = hm \/ hostMask' = CLOSED
    BY DEF ReadHostSendAgent, SendRest, SendNew, HostNothing, HostEnded
  <2> QED
    BY <2>1 DEF SameOutput
<1>2. ASSUME agentMask' = am, agentSock' = agentSock PROVE \A j \in Agents : SameReading(j)
  BY <1>2 DEF SameReading, Served, ReadsAs
<1>3. CASE SendRest(i, hm, am) /\ "out" \in am[i]
  <2> DEFINE am2 == [am EXCEPT ![i] = StopPolling(@, "out")]
  <2>1. StopPolling(am[i], "out") \in Masks /\ am[i] # CLOSED
    BY <1>3, StopPollingMask, PolledMask
  <2>2. am2 \in [Agents -> Masks] /\ ReadsAs(am2)
    BY <2>1, OtherDirection DEF ReadsAs
  <2>3. Send(i, packet[i], am2)
    BY <1>3 DEF SendRest
  <2> HIDE DEF am2
  <2> QED
    BY <1>1, <2>2, <2>3, SendReading
<1>4. CASE SendNew(i, hm, am)
  <2>1. Send(i, [seq |-> sendSeq, left |-> PktUnits], am)
    BY <1>4 DEF SendNew
  <2> QED
    BY <1>1, <2>1, SendReading
<1>5. CASE \/ SendRest(i, hm, am) /\ "out" \notin am[i]
           \/ HostNothing(i, hm, am) \/ HostEnded(i, hm, am)
  <2>1. agentMask' = am /\ agentSock' = agentSock
    BY <1>5 DEF SendRest, HostNothing, HostEnded
  <2> QED
    BY <1>1, <1>2, <2>1
<1> QED
  BY <1>3, <1>4, <1>5 DEF ReadHostSendAgent

\* The loop head and the events of the outbound half.
LEMMA LoopReading ==
  ASSUME TypeInv, LoopTop \/ HostIn \/ \E i \in Agents : AgentOut(i)
  PROVE  SameOutput /\ \A j \in Agents : SameReading(j)
<1>0. ChildTypeOK
  BY DEF TypeInv, TypeOK
<1>1. ReadsAs(agentMask)
  BY DEF ReadsAs
<1>2. CASE LoopTop
  <2>1. /\ hostMask' = hostMask
        /\ \A j \in Agents : \/ agentMask'[j] = CLOSED
                             \/ agentMask'[j] = agentMask[j] /\ agentSock'[j] = agentSock[j]
    BY <1>0, <1>2 DEF LoopTop, CloseIdle, CloseHost, ChildTypeOK
  <2> QED
    BY <2>1 DEF SameOutput, SameReading, Served
<1>3. CASE HostIn
  <2>1. HostInEvent \/ HostInError
    BY <1>3 DEF HostIn
  <2>2. "in" \in hostMask
    BY <2>1 DEF HostInEvent, HostInError
  <2>3. hostMask # CLOSED /\ hostMask \in Masks /\ agentMask \in [Agents -> Masks]
    BY <1>0, <2>2, PolledMask DEF ChildTypeOK
  <2>4. CASE \E i \in Agents : ReadHostSendAgent(i, hostMask, agentMask)
    BY <1>0, <1>1, <2>3, <2>4, ReadHostSendAgentReading
  <2>5. CASE AllAgentsSocksFull
    <3>1. /\ hostMask' = hostMask \/ hostMask' = StopPolling(hostMask, "in")
          /\ agentMask' = [j \in Agents |-> PollFor(agentMask[j], "out")]
          /\ agentSock' = agentSock
      BY <2>5 DEF AllAgentsSocksFull
    <3>2. SameOutput
      BY <2>3, <3>1, OtherDirection DEF SameOutput
    <3>3. \A j \in Agents : SameReading(j)
      BY <2>3, <3>1, OtherDirection DEF SameReading, Served
    <3> QED
      BY <3>2, <3>3
  <2>6. CASE HostInError
    BY <2>3, <2>6 DEF HostInError, SameOutput, SameReading, Served
  <2> QED
    BY <2>1, <2>4, <2>5, <2>6 DEF HostInEvent
<1>4. ASSUME NEW i \in Agents, AgentOut(i)
      PROVE  SameOutput /\ \A j \in Agents : SameReading(j)
  <2>1. \/ ReadHostSendAgent(i, hostMask, agentMask)
        \/ ReadHostSendAgent(i, HostResumed, AgentsResumed)
    BY <1>4 DEF AgentOut, AgentOutEvent
  <2>2. hostMask \in Masks /\ agentMask \in [Agents -> Masks]
    BY <1>0 DEF ChildTypeOK
  <2>3. /\ HostResumed \in Masks
        /\ HostResumed # CLOSED => hostMask # CLOSED /\ ("out" \in HostResumed <=> "out" \in hostMask)
    BY <2>2, PollForMask DEF HostResumed
  <2>4. AgentsResumed \in [Agents -> Masks] /\ ReadsAs(AgentsResumed)
    BY <2>2, StopPollingMask, OtherDirection DEF AgentsResumed, ReadsAs
  <2> QED
    BY <1>0, <1>1, <2>1, <2>2, <2>3, <2>4, ReadHostSendAgentReading
<1> QED
  BY <1>2, <1>3, <1>4

(***************************************************************************)
(* The accounts of a connection.                                           *)
(***************************************************************************)

\* queue_count counts the slots in use but one whose header is being read; a packet
\* that is being read is in a slot in use; a connection is not read exactly while
\* its slots all hold whole packets.
Balanced(i) ==
  /\ Cardinality(InUse(i)) = queueCount[i] + (IF InHeader(i) THEN 1 ELSE 0)
  /\ indexIn[i] # EMPTY => slot[i][indexIn[i]].inUse
  /\ "in" \notin agentMask[i] <=> queueCount[i] = QueueSize /\ indexIn[i] = EMPTY

Book(i) == Served(i) => Balanced(i)

\* A connection has QueueSize slots.
LEMMA SlotCount ==
  ASSUME NEW i \in Agents
  PROVE  /\ IsFiniteSet(InUse(i)) /\ Cardinality(InUse(i)) \in Nat
         /\ Cardinality(InUse(i)) <= QueueSize
         /\ Cardinality(InUse(i)) = QueueSize => InUse(i) = Slots
<1>1. QueueSize \in Nat /\ QueueSize > 0
  BY QueueAssumption
<1>2. IsFiniteSet(Slots) /\ Cardinality(Slots) = QueueSize
  BY <1>1, FS_Interval DEF Slots
<1>3. InUse(i) \in SUBSET Slots
  BY DEF InUse
<1>4. /\ IsFiniteSet(InUse(i)) /\ Cardinality(InUse(i)) <= Cardinality(Slots)
      /\ Cardinality(Slots) = Cardinality(InUse(i)) => Slots = InUse(i)
  BY <1>2, <1>3, FS_Subset
<1> QED
  BY <1>2, <1>4, FS_CardinalityType

\* A connection whose slots all hold whole packets has no other packet.
LEMMA AllTaken ==
  ASSUME TypeInv, NEW i \in Agents, Served(i), Book(i), "in" \notin agentMask[i]
  PROVE  \A s \in Slots : Kept(i, s)
<1>1. queueCount[i] = QueueSize /\ indexIn[i] = EMPTY
  BY DEF Book, Balanced
<1>2. ~InHeader(i)
  BY <1>1 DEF InHeader
<1>3. Cardinality(InUse(i)) = QueueSize
  BY <1>1, <1>2, QueueAssumption DEF Book, Balanced
<1>4. InUse(i) = Slots
  BY <1>3, SlotCount
<1> QED
  BY <1>1, <1>4, SlotsType DEF InUse, Kept

\* Nothing of connection j changes but for its socket.
LEMMA SameBook ==
  ASSUME NEW j \in Agents, Book(j), SameReading(j),
         slot'[j] = slot[j], indexIn'[j] = indexIn[j], needHdr'[j] = needHdr[j],
         queueCount'[j] = queueCount[j]
  PROVE  Book(j)'
<1>1. InUse(j)' = InUse(j)
  BY DEF InUse
<1>2. InHeader(j)' = InHeader(j)
  BY DEF InHeader
<1> QED
  BY <1>1, <1>2 DEF Book, Balanced, SameReading

\* The slot of the packet that is read, and its connection.
LEMMA ReadSlot ==
  ASSUME TypeInv, NEW i \in Agents, NEW s \in Slots, Reading(i, s), Book(i)
  PROVE  /\ Served(i) /\ Balanced(i)
         /\ AtHeader(i) => ~slot[i][s].inUse
         /\ ~AtHeader(i) => slot[i][s].inUse /\ s = indexIn[i]
<1>1. Served(i) /\ Balanced(i)
  <2>1. agentMask[i] # CLOSED
    BY PolledMask DEF Reading, TypeInv, TypeOK, ChildTypeOK
  <2> QED
    BY <2>1 DEF Reading, AgentReadable, Served, Book
<1>2. ~AtHeader(i) => indexIn[i] # EMPTY /\ s = indexIn[i]
  BY DEF AtHeader, Reading, WorkSlot, TypeInv, ReadStateOK
<1> QED
  BY <1>1, <1>2 DEF Reading, WorkSlot, FreeIndex, Balanced

\* The slot is in use: the count of slots in use is what queue_count will be, or is.
LEMMA ReadCount ==
  ASSUME TypeInv, NEW i \in Agents, NEW s \in Slots, Reading(i, s), Book(i),
         ReadFrame(i, s), slot'[i][s].inUse
  PROVE  /\ queueCount[i] \in Int
         /\ Cardinality(InUse(i)') = IF InBody(i) THEN queueCount[i] ELSE queueCount[i] + 1
<1>1. queueCount[i] \in Int
  BY DEF TypeInv, TypeOK, SlotTypeOK
<1>2. InUse(i)' = InUse(i) \cup {s}
  BY DEF InUse, ReadFrame
<1>3. /\ IsFiniteSet(InUse(i)) /\ Cardinality(InUse(i)) \in Nat
      /\ Cardinality(InUse(i) \cup {s}) =
           IF s \in InUse(i) THEN Cardinality(InUse(i)) ELSE Cardinality(InUse(i)) + 1
  BY SlotCount, FS_AddElement
<1>4. /\ Balanced(i)
      /\ AtHeader(i) => s \notin InUse(i)
      /\ ~AtHeader(i) => s \in InUse(i)
  BY ReadSlot DEF InUse
<1>5. Cardinality(InUse(i)) = queueCount[i] + (IF InHeader(i) THEN 1 ELSE 0)
  BY <1>4 DEF Balanced
<1>6. CASE AtHeader(i)
  <2>1. ~InHeader(i) /\ ~InBody(i)
    BY <1>6 DEF AtHeader, InHeader, InBody
  <2> QED
    BY <1>1, <1>2, <1>3, <1>4, <1>5, <1>6, <2>1
<1>7. CASE InHeader(i)
  <2>1. ~AtHeader(i) /\ ~InBody(i)
    BY <1>7 DEF AtHeader, InHeader, InBody
  <2> QED
    BY <1>1, <1>2, <1>3, <1>4, <1>5, <1>7, <2>1
<1>8. CASE InBody(i)
  <2>1. ~AtHeader(i) /\ ~InHeader(i)
    BY <1>8 DEF InBody
  <2> QED
    BY <1>1, <1>2, <1>3, <1>4, <1>5, <1>8, <2>1
<1> QED
  BY <1>1, <1>6, <1>7, <1>8 DEF InBody

\* The connections that are not read keep their accounts.
LEMMA ReadOthersBook ==
  ASSUME TypeInv, NEW i \in Agents, NEW s \in Slots,
         \/ HeaderBlocks(i, s) \/ HeaderEof(i, s) \/ HeaderReset(i, s)
         \/ BodyBlocks(i, s) \/ BodyEof(i, s) \/ BodyReset(i, s) \/ PacketComplete(i, s),
         NEW j \in Agents, j # i, Book(j)
  PROVE  Book(j)'
<1>1. ReadFrame(i, s)
  BY ReadFrames
<1>2. queueCount'[j] = queueCount[j]
  BY DEF HeaderBlocks, HeaderEof, HeaderReset, BodyBlocks, BodyEof, BodyReset,
         PacketComplete, CountPacket, TypeInv, TypeOK, SlotTypeOK
<1>3. agentSock'[j] = agentSock[j]
  BY DEF HeaderBlocks, HeaderEof, HeaderReset, BodyBlocks, BodyEof, BodyReset,
         PacketComplete, TypeInv, TypeOK, ChildTypeOK
<1>4. /\ slot'[j] = slot[j] /\ indexIn'[j] = indexIn[j] /\ needHdr'[j] = needHdr[j]
      /\ agentMask'[j] = agentMask[j]
  BY <1>1 DEF ReadFrame
<1>5. SameReading(j)
  BY <1>3, <1>4 DEF SameReading, Served
<1> QED
  BY <1>2, <1>4, <1>5, SameBook

\* The header does not get complete: its slot is not counted yet.
LEMMA HeaderBlocksBook ==
  ASSUME TypeInv, NEW i \in Agents, NEW s \in Slots, Reading(i, s), Book(i),
         HeaderBlocks(i, s), Running'
  PROVE  Book(i)'
<1>1. ReadFrame(i, s)
  BY ReadFrames
<1>2. /\ slot' = Claimed(i, s) /\ indexIn' = [indexIn EXCEPT ![i] = s]
      /\ needHdr[i] + Avail(i) # 0
      /\ needHdr' = [needHdr EXCEPT ![i] = @ + Avail(i)]
      /\ UNCHANGED <<queueCount, agentMask>> /\ HdrLeft(i) # 0
  <2>1. pc' # "weird false fire"
    BY DEF Running, Terminated, Aborts
  <2>2. Avail(i) \in Nat /\ HdrLeft(i) \in 0..HdrUnits /\ HdrUnits \in Nat
    BY ReadNumbers, UnitsAssumption DEF Reading, TypeInv, TypeOK
  <2>3. Avail(i) < HdrLeft(i)
    BY DEF HeaderBlocks
  <2>4. HdrLeft(i) # 0
    BY <2>2, <2>3
  <2> QED
    BY <2>1, <2>4 DEF HeaderBlocks
<1>3. slot'[i][s].inUse /\ indexIn'[i] = s /\ s # EMPTY /\ needHdr'[i] # 0
  BY <1>2, SlotsType DEF Claimed, TypeInv, TypeOK, SlotTypeOK, Slot
<1>4. InHeader(i)' /\ ~InBody(i)
  BY <1>2, <1>3 DEF InHeader, HdrLeft
<1>5. Cardinality(InUse(i)') = queueCount'[i] + 1
  BY <1>1, <1>2, <1>3, <1>4, ReadCount
<1>6. "in" \in agentMask'[i]
  BY <1>2 DEF Reading
<1> QED
  BY <1>3, <1>4, <1>5, <1>6 DEF Book, Balanced

\* The header is complete: its slot is counted.
LEMMA CountedBook ==
  ASSUME TypeInv, NEW i \in Agents, NEW s \in Slots, Reading(i, s), Book(i),
         ReadFrame(i, s), slot'[i][s].inUse, CountPacket(i)
  PROVE  Cardinality(InUse(i)') = queueCount'[i] /\ ~InHeader(i)'
<1>1. needHdr'[i] = 0 /\ queueCount'[i] = IF InBody(i) THEN queueCount[i] ELSE queueCount[i] + 1
  BY DEF CountPacket, TypeInv, TypeOK, SlotTypeOK
<1>2. ~InHeader(i)'
  BY <1>1 DEF InHeader
<1> QED
  BY <1>1, <1>2, ReadCount

\* A body that is not complete yet keeps its slot, and the account.
LEMMA BodyBlocksBook ==
  ASSUME TypeInv, NEW i \in Agents, NEW s \in Slots, Reading(i, s), Book(i),
         BodyBlocks(i, s)
  PROVE  Book(i)'
<1>1. ReadFrame(i, s)
  BY ReadFrames
<1>2. /\ slot'[i][s].inUse /\ indexIn'[i] = s /\ s # EMPTY
      /\ CountPacket(i) /\ agentMask' = agentMask
  BY SlotsType DEF BodyBlocks, Claimed, TypeInv, TypeOK, SlotTypeOK, Slot
<1>3. Cardinality(InUse(i)') = queueCount'[i] /\ ~InHeader(i)' /\ queueCount'[i] \in Int
  BY <1>1, <1>2, CountedBook, CountPacketType DEF TypeInv, TypeOK
<1>4. "in" \in agentMask'[i]
  BY <1>2 DEF Reading
<1> QED
  BY <1>2, <1>3, <1>4 DEF Book, Balanced

\* The packet is complete: the connection is read on unless its slots are all taken.
LEMMA PacketCompleteBook ==
  ASSUME TypeInv, NEW i \in Agents, NEW s \in Slots, Reading(i, s), Book(i),
         PacketComplete(i, s)
  PROVE  Book(i)'
<1>1. ReadFrame(i, s)
  BY ReadFrames
<1>2. /\ slot'[i][s].inUse /\ indexIn'[i] = EMPTY /\ CountPacket(i)
      /\ agentMask' = IF QueueFull(i) THEN [agentMask EXCEPT ![i] = StopPolling(@, "in")]
                      ELSE agentMask
  BY DEF PacketComplete, Claimed, TypeInv, TypeOK, SlotTypeOK, Slot
<1>3. Cardinality(InUse(i)') = queueCount'[i] /\ ~InHeader(i)' /\ queueCount'[i] \in Int
  BY <1>1, <1>2, CountedBook, CountPacketType DEF TypeInv, TypeOK
<1>4. "in" \in agentMask'[i] <=> queueCount'[i] # QueueSize
  BY <1>2 DEF QueueFull, StopPolling, Reading, TypeInv, TypeOK, ChildTypeOK
<1> QED
  BY <1>2, <1>3, <1>4 DEF Book, Balanced

\* The connection ends before the packet does: it is not served any more.
LEMMA CutOffBook ==
  ASSUME TypeInv, NEW i \in Agents, NEW s \in Slots, Running',
         HeaderEof(i, s) \/ HeaderReset(i, s) \/ BodyEof(i, s) \/ BodyReset(i, s)
  PROVE  Book(i)'
<1>1. LeavePool(i)
  BY DEF HeaderEof, HeaderReset, BodyEof, BodyReset, Running, Terminated
<1>2. agentMask'[i] = CLOSED
  BY <1>1 DEF LeavePool, Running, Terminated, Aborts, TypeInv, TypeOK, ChildTypeOK
<1> QED
  BY <1>2 DEF Book, Served

\* Every way out of read_agent_send_host() with a slot keeps the accounts of all
\* connections.
LEMMA ReadBook ==
  ASSUME TypeInv, Running', NEW i \in Agents, NEW s \in Slots, Reading(i, s),
         \/ HeaderBlocks(i, s) \/ HeaderEof(i, s) \/ HeaderReset(i, s)
         \/ BodyBlocks(i, s) \/ BodyEof(i, s) \/ BodyReset(i, s) \/ PacketComplete(i, s),
         \A j \in Agents : Book(j)
  PROVE  \A j \in Agents : Book(j)'
<1>1. Book(i)'
  BY HeaderBlocksBook, BodyBlocksBook, PacketCompleteBook, CutOffBook
<1>2. \A j \in Agents : j # i => Book(j)'
  BY ReadOthersBook
<1> QED
  BY <1>1, <1>2

\* A packet has been delivered: its slot is free, its connection is read.
LEMMA DeliverPacketBook ==
  ASSUME TypeInv, NEW i \in Agents, NEW s \in Slots, i = cur.agent, s = cur.slot,
         Kept(i, s), DeliverPacket, \A j \in Agents : Book(j)
  PROVE  \A j \in Agents : Book(j)'
<1>1. /\ slot' = [slot EXCEPT ![i][s].inUse = FALSE]
      /\ queueCount' = [queueCount EXCEPT ![i] = @ - 1]
      /\ agentMask' = [agentMask EXCEPT ![i] = PollFor(@, "in")]
      /\ UNCHANGED <<agentSock, indexIn, needHdr>>
  BY DEF DeliverPacket, MaskAfterDelivery
<1>2. ASSUME NEW j \in Agents, j # i PROVE Book(j)'
  <2>1. /\ slot'[j] = slot[j] /\ queueCount'[j] = queueCount[j]
        /\ agentMask'[j] = agentMask[j]
    BY <1>1, <1>2 DEF TypeInv, TypeOK, SlotTypeOK, ChildTypeOK
  <2>2. SameReading(j)
    BY <1>1, <2>1 DEF SameReading, Served
  <2> QED
    BY <1>1, <2>1, <2>2, SameBook
<1>3. ASSUME Served(i)' PROVE Balanced(i)'
  <2>1. agentMask[i] \in Masks /\ agentMask'[i] = PollFor(agentMask[i], "in")
    BY <1>1 DEF TypeInv, TypeOK, ChildTypeOK
  <2>2. Served(i) /\ "in" \in agentMask'[i]
    BY <1>1, <1>3, <2>1, PollForMask DEF Served
  <2>3. Balanced(i) /\ queueCount[i] \in Int /\ queueCount'[i] = queueCount[i] - 1
    BY <1>1, <2>2 DEF Book, TypeInv, TypeOK, SlotTypeOK
  <2>4. InUse(i)' = InUse(i) \ {s} /\ s \in InUse(i)
    BY <1>1 DEF InUse, Kept, TypeInv, TypeOK, SlotTypeOK, Slot
  <2>5. /\ Cardinality(InUse(i)) \in Nat /\ Cardinality(InUse(i)) <= QueueSize
        /\ Cardinality(InUse(i)') = Cardinality(InUse(i)) - 1
    BY <2>4, SlotCount, FS_RemoveElement
  <2>6. InHeader(i)' = InHeader(i)
    BY <1>1 DEF InHeader
  <2>7. Cardinality(InUse(i)') = queueCount'[i] + (IF InHeader(i) THEN 1 ELSE 0)
    BY <2>3, <2>5 DEF Balanced
  <2>8. queueCount'[i] # QueueSize
    BY <2>3, <2>5, QueueAssumption DEF Balanced
  <2>9. indexIn'[i] # EMPTY => slot'[i][indexIn'[i]].inUse
    <3>1. indexIn[i] # EMPTY => indexIn[i] \in Slots /\ indexIn[i] # s /\ slot[i][indexIn[i]].inUse
      BY <2>3 DEF Balanced, Kept, TypeInv, TypeOK, SlotTypeOK
    <3> QED
      BY <1>1, <3>1 DEF TypeInv, TypeOK, SlotTypeOK
  <2> QED
    BY <2>2, <2>6, <2>7, <2>8, <2>9 DEF Balanced
<1> QED
  BY <1>2, <1>3 DEF Book

\* A packet has been cut short: its slot stays as it is.
LEMMA DeliverBlocksBook ==
  ASSUME TypeInv, NEW i \in Agents, NEW s \in Slots, i = cur.agent, s = cur.slot,
         DeliverBlocks, \A j \in Agents : Book(j)
  PROVE  \A j \in Agents : Book(j)'
<1>1. /\ slot' = [slot EXCEPT ![i][s].sent = cur.size + HostRoom]
      /\ UNCHANGED <<agentSock, agentMask, indexIn, needHdr, queueCount>>
  BY DEF DeliverBlocks
<1>2. \A j \in Agents, x \in Slots : slot'[j][x].inUse = slot[j][x].inUse
  BY <1>1 DEF TypeInv, TypeOK, SlotTypeOK, Slot
<1>3. ASSUME NEW j \in Agents PROVE Book(j)'
  <2>1. InUse(j)' = InUse(j)
    BY <1>2 DEF InUse
  <2>2. InHeader(j)' = InHeader(j) /\ (Served(j)' <=> Served(j))
    BY <1>1 DEF InHeader, Served
  <2>3. indexIn[j] # EMPTY => slot'[j][indexIn[j]].inUse = slot[j][indexIn[j]].inUse
    BY <1>2 DEF TypeInv, TypeOK, SlotTypeOK
  <2> QED
    BY <1>1, <2>1, <2>2, <2>3 DEF Book, Balanced
<1> QED
  BY <1>3

(***************************************************************************)
(* The packets a child holds, and who has each of them.                    *)
(***************************************************************************)

\* Packet q of connection i is read: it is the next one or a later one, no
\* connection carries any of it, and its own connection only later packets.
Past(i, q) ==
  /\ recvSeq <= q /\ q < peerSeq
  /\ \A j \in Agents : ~Carries(j, q)
  /\ \A r \in Nat : Carries(i, r) => q < r

Distinct ==
  \A i, j \in Agents, s, x \in Slots :
    Kept(i, s) /\ Kept(j, x) /\ slot[i][s].seq = slot[j][x].seq => i = j /\ s = x

KeptOK == Distinct /\ \A i \in Agents, s \in Slots : Kept(i, s) => Past(i, slot[i][s].seq)

Owner(i, s) == <<i, s>> \in table \/ Delivering(i, s)

\* As long as the host is served, a packet that has been read waits in the table or
\* is being delivered.
Owned == hostMask # CLOSED => \A i \in Agents, s \in Slots : Kept(i, s) => Owner(i, s)

SlotInv == Running => KeptOK /\ Owned /\ \A i \in Agents : Book(i)

\* No packet is read.
OnlyOld ==
  \A j \in Agents, x \in Slots :
    Kept(j, x)' => Kept(j, x) /\ slot'[j][x].seq = slot[j][x].seq

\* No packet loses its owner.
SameOwners ==
  hostMask' # CLOSED =>
    /\ hostMask # CLOSED
    /\ \A j \in Agents, x \in Slots : Kept(j, x) /\ Owner(j, x) => Owner(j, x)'

\* A packet that has been read stays read.
LEMMA StillPast ==
  ASSUME TypeInv, NothingOld, recvSeq' = recvSeq, NEW i \in Agents, NEW q \in Nat, Past(i, q)
  PROVE  Past(i, q)'
<1>1. recvSeq \in Nat /\ peerSeq \in Nat
  BY DEF TypeInv, TypeOK, SlotTypeOK, PeerTypeOK
<1>2. recvSeq' <= q /\ q < peerSeq'
  BY <1>1 DEF NothingOld, Past
<1>3. \A j \in Agents : ~Carries(j, q)'
  BY <1>1 DEF NothingOld, Past
<1>4. \A r \in Nat : Carries(i, r)' => q < r
  BY <1>1 DEF NothingOld, Past
<1> QED
  BY <1>2, <1>3, <1>4 DEF Past

\* The number of a packet in a slot is a number.
LEMMA SeqType ==
  ASSUME TypeInv, NEW i \in Agents, NEW s \in Slots
  PROVE  slot[i][s].seq \in Nat
BY DEF TypeInv, TypeOK, SlotTypeOK, Slot

\* A packet in a slot has been read still, where none is read anew and nothing old comes.
LEMMA QuietKept ==
  ASSUME TypeInv, KeptOK, OnlyOld, NothingOld, recvSeq' = recvSeq
  PROVE  KeptOK'
<1>1. ASSUME NEW i \in Agents, NEW s \in Slots, Kept(i, s)'
      PROVE  Past(i, slot[i][s].seq)'
  <2>1. PICK q \in Nat : q = slot[i][s].seq
    BY SeqType
  <2>2. slot'[i][s].seq = q /\ Past(i, q)
    BY <1>1, <2>1 DEF OnlyOld, KeptOK
  <2>3. Past(i, q)'
    BY <2>2, StillPast
  <2> QED
    BY <2>2, <2>3 DEF Past, Carries
<1>2. Distinct'
  BY DEF OnlyOld, KeptOK, Distinct
<1> QED
  BY <1>1, <1>2 DEF KeptOK

\* A packet that has been read stays where it is.
LEMMA QuietOwned ==
  ASSUME Owned, OnlyOld, SameOwners
  PROVE  Owned'
BY DEF Owned, OnlyOld, SameOwners

(***************************************************************************)
(* Steps that leave the slots alone.                                       *)
(***************************************************************************)
LEMMA AsideSlots ==
  ASSUME TypeInv, SlotInv, Running, UNCHANGED <<slotVars, outVars>>, NothingOld,
         SameOutput, \A j \in Agents : SameReading(j),
         pc = "deliver" => pc' = "deliver"
  PROVE  SlotInv'
<1>1. KeptOK /\ Owned /\ \A j \in Agents : Book(j)
  BY DEF SlotInv
<1>2. UNCHANGED <<recvSeq, slot, indexIn, needHdr, queueCount, table, indexOut, outAgent, cur>>
  BY DEF slotVars, outVars
<1>3. OnlyOld
  BY <1>2 DEF OnlyOld, Kept
<1>4. SameOwners
  BY <1>2 DEF SameOwners, SameOutput, Owner, Delivering
<1>5. \A j \in Agents : Book(j)'
  BY <1>1, <1>2, SameBook
<1> QED
  BY <1>1, <1>2, <1>3, <1>4, <1>5, QuietKept, QuietOwned DEF SlotInv

\* The head of the loop and the outbound events keep the books.
LEMMA LoopSlots ==
  ASSUME TypeInv, OrderInv, SlotInv, LoopTop \/ HostIn \/ \E i \in Agents : AgentOut(i)
  PROVE  SlotInv'
<1>1. Running /\ UNCHANGED recvVars /\ pc # "deliver"
  BY LoopFrame
<1>2. UNCHANGED <<slotVars, outVars, peerVars>>
  BY <1>1 DEF recvVars
<1>3. NothingOld
  BY <1>2, PeerStillOld DEF OrderInv
<1> QED
  BY <1>1, <1>2, <1>3, LoopReading, AsideSlots

\* So do the host, the peer and the network.
LEMMA AroundSlots ==
  ASSUME TypeInv, OrderInv, SlotInv,
         \/ HostWrites \/ HostCloses \/ HostReads \/ HostResets \/ PeerActs
         \/ \E i \in Agents : PeerTakes(i) \/ AgentBreaks(i)
  PROVE  SlotInv'
<1>1. /\ Running /\ UNCHANGED <<pc, hostMask, agentMask>>
      /\ UNCHANGED <<slotVars, outVars, written>>
      /\ PeerFrame
  BY AroundFrame DEF OrderInv
<1>2. ASSUME NEW j \in Agents PROVE agentSock'[j] = "closed" <=> agentSock[j] = "closed"
  <2>1. CASE agentSock' = agentSock
    BY <2>1
  <2>2. CASE \E i \in Agents : AgentBreaks(i)
    BY <2>2 DEF AgentBreaks, TypeInv, TypeOK, ChildTypeOK
  <2> QED
    BY <2>1, <2>2 DEF HostWrites, HostWrite, HostCloses, HostClose, HostReads, HostTakes,
       HostResets, HostBreaks, PeerActs, PeerSends, PeerCloses, PeerDies, PeerTakes, WireDrain,
       childVars
<1>3. \A j \in Agents : SameReading(j)
  BY <1>1, <1>2 DEF SameReading, Served
<1>4. SameOutput
  BY <1>1 DEF SameOutput
<1> QED
  BY <1>1, <1>3, <1>4, FrameNothingOld, AsideSlots

(***************************************************************************)
(* read_agent_send_host().                                                 *)
(***************************************************************************)

\* But for the slot it works on, the packets that are read were.
LEMMA ReadOld ==
  ASSUME TypeInv, NEW i \in Agents, NEW s \in Slots, WorkSlot(i, s), ReadFrame(i, s),
         NEW j \in Agents, NEW x \in Slots, Kept(j, x)', j # i \/ x # s
  PROVE  Kept(j, x) /\ slot'[j][x] = slot[j][x]
<1>1. slot'[j][x] = slot[j][x]
  BY DEF ReadFrame
<1>2. indexIn[j] # x
  <2>1. CASE j # i
    BY <2>1 DEF ReadFrame, Kept
  <2>2. CASE j = i
    BY <2>2, SlotsType DEF WorkSlot, AtHeader
  <2> QED
    BY <2>1, <2>2
<1> QED
  BY <1>1, <1>2 DEF Kept

\* A packet that is not complete leaves the others alone.
LEMMA ReadPartSlots ==
  ASSUME TypeInv, OrderInv, SlotInv, Running, pc = "wait", NEW i \in Agents, NEW s \in Slots,
         WorkSlot(i, s), ReadFrame(i, s), indexIn'[i] = s,
         NEW n \in Nat, n <= Len(wireIn[i]), Consume(i, n),
         UNCHANGED <<indexOut, table>>
  PROVE  KeptOK' /\ Owned'
<1>1. KeptOK /\ Owned
  BY DEF SlotInv
<1>2. OnlyOld
  <2>1. ~Kept(i, s)'
    BY DEF Kept
  <2> QED
    BY <2>1, ReadOld DEF OnlyOld
<1>3. NothingOld
  BY ReadNothingOld DEF OrderInv
<1>4. UNCHANGED <<recvSeq, hostMask, outAgent, indexOut, table>>
  BY DEF ReadFrame
<1>5. SameOwners
  BY <1>4 DEF SameOwners, Owner, Delivering
<1> QED
  BY <1>1, <1>2, <1>3, <1>4, <1>5, QuietKept, QuietOwned

\* The packet is complete: it is later than all that are read, or next in order, and
\* the table or the host has it.
LEMMA PacketCompleteSlots ==
  ASSUME TypeInv, OrderInv, SlotInv, Running, pc = "wait", NEW i \in Agents, NEW s \in Slots,
         Reading(i, s), PacketComplete(i, s)
  PROVE  KeptOK' /\ Owned'
<1>0. KeptOK /\ Owned
  BY DEF SlotInv
<1>1. PICK n : n = HdrLeft(i) + BodyLeft(i, s)
  OBVIOUS
<1>2. PICK q : q = wireIn[i][n][1]
  OBVIOUS
<1>3. WorkSlot(i, s) /\ ReadFrame(i, s)
  BY ReadFrames DEF Reading
<1>4. /\ n <= Len(wireIn[i]) /\ Consume(i, n)
      /\ slot' = [Claimed(i, s) EXCEPT ![i][s].seq = q]
  BY <1>1, <1>2 DEF PacketComplete, Avail
<1>5. \/ /\ table' = table /\ cur' = [agent |-> i, slot |-> s, size |-> 0]
         /\ q = recvSeq /\ pc' = "deliver"
      \/ /\ q # recvSeq /\ table' = table \cup {<<i, s>>} /\ indexOut' = indexOut
  BY <1>1, <1>2 DEF PacketComplete
<1>6. PICK m \in Nat : m = Pos(i) /\ n = PktUnits - m /\ m < PktUnits
  BY <1>1, <1>3, ToRead
<1>7. n \in Nat /\ n > 0
  BY <1>6, Sizes
<1>8. /\ PeerTypeOK /\ WireInv /\ StreamOK /\ Aligned(i) /\ Len(wireIn[i]) \in Nat
  BY WireNumbers DEF TypeInv, TypeOK, OrderInv
<1>9. At(i, 1)[2] = m + 1
  <2>1. agentMask[i] # CLOSED
    BY PolledMask DEF Reading, TypeInv, TypeOK, ChildTypeOK
  <2>2. End(i) > 0
    BY <1>4, <1>7, <1>8 DEF End
  <2> QED
    BY <1>6, <1>8, <2>1, <2>2 DEF Aligned
<1>10. /\ q \in Nat /\ q < peerSeq /\ Carries(i, q)
       /\ \A j \in Agents : ~Carries(j, q)'
       /\ \A r \in Nat : Carries(i, r)' => q < r
  BY <1>2, <1>4, <1>6, <1>7, <1>8, <1>9, WholePacket
<1>11. NothingOld
  BY <1>4, <1>7, <1>8, ReadNothingOld
<1>12. /\ recvSeq' = recvSeq /\ peerSeq' = peerSeq /\ hostMask' = hostMask
       /\ outAgent' = outAgent /\ recvSeq <= q
  BY <1>3, <1>4, <1>8, <1>10 DEF ReadFrame, Consume, StreamOK, Ahead
<1>13. Past(i, q)'
  BY <1>10, <1>12 DEF Past
<1>14. slot'[i][s].seq = q
  BY <1>4 DEF Claimed, TypeInv, TypeOK, SlotTypeOK, Slot
<1>15. \A j \in Agents, x \in Slots :
         Kept(j, x)' => \/ j = i /\ x = s
                        \/ Kept(j, x) /\ slot'[j][x] = slot[j][x]
  BY <1>3, ReadOld
<1>16. \A j \in Agents, x \in Slots : Kept(j, x) => slot[j][x].seq # q
  BY <1>0, <1>10 DEF KeptOK, Past
<1>17. KeptOK'
  <2>1. ASSUME NEW j \in Agents, NEW x \in Slots, Kept(j, x)'
        PROVE  Past(j, slot[j][x].seq)'
    <3>1. CASE j = i /\ x = s
      BY <1>13, <1>14, <3>1 DEF Past, Carries
    <3>2. CASE ~(j = i /\ x = s)
      <4>1. PICK r \in Nat : r = slot[j][x].seq
        BY SeqType
      <4>2. slot'[j][x].seq = r /\ Past(j, r)
        BY <1>0, <1>15, <2>1, <3>2, <4>1 DEF KeptOK
      <4>3. Past(j, r)'
        BY <1>11, <1>12, <4>2, StillPast
      <4> QED
        BY <4>2, <4>3 DEF Past, Carries
    <3> QED
      BY <3>1, <3>2
  <2>2. Distinct'
    BY <1>0, <1>14, <1>15, <1>16 DEF KeptOK, Distinct
  <2> QED
    BY <2>1, <2>2 DEF KeptOK
<1>18. ASSUME hostMask' # CLOSED, NEW j \in Agents, NEW x \in Slots, Kept(j, x)'
       PROVE  Owner(j, x)'
  <2>1. CASE j = i /\ x = s
    BY <1>5, <2>1 DEF Owner, Delivering
  <2>2. CASE ~(j = i /\ x = s)
    <3>1. Owner(j, x)
      BY <1>0, <1>12, <1>15, <1>18, <2>2 DEF Owned
    <3>2. CASE <<j, x>> \in table
      BY <1>5, <3>2 DEF Owner
    <3>3. CASE "out" \in hostMask /\ outAgent = j /\ indexOut = x
      <4>1. HeadTaken
        BY <1>8, <3>3 DEF StreamOK, HostOK, Holds
      <4>2. q # recvSeq
        BY <1>10, <4>1 DEF HeadTaken
      <4> QED
        BY <1>5, <1>12, <3>3, <4>2 DEF Owner, Delivering
    <3> QED
      BY <3>1, <3>2, <3>3 DEF Owner, Delivering
  <2> QED
    BY <2>1, <2>2
<1> QED
  BY <1>17, <1>18 DEF Owned

\* So does read_agent_send_host().
LEMMA AgentInSlots ==
  ASSUME TypeInv, OrderInv, SlotInv, NEW i \in Agents, AgentIn(i)
  PROVE  SlotInv'
<1>1. /\ pc = "wait" /\ "in" \in agentMask[i] /\ AgentReadable(i)
      /\ ReadAgentSendHost(i)
  BY DEF AgentIn, AgentInEvent
<1>2. Running
  BY <1>1 DEF Running, Terminated, Aborts
<1>3. CASE NoSlot(i)
  BY <1>3 DEF NoSlot, SlotInv, Running, Terminated, Aborts
<1>4. ASSUME NEW s \in Slots, WorkSlot(i, s), Running',
             \/ HeaderBlocks(i, s) \/ HeaderEof(i, s) \/ HeaderReset(i, s)
             \/ BodyBlocks(i, s) \/ BodyEof(i, s) \/ BodyReset(i, s)
             \/ PacketComplete(i, s)
      PROVE  SlotInv'
  <2>1. Reading(i, s) /\ ReadFrame(i, s)
    BY <1>1, <1>4, ReadFrames DEF Reading
  <2>2. \A j \in Agents : Book(j)'
    BY <1>2, <1>4, <2>1, ReadBook DEF SlotInv
  <2>3. CASE PacketComplete(i, s)
    BY <1>1, <1>2, <2>1, <2>2, <2>3, PacketCompleteSlots DEF SlotInv
  <2>4. CASE ~PacketComplete(i, s)
    <3>1. PICK n \in Nat : n = Len(wireIn[i])
      BY WireNumbers DEF TypeInv, TypeOK
    <3>2. Consume(i, n) /\ indexIn'[i] = s /\ UNCHANGED <<indexOut, table>>
      BY <1>4, <2>4, <3>1 DEF HeaderBlocks, HeaderEof, HeaderReset, BodyBlocks, BodyEof,
                               BodyReset, Avail, outVars, TypeInv, TypeOK, SlotTypeOK
    <3>3. KeptOK' /\ Owned'
      BY <1>1, <1>2, <1>4, <2>1, <3>1, <3>2, ReadPartSlots
    <3> QED
      BY <2>2, <3>3 DEF SlotInv
  <2> QED
    BY <2>3, <2>4
<1> QED
  BY <1>1, <1>3, <1>4 DEF ReadAgentSendHost, SlotInv

(***************************************************************************)
(* send_data_host().                                                       *)
(***************************************************************************)

\* A packet has been delivered: the others are later ones, and the next one, if it
\* is in the table, is delivered now.
LEMMA DeliverPacketSlots ==
  ASSUME TypeInv, OrderInv, SlotInv, pc = "deliver", DeliverPacket, Running'
  PROVE  SlotInv'
<1>1. PICK i \in Agents, s \in Slots : i = cur.agent /\ s = cur.slot
  BY OutSlots
<1>2. /\ WireInv /\ StreamOK /\ KeptOK /\ Owned /\ \A j \in Agents : Book(j)
  BY DEF OrderInv, SlotInv, Running, Terminated, Aborts
<1>3. Holds(i, s, cur.size) /\ "out" \notin hostMask
  BY <1>1, <1>2 DEF StreamOK, HostOK
<1>4. /\ recvSeq' = recvSeq + 1
      /\ slot' = [slot EXCEPT ![i][s].inUse = FALSE]
      /\ UNCHANGED <<hostMask, indexIn, peerVars>>
  BY <1>1 DEF DeliverPacket
<1>5. \/ \E p \in table : /\ table' = table \ {p} /\ pc' = "deliver"
                          /\ cur' = [agent |-> p[1], slot |-> p[2], size |-> 0]
      \/ table' = table
  BY DEF DeliverPacket, Running, Terminated, Aborts
<1>6. \A j \in Agents : Book(j)'
  BY <1>1, <1>2, <1>3, DeliverPacketBook DEF Holds
<1>7. ASSUME NEW j \in Agents, NEW x \in Slots, Kept(j, x)'
      PROVE  /\ Kept(j, x) /\ ~(j = i /\ x = s)
             /\ slot'[j][x].seq = slot[j][x].seq
  BY <1>4, <1>7 DEF Kept, TypeInv, TypeOK, SlotTypeOK, Slot
<1>8. KeptOK'
  <2>1. ASSUME NEW j \in Agents, NEW x \in Slots, Kept(j, x)'
        PROVE  Past(j, slot[j][x].seq)'
    <3>1. PICK q \in Nat : q = slot[j][x].seq
      BY SeqType
    <3>2. slot'[j][x].seq = q /\ Past(j, q) /\ q # recvSeq
      <4>1. Kept(j, x) /\ slot'[j][x].seq = q /\ ~(j = i /\ x = s)
        BY <1>7, <2>1, <3>1
      <4>2. Kept(i, s) /\ slot[i][s].seq = recvSeq
        BY <1>3 DEF Holds
      <4>3. q # recvSeq
        BY <1>2, <3>1, <4>1, <4>2 DEF KeptOK, Distinct
      <4> QED
        BY <1>2, <3>1, <4>1, <4>3 DEF KeptOK
    <3>3. recvSeq' <= q
      <4>1. recvSeq \in Nat
        BY DEF TypeInv, TypeOK, SlotTypeOK
      <4> QED
        BY <1>4, <3>2, <4>1 DEF Past
    <3>4. Past(j, q)'
      BY <1>4, <3>2, <3>3 DEF Past, Carries, peerVars
    <3> QED
      BY <3>2, <3>4 DEF Past, Carries
  <2>2. Distinct'
    BY <1>2, <1>7 DEF KeptOK, Distinct
  <2> QED
    BY <2>1, <2>2 DEF KeptOK
<1>9. ASSUME hostMask' # CLOSED, NEW j \in Agents, NEW x \in Slots, Kept(j, x)'
      PROVE  Owner(j, x)'
  <2>1. Owner(j, x) /\ ~(j = i /\ x = s)
    BY <1>2, <1>4, <1>7, <1>9 DEF Owned
  <2>2. <<j, x>> \in table
    BY <1>1, <1>3, <2>1 DEF Owner, Delivering
  <2> QED
    BY <1>5, <2>2 DEF Owner, Delivering
<1> QED
  BY <1>6, <1>8, <1>9 DEF SlotInv, Owned

\* A packet has been cut short: the host is polled for output.
LEMMA DeliverBlocksSlots ==
  ASSUME TypeInv, OrderInv, SlotInv, pc = "deliver", DeliverBlocks, Running'
  PROVE  SlotInv'
<1>1. PICK i \in Agents, s \in Slots : i = cur.agent /\ s = cur.slot
  BY OutSlots
<1>2. /\ WireInv /\ StreamOK /\ KeptOK /\ Owned /\ \A j \in Agents : Book(j)
  BY DEF OrderInv, SlotInv, Running, Terminated, Aborts
<1>3. "out" \notin hostMask
  BY <1>2 DEF StreamOK, HostOK
<1>4. /\ slot' = [slot EXCEPT ![i][s].sent = cur.size + HostRoom]
      /\ UNCHANGED <<recvSeq, indexIn, table, peerVars>>
      /\ indexOut' = cur.slot /\ outAgent' = cur.agent
  BY <1>1 DEF DeliverBlocks, RememberOut
<1>5. hostMask # CLOSED /\ "out" \in hostMask'
  BY DEF DeliverBlocks, PollFor, MaskIN, OFF, CLOSED, Running, Terminated, Aborts
<1>6. OnlyOld
  BY <1>4 DEF OnlyOld, Kept, TypeInv, TypeOK, SlotTypeOK, Slot
<1>7. SameOwners
  BY <1>3, <1>4, <1>5 DEF SameOwners, Owner, Delivering
<1>8. NothingOld
  BY <1>2, <1>4, PeerStillOld
<1>9. \A j \in Agents : Book(j)'
  BY <1>1, <1>2, DeliverBlocksBook
<1> QED
  BY <1>2, <1>4, <1>6, <1>7, <1>8, <1>9, QuietKept, QuietOwned DEF SlotInv

\* So does send_data_host(), which gives slots back.
LEMMA DeliverSlots ==
  ASSUME TypeInv, OrderInv, SlotInv, Deliver
  PROVE  SlotInv'
<1>1. pc = "deliver" /\ Running
  BY DEF Deliver, Running, Terminated, Aborts
<1>2. CASE DeliverReset
  <2>1. CASE hostMask' = CLOSED
    <3>1. UNCHANGED <<agentMask, agentSock, slotVars, outVars, peerVars>>
      BY <1>2 DEF DeliverReset, recvVars
    <3>2. NothingOld
      BY <3>1, PeerStillOld DEF OrderInv
    <3>3. KeptOK' /\ Owned'
      <4>1. OnlyOld /\ recvSeq' = recvSeq
        BY <3>1 DEF OnlyOld, Kept, slotVars
      <4> QED
        BY <1>1, <2>1, <3>2, <4>1, QuietKept DEF SlotInv, Owned
    <3>4. \A j \in Agents : Book(j)'
      <4>1. \A j \in Agents : SameReading(j)
        BY <3>1 DEF SameReading, Served
      <4> QED
        BY <1>1, <3>1, <4>1, SameBook DEF SlotInv, slotVars
    <3> QED
      BY <3>3, <3>4 DEF SlotInv
  <2>2. CASE ~Running'
    BY <2>2 DEF SlotInv
  <2> QED
    BY <1>2, <2>1, <2>2 DEF DeliverReset, Running, Terminated, Aborts
<1>3. CASE DeliverError
  BY <1>3 DEF DeliverError, SlotInv, Running, Terminated
<1>4. CASE ~Running'
  BY <1>4 DEF SlotInv
<1> QED
  BY <1>1, <1>2, <1>3, <1>4, DeliverPacketSlots, DeliverBlocksSlots DEF Deliver

\* The packet that was cut short is taken up.
LEMMA HostOutSlots ==
  ASSUME TypeInv, OrderInv, SlotInv, HostOut
  PROVE  SlotInv'
<1>1. /\ "out" \in hostMask /\ hostMask # CLOSED
      /\ cur' = [agent |-> outAgent, slot |-> indexOut, size |-> SavedSize]
      /\ pc' = "deliver" /\ pc = "wait"
      /\ UNCHANGED <<agentMask, agentSock, slotVars, peerVars>>
  BY DEF HostOut, HostOutEvent, CLOSED
<1>2. KeptOK /\ Owned /\ \A j \in Agents : Book(j)
  BY <1>1 DEF SlotInv, Running, Terminated, Aborts
<1>3. NothingOld
  BY <1>1, PeerStillOld DEF OrderInv
<1>4. OnlyOld /\ recvSeq' = recvSeq
  BY <1>1 DEF OnlyOld, Kept, slotVars
<1>5. SameOwners
  BY <1>1 DEF SameOwners, Owner, Delivering, slotVars
<1>6. \A j \in Agents : Book(j)'
  <2>1. \A j \in Agents : SameReading(j)
    BY <1>1 DEF SameReading, Served
  <2> QED
    BY <1>1, <1>2, <2>1, SameBook DEF slotVars
<1> QED
  BY <1>2, <1>3, <1>4, <1>5, <1>6, QuietKept, QuietOwned DEF SlotInv

(***************************************************************************)
(* The invariant, and what it shows.                                       *)
(***************************************************************************)

\* All slots are free at first.
LEMMA SlotInit == Init => SlotInv
<1> SUFFICES ASSUME Init PROVE SlotInv
  OBVIOUS
<1>1. \A i \in Agents, s \in Slots : ~slot[i][s].inUse
  BY DEF Init, RecvInit, FreshSlot
<1>2. \A i \in Agents : InUse(i) = {}
  BY <1>1 DEF InUse
<1>3. \A i \in Agents : /\ indexIn[i] = EMPTY /\ needHdr[i] = 0 /\ queueCount[i] = 0
                        /\ "in" \in agentMask[i]
  BY DEF Init, ChildInit, RecvInit, MaskIN
<1>4. ASSUME NEW i \in Agents PROVE Balanced(i)
  <2>1. Cardinality(InUse(i)) = 0
    BY <1>2, FS_EmptySet
  <2>2. ~InHeader(i) /\ 0 # QueueSize
    BY <1>3, QueueAssumption DEF InHeader
  <2> QED
    BY <1>3, <2>1, <2>2 DEF Balanced
<1> QED
  BY <1>1, <1>4 DEF SlotInv, KeptOK, Distinct, Owned, Kept, Book

\* Every step keeps the books.
LEMMA SlotStep == TypeInv /\ OrderInv /\ SlotInv /\ [Next]_vars => SlotInv'
<1> SUFFICES ASSUME TypeInv, OrderInv, SlotInv, [Next]_vars PROVE SlotInv'
  OBVIOUS
<1>1. CASE LoopTop \/ HostIn \/ \E i \in Agents : AgentOut(i)
  BY <1>1, LoopSlots
<1>2. CASE \/ HostWrites \/ HostCloses \/ HostReads \/ HostResets \/ PeerActs
           \/ \E i \in Agents : PeerTakes(i) \/ AgentBreaks(i)
  BY <1>2, AroundSlots
<1>3. CASE \E i \in Agents : AgentIn(i)
  BY <1>3, AgentInSlots
<1>4. CASE SendDataHost
  BY <1>4, DeliverSlots DEF SendDataHost
<1>5. CASE HostOut
  BY <1>5, HostOutSlots
<1>6. CASE UNCHANGED vars
  <2>1. CASE ~Running
    BY <1>6, <2>1 DEF SlotInv, Running, Terminated, vars, childVars
  <2>2. CASE Running
    <3>1. UNCHANGED <<pc, hostMask, agentMask, agentSock, slotVars, outVars, peerVars>>
      BY <1>6 DEF vars, childVars, recvVars
    <3>2. NothingOld
      BY <3>1, PeerStillOld DEF OrderInv
    <3>3. SameOutput /\ \A j \in Agents : SameReading(j)
      BY <3>1 DEF SameOutput, SameReading, Served
    <3> QED
      BY <2>2, <3>1, <3>2, <3>3, AsideSlots
  <2> QED
    BY <2>1, <2>2
<1>7. CASE Ended
  BY <1>6, <1>7 DEF Ended
<1> QED
  BY <1>1, <1>2, <1>3, <1>4, <1>5, <1>6, <1>7 DEF Next

\* The books are always right.
LEMMA SlotInvariant == Spec => []SlotInv
BY TypeInvariant, OrderInvariant, SlotInit, SlotStep, PTL DEF Spec

\* Every slot in use of a served connection is counted in queue_count, but the one whose
\* header is being read: no slot is lost and none is freed twice.
THEOREM SlotsAreCounted == Spec => []SlotAccounting
<1>1. SlotInv => SlotAccounting
  BY DEF SlotInv, SlotAccounting, Book, Balanced
<1> QED
  BY <1>1, SlotInvariant, PTL

\* A served connection is left unread exactly while its slots all hold whole packets.
THEOREM UnreadWhenFull == Spec => []PausedIffFull
<1>1. SlotInv => PausedIffFull
  BY DEF SlotInv, PausedIffFull, Book, Balanced
<1> QED
  BY <1>1, SlotInvariant, PTL

\* The packet a slot is in use for is being read, waits in buffered_packet_table or is being
\* delivered, and only one of these.
THEOREM OneOwnerEach == Spec => []OneOwner
<1>1. TypeInv /\ OrderInv /\ SlotInv => OneOwner
  <2> SUFFICES ASSUME TypeInv, OrderInv, SlotInv, Running, hostMask # CLOSED,
                      NEW i \in Agents, NEW s \in Slots, Served(i)
               PROVE  /\ slot[i][s].inUse <=>
                           BeingRead(i, s) \/ <<i, s>> \in table \/ Delivering(i, s)
                      /\ ~(BeingRead(i, s) /\ (<<i, s>> \in table \/ Delivering(i, s)))
                      /\ ~(<<i, s>> \in table /\ Delivering(i, s))
    BY DEF OneOwner
  <2>1. TableOK /\ HostOK /\ Owned /\ Balanced(i)
    BY DEF OrderInv, StreamOK, SlotInv, Book
  <2>2. <<i, s>> \in table => Kept(i, s)
    BY <2>1 DEF TableOK, Waits
  <2>3. Delivering(i, s) => Kept(i, s) /\ <<i, s>> \notin table
    BY <2>1 DEF Delivering, HostOK, Holds
  <2>4. Kept(i, s) => <<i, s>> \in table \/ Delivering(i, s)
    BY <2>1 DEF Owned, Owner
  <2>5. BeingRead(i, s) => slot[i][s].inUse
    BY <2>1, SlotsType DEF Balanced, BeingRead
  <2> QED
    BY <2>2, <2>3, <2>4, <2>5 DEF Kept, BeingRead
<1> QED
  BY <1>1, TypeInvariant, OrderInvariant, SlotInvariant, PTL

\* The connection that carries the packet the host waits for is being read: were its slots
\* all taken, they would hold packets that are neither before that one nor after it.
THEOREM HeadOfLineIsRead == Spec => []HeadOfLineReadable
<1>1. TypeInv /\ SlotInv => HeadOfLineReadable
  <2> SUFFICES ASSUME TypeInv, SlotInv, Running, NEW i \in Agents, Carries(i, recvSeq),
                      Served(i), "in" \notin agentMask[i]
               PROVE  FALSE
    BY DEF HeadOfLineReadable
  <2>1. Kept(i, 1) /\ 1 \in Slots
    BY AllTaken, SlotsType DEF SlotInv
  <2>2. Past(i, slot[i][1].seq)
    BY <2>1 DEF SlotInv, KeptOK
  <2>3. slot[i][1].seq \in Nat /\ recvSeq \in Nat
    BY <2>1, SeqType DEF TypeInv, TypeOK, SlotTypeOK
  <2>4. recvSeq <= slot[i][1].seq /\ slot[i][1].seq < recvSeq
    BY <2>2, <2>3 DEF Past
  <2> QED
    BY <2>3, <2>4
<1> QED
  BY <1>1, TypeInvariant, SlotInvariant, PTL

=============================================================================
