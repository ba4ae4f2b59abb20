---------------------------- MODULE ChildProperties ----------------------------
(***************************************************************************)
(* What a data-transfer child must do, over the state of DataTransfer.     *)
(***************************************************************************)
EXTENDS DataTransfer, Integers

Unit   == Nat \X Nat
Packet == [seq : Nat, left : 0..PktUnits]
Slot   == [inUse : BOOLEAN, seq : Nat, sent : 0..(PayUnits - 1)]

ChildTypeOK ==
  /\ pc \in PCs
  /\ hostMask \in Masks
  /\ agentMask \in [Agents -> Masks]
  /\ hostSock \in SockStates
  /\ agentSock \in [Agents -> SockStates]

SendTypeOK ==
  /\ hostIn \in Nat
  /\ hostEof \in BOOLEAN
  /\ sendSeq \in Nat
  /\ packet \in [Agents -> Packet]
  /\ wireOut \in [Agents -> Seq(Unit)]
  /\ \A i \in Agents : Len(wireOut[i]) <= WireCap

SlotTypeOK ==
  /\ recvSeq \in Nat
  /\ slot \in [Agents -> [Slots -> Slot]]
  /\ indexIn \in [Agents -> Slots \cup {EMPTY}]
  /\ needHdr \in [Agents -> 0..(HdrUnits - 1)]
  /\ queueCount \in [Agents -> Int]
  /\ table \subseteq Agents \X Slots

OutTypeOK ==
  /\ indexOut \in Slots
  /\ outAgent \in Agents \cup {NoAgent}
  /\ cur \in [agent : Agents \cup {NoAgent}, slot : Slots, size : 0..(PayUnits - 1)]

PeerTypeOK ==
  /\ peerSeq \in Nat
  /\ peerPkt \in [Agents -> Packet]
  /\ wireIn \in [Agents -> Seq(Unit)]
  /\ peerUp \in [Agents -> BOOLEAN]

HostTypeOK ==
  /\ written \in Seq(Unit)
  /\ drained \in 0..Len(written)
  /\ Len(written) - drained <= HostCap

\* Masks are masks of datatypes.h, what is left of a packet fits a packet, an
\* index is EMPTY or a slot, no socket buffer holds more than it can, in every
\* state the loop of poll_data_transfer() reaches.
TypeOK ==
  ChildTypeOK /\ SendTypeOK /\ SlotTypeOK /\ OutTypeOK /\ PeerTypeOK /\ HostTypeOK

\* Connection i is still served.
Served(i) == agentSock[i] # "closed" /\ agentMask[i] # CLOSED

(***************************************************************************)
(* Outbound.                                                               *)
(***************************************************************************)

\* A packet that is waiting for room on a served connection is polled for
\* output: read_host_send_agent() drops EPOLLOUT before every retry, and each
\* way out of the retry must restore it or finish the packet.
PendingIsPolled ==
  Running => \A i \in Agents : Pending(i) /\ Served(i) => "out" \in agentMask[i]

\* A connection with nothing to send is polled for output only while the host
\* is paused: otherwise every epoll_wait() would return at once, and the
\* wake-up would call not_all_agent_socks_full() for a host that is being read.
NoIdleWakeup ==
  Running => \A i \in Agents :
               "out" \in agentMask[i] /\ ~Pending(i) => "in" \notin hostMask

\* poll.c:242-248: a host that is not read because all connections are full is
\* read again when one unblocks, so some connection must be polled for output.
PausedHostHasWaker ==
  pc = "wait" /\ "in" \notin hostMask /\ hostMask # CLOSED
    => \E i \in Agents : "out" \in agentMask[i]

Outbound == INSTANCE StripedSender
              WITH Conns <- Agents, MaxPackets <- MaxChunks,
                   MayBreak <- TRUE,
                   next <- sendSeq, pend <- packet, wire <- wireOut,
                   up <- [i \in Agents |-> IsUp(i)]

\* The outbound half is a StripedSender: every chunk of the host goes out once,
\* in one packet, whole, on one connection, with the numbers of a connection
\* increasing; no connection is closed inside a packet unless it broke or the
\* child died, and what was given to a broken one is not sent again.
OutboundStriping == Outbound!Spec

\* When the host closes and the child leaves by "Everything has been closed!",
\* nothing the host wrote is left behind, in the socket or in packet[].
AllSentAtExit == pc = "done" => hostIn = 0 /\ \A i \in Agents : ~Pending(i)

\* A host that was paused while some connection had nothing pending is read
\* again, or found to have closed: that connection is polled for output until it
\* unblocks.
PauseEnds ==
  (pc = "wait" /\ "in" \notin hostMask /\ hostMask # CLOSED
     /\ \E i \in Agents : "out" \in agentMask[i] /\ ~Pending(i))
  ~> ("in" \in hostMask \/ hostMask = CLOSED)

(***************************************************************************)
(* Inbound.                                                                *)
(***************************************************************************)

InUse(i) == {s \in Slots : slot[i][s].inUse}

\* Each slot in use of a served connection is counted in queue_count, except
\* one whose header is not complete: in_use is set before the header is read,
\* queue_count only after, and they are released together.
SlotAccounting ==
  Running => \A i \in Agents : Served(i) =>
    Cardinality(InUse(i)) = queueCount[i] + (IF InHeader(i) THEN 1 ELSE 0)

\* A served connection is not read exactly while all its slots hold complete
\* packets: reading on would end in "I SHOULDNT HAVE BEEN TRIGGERED!!", and a
\* connection left unread with a free slot would never be read again.
PausedIffFull ==
  Running => \A i \in Agents : Served(i) =>
    ("in" \notin agentMask[i] <=> queueCount[i] = QueueSize /\ indexIn[i] = EMPTY)

\* Connection i still has to bring (part of) packet q.
Carries(i, q) ==
  \/ \E k \in 1..Len(wireIn[i]) : wireIn[i][k][1] = q
  \/ peerPkt[i].left > 0 /\ peerPkt[i].seq = q

\* The connection that carries the packet the host waits for is being read,
\* however full the slots are: otherwise packets that wait for it would hold
\* the slots it needs, and the stream would stand still for ever.
HeadOfLineReadable ==
  Running => \A i \in Agents :
               Carries(i, recvSeq) /\ Served(i) => "in" \in agentMask[i]

\* While the host is polled for output, (agent_id, agent_packet_index_out)
\* name the packet that was cut short: in use, next in order, no longer in the
\* table, and host_sent_size is what the host has of it.
BlockedPacketKept ==
  Running /\ "out" \in hostMask =>
    /\ outAgent \in Agents
    /\ slot[outAgent][indexOut].inUse
    /\ slot[outAgent][indexOut].seq = recvSeq
    /\ <<outAgent, indexOut>> \notin table
    /\ Len(written) = recvSeq * PayUnits + slot[outAgent][indexOut].sent

BeingRead(i, s)   == indexIn[i] = s
Delivering(i, s)  == \/ pc = "deliver" /\ cur.agent = i /\ cur.slot = s
                     \/ "out" \in hostMask /\ outAgent = i /\ indexOut = s

\* The packet a slot was claimed for is being read, waits in the table, or is
\* being delivered, and only one of these, as long as the host is served:
\* no slot is lost, none is freed twice.
OneOwner ==
  Running /\ hostMask # CLOSED => \A i \in Agents, s \in Slots : Served(i) =>
    /\ slot[i][s].inUse <=>
         BeingRead(i, s) \/ <<i, s>> \in table \/ Delivering(i, s)
    /\ ~(BeingRead(i, s) /\ (<<i, s>> \in table \/ Delivering(i, s)))
    /\ ~(<<i, s>> \in table /\ Delivering(i, s))

\* When the child waits, no packet in the table is the next one: it would be
\* looked up only after a delivery that cannot come.
NothingStranded ==
  pc = "wait" => \A p \in table : slot[p[1]][p[2]].seq > recvSeq

HostS == INSTANCE HostStream WITH sent <- peerSeq, out <- written

\* The host gets the stream the peer has cut into packets, in order, once, with
\* no gap.
InOrderDelivery == HostS!Spec

\* None of the exit(1)s that report an impossible state is reached.
NoInternalAbort == pc \notin Aborts

\* Whatever breaks, read_agent_send_host() is not called for a connection without a
\* free slot, nor for one with nothing to read: its two exit(1)s that report a
\* wake-up it cannot explain are not reached.
NeverCornered == pc \notin {"no free slot", "weird false fire"}

\* Everything the peer sends is written to the host.
EverythingDelivered == <>[](recvSeq = peerSeq)

\* Once the peer has closed its connections the child ends, and has then
\* delivered all.
EndsAfterPeer == (\A i \in Agents : ~peerUp[i]) ~> (pc = "done" /\ recvSeq = peerSeq)

\* poll.c:426-428: the loop checks the parallel sockets for data and closes
\* those that have none; a packet the child still holds for its host is data.
ClosedWithoutData ==
  \A i \in Agents : agentSock[i] = "closed" => InUse(i) = {}

=============================================================================
