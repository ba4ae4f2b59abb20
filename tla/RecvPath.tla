------------------------------- MODULE RecvPath -------------------------------
(***************************************************************************)
(* The inbound half of a child: packets read from the agent connections    *)
(* are reassembled in the slots of their connection and written to the     *)
(* host in the order of their numbers.  A packet that is not the next one  *)
(* waits in its slot, found through buffered_packet_table; a connection    *)
(* whose slots are all taken is not read.                                  *)
(*                                                                         *)
(* The peer is any StripedSender: its packets are cut into units, HdrUnits *)
(* of length header and PayUnits of body, and a recv() may see any part of *)
(* one.  A unit is <<number of its packet, index in the packet>>.          *)
(***************************************************************************)
EXTENDS AgentChild

CONSTANTS QueueSize,   \* transfer_request->queue_size
          HostCap,     \* units the socket buffer of the host holds
          MaxPackets,  \* bound: packets the peer sends
          NoAgent      \* the agent_id of a host event before it is set

ASSUME QueueAssumption ==
  /\ QueueSize \in Nat \ {0}
  /\ HostCap \in Nat \ {0}
  /\ MaxPackets \in Nat
  /\ NoAgent \notin Agents

VARIABLES recvSeq,     \* recv_seq
          slot,        \* buffered_packet[i][s]
          indexIn,     \* agent_packet_index_in[i]
          needHdr,     \* agent_needed_header_size[i]: header units it has
          queueCount,  \* agent_packet_queue_count[i]
          table,       \* buffered_packet_table: the <<i, s>> in it
          indexOut,    \* agent_packet_index_out
          outAgent,    \* host_side_event_info.agent_id
          cur,         \* locals of send_data_host()
          peerSeq, peerPkt, wireIn, peerUp,  \* the peer and the connections
          written,     \* every unit written to the host, oldest first
          drained      \* how many of them the host has taken

peerVars == <<peerSeq, peerPkt, wireIn, peerUp>>
hostVars == <<written, drained>>
slotVars == <<recvSeq, slot, indexIn, needHdr, queueCount, table>>
outVars  == <<indexOut, outAgent, cur>>
recvVars == <<slotVars, outVars, peerVars, hostVars>>

Peer == INSTANCE StripedSender
          WITH Conns <- Agents, MayBreak <- TRUE,
               next <- peerSeq, pend <- peerPkt, wire <- wireIn, up <- peerUp

Slots == 1..QueueSize
EMPTY == 0   \* -1 in the code, whose slots are numbered from 0

\* Slot contents: sent is host_sent_size, which counts the units received
\* while the body is read and the units written once it is being delivered.
FreshSlot == [inUse |-> FALSE, seq |-> 0, sent |-> 0]

RecvInit ==
  /\ recvSeq    = 0
  /\ slot       = [i \in Agents |-> [s \in Slots |-> FreshSlot]]
  /\ indexIn    = [i \in Agents |-> EMPTY]
  /\ needHdr    = [i \in Agents |-> 0]
  /\ queueCount = [i \in Agents |-> 0]
  /\ table      = {}
  /\ indexOut   = 1
  /\ outAgent   = NoAgent
  /\ cur        = [agent |-> NoAgent, slot |-> 1, size |-> 0]
  /\ Peer!Init
  /\ written = <<>>
  /\ drained = 0

(***************************************************************************)
(* read_agent_send_host(): where in a packet connection i is.              *)
(***************************************************************************)
AtHeader(i)    == indexIn[i] = EMPTY /\ needHdr[i] = 0
InHeader(i)    == indexIn[i] # EMPTY /\ needHdr[i] # 0
InBody(i)      == ~AtHeader(i) /\ ~InHeader(i)

\* get_free_packet_index(): the first slot not in use.
FreeIndex(i, s) ==
  /\ ~slot[i][s].inUse
  /\ \A t \in 1..(s-1) : slot[i][t].inUse

NoFreeIndex(i) == \A s \in Slots : slot[i][s].inUse

\* The slot the event works on.
WorkSlot(i, s) == IF AtHeader(i) THEN FreeIndex(i, s) ELSE s = indexIn[i]

\* Units of header and of body the packet still lacks, and units to be read.
HdrLeft(i)     == IF InBody(i) THEN 0 ELSE HdrUnits - needHdr[i]
BodyHave(i, s) == IF InBody(i) THEN slot[i][s].sent ELSE 0
BodyLeft(i, s) == PayUnits - BodyHave(i, s)
Avail(i)       == Len(wireIn[i])

\* What recv() says when nothing is left to read.
WouldBlock(i) == agentSock[i] = "open" /\ peerUp[i]
AtEof(i)      == agentSock[i] = "open" /\ ~peerUp[i]
IsReset(i)    == agentSock[i] = "reset"

Consume(i, n) ==
  /\ wireIn' = [wireIn EXCEPT ![i] = SubSeq(@, n + 1, Len(@))]
  /\ UNCHANGED <<peerSeq, peerPkt, peerUp>>

MutClaimed(i, s) == slot  \* mutant: in_use is not set

\* The slot is in use from the moment the header is looked for.
Claimed(i, s) == [slot EXCEPT ![i][s].inUse = TRUE]

\* A header that never comes gives its slot back.
MutReleased(i, s) == Claimed(i, s)  \* mutant: in_use stays set

Released(i, s) == [slot EXCEPT ![i][s].inUse = FALSE]

MutCountPacket(i) ==  \* mutant: a packet is counted at each read
  /\ needHdr' = [needHdr EXCEPT ![i] = 0]
  /\ queueCount' = [queueCount EXCEPT ![i] = @ + 1]

\* Bookkeeping of a complete header: queue_count counts the packet.
CountPacket(i) ==
  /\ needHdr' = [needHdr EXCEPT ![i] = 0]
  /\ queueCount' = IF InBody(i) THEN queueCount
                   ELSE [queueCount EXCEPT ![i] = @ + 1]

\* EPOLL_CTL_DEL and a CLOSED mask.
LeavePool(i) ==
  IF Registered(agentMask[i])
  THEN agentMask' = [agentMask EXCEPT ![i] = CLOSED] /\ pc' = "top"
  ELSE agentMask' = agentMask /\ pc' = "epoll_ctl failed"

\* The header does not get complete.
HeaderBlocks(i, s) ==
  /\ Avail(i) < HdrLeft(i) /\ WouldBlock(i)
  /\ slot' = Claimed(i, s)
  /\ indexIn' = [indexIn EXCEPT ![i] = s]
  /\ IF needHdr[i] + Avail(i) = 0
     THEN pc' = "weird false fire" /\ UNCHANGED needHdr
     ELSE pc' = "top" /\ needHdr' = [needHdr EXCEPT ![i] = @ + Avail(i)]
  /\ Consume(i, Avail(i))
  /\ UNCHANGED <<hostMask, agentMask, hostSock, agentSock, recvSeq, queueCount,
                 table, outVars, hostVars>>

\* The peer has closed the connection before or inside a header.
HeaderEof(i, s) ==
  /\ Avail(i) < HdrLeft(i) /\ AtEof(i)
  /\ slot' = Released(i, s)
  /\ indexIn' = [indexIn EXCEPT ![i] = s]
  /\ LeavePool(i)
  /\ Consume(i, Avail(i))
  /\ UNCHANGED <<hostMask, hostSock, agentSock, recvSeq, needHdr, queueCount,
                 table, outVars, hostVars>>

\* ECONNRESET: the socket is closed, its slot stays in use.
HeaderReset(i, s) ==
  /\ Avail(i) < HdrLeft(i) /\ IsReset(i)
  /\ slot' = Claimed(i, s)
  /\ indexIn' = [indexIn EXCEPT ![i] = s]
  /\ LeavePool(i)
  /\ agentSock' = [agentSock EXCEPT ![i] = "closed"]
  /\ Consume(i, Avail(i))
  /\ UNCHANGED <<hostMask, hostSock, recvSeq, needHdr, queueCount, table,
                 outVars, hostVars>>

BodyShort(i, s) ==
  /\ Avail(i) >= HdrLeft(i)
  /\ Avail(i) - HdrLeft(i) < BodyLeft(i, s)

\* The body does not get complete.
BodyBlocks(i, s) ==
  /\ BodyShort(i, s) /\ WouldBlock(i)
  /\ slot' = [Claimed(i, s) EXCEPT
                ![i][s].sent = BodyHave(i, s) + Avail(i) - HdrLeft(i)]
  /\ indexIn' = [indexIn EXCEPT ![i] = s]
  /\ CountPacket(i)
  /\ Consume(i, Avail(i))
  /\ pc' = "top"
  /\ UNCHANGED <<hostMask, agentMask, hostSock, agentSock, recvSeq, table,
                 outVars, hostVars>>

\* The peer has closed the connection inside a packet: the slot stays in use.
BodyEof(i, s) ==
  /\ BodyShort(i, s) /\ AtEof(i)
  /\ slot' = Claimed(i, s)
  /\ indexIn' = [indexIn EXCEPT ![i] = s]
  /\ CountPacket(i)
  /\ LeavePool(i)
  /\ Consume(i, Avail(i))
  /\ UNCHANGED <<hostMask, hostSock, agentSock, recvSeq, table, outVars, hostVars>>

\* Any error inside a body ends the process.
BodyReset(i, s) ==
  /\ BodyShort(i, s) /\ IsReset(i)
  /\ slot' = Claimed(i, s)
  /\ indexIn' = [indexIn EXCEPT ![i] = s]
  /\ CountPacket(i)
  /\ Consume(i, Avail(i))
  /\ pc' = "exit"
  /\ UNCHANGED <<hostMask, agentMask, hostSock, agentSock, recvSeq, table,
                 outVars, hostVars>>

\* Mutants: the limit is one too high, or one too low.
MutQueueFullLate(i)  == queueCount'[i] = QueueSize + 1
MutQueueFullEarly(i) == queueCount'[i] + 1 = QueueSize

\* The connection has as many packets as it has slots.
QueueFull(i) == queueCount'[i] = QueueSize

\* The packet is complete.  The next one in order goes to the host at once,
\* any other waits in the table.
PacketComplete(i, s) ==
  LET n == HdrLeft(i) + BodyLeft(i, s)
      q == wireIn[i][n][1]
  IN
    /\ Avail(i) >= n
    /\ slot' = [Claimed(i, s) EXCEPT ![i][s].seq = q]
    /\ indexIn' = [indexIn EXCEPT ![i] = EMPTY]
    /\ CountPacket(i)
    /\ agentMask' = IF QueueFull(i)
                    THEN [agentMask EXCEPT ![i] = StopPolling(@, "in")]
                    ELSE agentMask
    /\ IF q = recvSeq
       THEN /\ indexOut' = s
            /\ cur' = [agent |-> i, slot |-> s, size |-> 0]
            /\ pc' = "deliver"
            /\ UNCHANGED table
       ELSE /\ table' = table \cup {<<i, s>>}
            /\ pc' = "top"
            /\ UNCHANGED <<indexOut, cur>>
    /\ Consume(i, n)
    /\ UNCHANGED <<hostMask, hostSock, agentSock, recvSeq, outAgent, hostVars>>

\* A new packet has begun and there is no slot for it.
NoSlot(i) ==
  /\ AtHeader(i) /\ NoFreeIndex(i)
  /\ pc' = "no free slot"
  /\ UNCHANGED <<hostMask, agentMask, hostSock, agentSock, recvVars>>

ReadAgentSendHost(i) ==
  \/ NoSlot(i)
  \/ \E s \in Slots :
       /\ WorkSlot(i, s)
       /\ \/ HeaderBlocks(i, s) \/ HeaderEof(i, s) \/ HeaderReset(i, s)
          \/ BodyBlocks(i, s) \/ BodyEof(i, s) \/ BodyReset(i, s)
          \/ PacketComplete(i, s)

(***************************************************************************)
(* send_data_host(): packet cur is written to the host, then every packet  *)
(* that is next in order and in the table.  A step is one packet; the      *)
(* thread stays in the loop (pc = "deliver") until it has nothing to send  *)
(* or the host socket would block.                                         *)
(***************************************************************************)
HostRoom == HostCap - (Len(written) - drained)

Rest == PayUnits - cur.size

HostUnits(n) == [j \in 1..n |-> <<slot[cur.agent][cur.slot].seq, cur.size + j>>]

MutInTable(p, q) == p \in table /\ slot[p[1]][p[2]].seq + 1 = q
   \* mutant: the lookup uses recv_seq before it is incremented

\* The slot in the table that holds packet q, if there is one.
InTable(p, q) == p \in table /\ slot[p[1]][p[2]].seq = q

MutMaskAfterDelivery == agentMask  \* mutant: reading does not resume

\* Reading from the connection resumes when it had stopped.
MaskAfterDelivery == [agentMask EXCEPT ![cur.agent] = PollFor(@, "in")]

\* All of the packet is taken: its slot is free again, and the next packet in
\* order is looked up.
DeliverPacket ==
  /\ hostSock = "open" /\ Rest <= HostRoom
  /\ written' = written \o HostUnits(Rest)
  /\ slot' = [slot EXCEPT ![cur.agent][cur.slot].inUse = FALSE]
  /\ queueCount' = [queueCount EXCEPT ![cur.agent] = @ - 1]
  /\ recvSeq' = recvSeq + 1
  /\ agentMask' = MaskAfterDelivery
  /\ IF agentMask[cur.agent] = OFF /\ agentSock[cur.agent] = "closed"
     THEN pc' = "epoll_ctl failed" /\ UNCHANGED <<table, cur>>
     ELSE \/ \E p \in table :
               /\ InTable(p, recvSeq + 1)
               /\ table' = table \ {p}
               /\ cur' = [agent |-> p[1], slot |-> p[2], size |-> 0]
               /\ pc' = "deliver"
          \/ /\ \A p \in table : ~InTable(p, recvSeq + 1)
             /\ pc' = "top"
             /\ UNCHANGED <<table, cur>>
  /\ UNCHANGED <<hostMask, hostSock, agentSock, indexIn, needHdr, indexOut,
                 outAgent, peerVars, drained>>

MutRememberOut == indexOut' = cur.slot /\ UNCHANGED outAgent
   \* mutant: the connection of the packet is not remembered

RememberOut == indexOut' = cur.slot /\ outAgent' = cur.agent

\* The host socket takes a part and would block: what was sent is remembered
\* and the host is polled for output.
DeliverBlocks ==
  /\ hostSock = "open" /\ Rest > HostRoom
  /\ written' = written \o HostUnits(HostRoom)
  /\ slot' = [slot EXCEPT ![cur.agent][cur.slot].sent = cur.size + HostRoom]
  /\ RememberOut
  /\ IF hostMask \in {MaskIN, OFF}
     THEN hostMask' = PollFor(hostMask, "out") /\ pc' = "top"
     ELSE hostMask' = hostMask /\ pc' = "host not pollable"
  /\ UNCHANGED <<agentMask, hostSock, agentSock, recvSeq, indexIn, needHdr,
                 queueCount, table, cur, peerVars, drained>>

\* ECONNRESET from the host.
DeliverReset ==
  /\ hostSock = "reset"
  /\ IF Registered(hostMask)
     THEN hostMask' = CLOSED /\ hostSock' = "closed" /\ pc' = "top"
     ELSE UNCHANGED <<hostMask, hostSock>> /\ pc' = "epoll_ctl failed"
  /\ UNCHANGED <<agentMask, agentSock, recvVars>>

\* EPIPE from the host (SIGPIPE is not handled), or EBADF once it is closed.
DeliverError ==
  /\ hostSock # "open"
  /\ pc' = "exit"
  /\ UNCHANGED <<hostMask, agentMask, hostSock, agentSock, recvVars>>

Deliver ==
  /\ pc = "deliver"
  /\ DeliverPacket \/ DeliverBlocks \/ DeliverReset \/ DeliverError

(***************************************************************************)
(* poll_data_transfer(): the events of the inbound half.                   *)
(***************************************************************************)

\* Agent socket i can be read (and is not also reported as writable, which
\* comes first).
AgentReadable(i) ==
  /\ agentSock[i] # "closed"
  /\ wireIn[i] # <<>> \/ ~peerUp[i] \/ agentSock[i] = "reset"

AgentInEvent(i) ==
  /\ pc = "wait" /\ "in" \in agentMask[i] /\ AgentReadable(i)
  /\ ReadAgentSendHost(i)

MutSavedSize == 0  \* mutant: the packet is sent from its start again

\* What the host already has of the packet that was cut short.
SavedSize == slot[outAgent][indexOut].sent

\* The host can be written again: polling for output stops, and the packet
\* that was cut short is taken up.
HostOutEvent ==
  /\ pc = "wait" /\ "out" \in hostMask
  /\ HostRoom > 0 \/ hostSock = "reset"
  /\ hostMask' = StopPolling(hostMask, "out")
  /\ cur' = [agent |-> outAgent, slot |-> indexOut, size |-> SavedSize]
  /\ pc' = "deliver"
  /\ UNCHANGED <<agentMask, hostSock, agentSock, slotVars, indexOut, outAgent,
                 peerVars, hostVars>>

(***************************************************************************)
(* The environment of the inbound half.                                    *)
(***************************************************************************)

PeerSends ==
  /\ \/ \E i \in Agents, n \in 0..PktUnits : Peer!Take(i, n) \/ Peer!Push(i, n)
     \/ "agent reset" \in EnvEvents /\ \E i \in Agents : Peer!Lose(i)
  /\ UNCHANGED <<childVars, slotVars, outVars, hostVars>>

\* The peer closes connections that have nothing pending, all at once or one
\* after the other.
PeerCloses ==
  /\ "peer close" \in EnvEvents
  /\ \E S \in SUBSET {i \in Agents : peerUp[i]} : S # {} /\ Peer!Close(S)
  /\ UNCHANGED <<childVars, slotVars, outVars, hostVars>>

\* The peer dies, and its kernel closes every connection, inside packets too.
PeerDies ==
  /\ "peer exit" \in EnvEvents
  /\ \E i \in Agents : peerUp[i]
  /\ Peer!Die
  /\ UNCHANGED <<childVars, slotVars, outVars, hostVars>>

HostTakes ==
  /\ drained < Len(written)
  /\ drained' = drained + 1
  /\ UNCHANGED <<childVars, slotVars, outVars, peerVars, written>>

\* The host connection breaks.
HostBreaks ==
  /\ "host reset" \in EnvEvents
  /\ hostSock = "open"
  /\ hostSock' = "reset"
  /\ UNCHANGED <<pc, hostMask, agentMask, agentSock, recvVars>>

=============================================================================
