------------------------------- MODULE SendPath -------------------------------
(***************************************************************************)
(* The outbound half of a child: bytes read from the host socket are cut   *)
(* into packets and striped over the agent connections.  A connection      *)
(* whose socket does not take the whole packet keeps the rest in           *)
(* packet[i] and is polled for output; when no connection can take         *)
(* anything the host is no longer polled for input.                        *)
(*                                                                         *)
(* The kernel is modelled as far as the code sees it: hostIn chunks wait   *)
(* on the host socket (one recv() takes one), agent connection i holds     *)
(* wireOut[i] and accepts what fits; it is reported writable when at least *)
(* OutLowat units are free, as TCP does.                                   *)
(***************************************************************************)
EXTENDS AgentChild

CONSTANTS OutLowat,  \* free units that make a socket writable for epoll
          MaxChunks  \* bound: chunks the host writes

ASSUME SendAssumption ==
  /\ OutLowat \in 1..WireCap
  /\ MaxChunks \in Nat

VARIABLES hostIn,   \* chunks waiting on the host socket
          hostEof,  \* the host has closed its sending side
          sendSeq,  \* send_seq
          packet,   \* packet[i]: number, and units still to be sent
          wireOut   \* units in connection i, outbound

sendVars == <<hostIn, hostEof, sendSeq, packet, wireOut>>

\* The contents of a packet with host_packet_size 0 are never read.
EmptyPacket == [seq |-> 0, left |-> 0]

Pending(i) == packet[i].left > 0

SendInit ==
  /\ hostIn  = 0
  /\ hostEof = FALSE
  /\ sendSeq = 0
  /\ packet  = [i \in Agents |-> EmptyPacket]
  /\ wireOut = [i \in Agents |-> <<>>]

Room(i) == WireCap - Len(wireOut[i])

\* EPOLLOUT is reported for agent socket i (for a broken one too).
Writable(i) ==
  \/ agentSock[i] = "open" /\ Room(i) >= OutLowat
  \/ agentSock[i] = "reset"

\* EPOLLIN is reported for the host socket.
HostReadable == hostIn > 0 \/ hostEof \/ hostSock = "reset"

(***************************************************************************)
(* all_agents_socks_full(): the host is not read any more, and every agent *)
(* socket is polled for output.                                            *)
(***************************************************************************)
AllAgentsSocksFull ==
  /\ hostMask'  = IF hostMask \in {MaskIN, INAndOut}
                  THEN StopPolling(hostMask, "in") ELSE hostMask
  /\ agentMask' = [i \in Agents |-> PollFor(agentMask[i], "out")]
  /\ pc' = IF \E i \in Agents : agentMask[i] = OFF /\ agentSock[i] = "closed"
           THEN "epoll_ctl failed" ELSE "top"
  /\ UNCHANGED <<hostSock, agentSock, sendVars>>

(***************************************************************************)
(* not_all_agent_socks_full(): the masks it leaves.  The host is read      *)
(* again, and the agent sockets with nothing to send are no longer polled  *)
(* for output.                                                             *)
(***************************************************************************)
MutHostResumed   == hostMask   \* mutant: the host stays paused
MutAgentsResumed == agentMask  \* mutant: EPOLLOUT is not taken away

HostResumed == PollFor(hostMask, "in")

AgentsResumed ==
  [i \in Agents |->
     IF Pending(i) THEN agentMask[i] ELSE StopPolling(agentMask[i], "out")]

(***************************************************************************)
(* read_host_send_agent(), its send loop: what is left of packet p goes to *)
(* connection i until all is sent or the socket would block.  am is the    *)
(* agent masks at this point.                                              *)
(***************************************************************************)
MutSendable(i, p) == Room(i)  \* mutant: sends past the end of the packet

Sendable(i, p) == IF p.left <= Room(i) THEN p.left ELSE Room(i)

Units(p, n) == [j \in 1..n |-> <<p.seq, PktUnits - p.left + j>>]

MutAfterSend(p, n) == IF n = p.left THEN EmptyPacket ELSE p
   \* mutant: host_sent_size is not kept, a retry starts over

\* What the send loop leaves in packet[i] when n units of p were accepted.
AfterSend(p, n) == IF n = p.left THEN EmptyPacket ELSE [p EXCEPT !.left = @ - n]

MutMaskAfterSend(i, p, n, am) == am  \* mutant: no EPOLLOUT for the rest

\* And in agent_fd_poll[]: a socket that would block is polled for output.
MaskAfterSend(i, p, n, am) ==
  IF n = p.left THEN am ELSE [am EXCEPT ![i] = PollFor(@, "out")]

SendSome(i, p, am) ==
  LET n == Sendable(i, p) IN
    /\ agentSock[i] = "open"
    /\ wireOut'   = [wireOut EXCEPT ![i] = @ \o Units(p, n)]
    /\ packet'    = [packet EXCEPT ![i] = AfterSend(p, n)]
    /\ agentMask' = MaskAfterSend(i, p, n, am)
    /\ pc' = "top"
    /\ UNCHANGED agentSock

\* send() fails with ECONNRESET: the socket leaves the pool and is closed.
\* The mask becomes OFF, not CLOSED, and the packet stays pending.
SendReset(i, p, am) ==
  /\ agentSock[i] = "reset"
  /\ packet' = [packet EXCEPT ![i] = p]
  /\ IF Registered(am[i])
     THEN /\ agentMask' = [am EXCEPT ![i] = OFF]
          /\ agentSock' = [agentSock EXCEPT ![i] = "closed"]
          /\ pc' = "top"
     ELSE /\ agentMask' = am
          /\ pc' = "epoll_ctl failed"
          /\ UNCHANGED agentSock
  /\ UNCHANGED wireOut

\* send() fails with EPIPE: SIGPIPE, which is not handled, kills the child.
SendPipe(i, p, am) ==
  /\ agentSock[i] = "reset"
  /\ packet'    = [packet EXCEPT ![i] = p]
  /\ agentMask' = am
  /\ pc' = "exit"
  /\ UNCHANGED <<wireOut, agentSock>>

Send(i, p, am) == SendSome(i, p, am) \/ SendReset(i, p, am) \/ SendPipe(i, p, am)

(***************************************************************************)
(* read_host_send_agent(), called with the masks hm and am.                *)
(***************************************************************************)

\* A packet is pending on i: polling for output stops, the rest is sent.
SendRest(i, hm, am) ==
  /\ Pending(i)
  /\ hostMask' = hm
  /\ IF "out" \in am[i]
     THEN Send(i, packet[i], [am EXCEPT ![i] = StopPolling(@, "out")])
     ELSE /\ pc' = "should not be here"
          /\ agentMask' = am
          /\ UNCHANGED <<agentSock, packet, wireOut>>
  /\ UNCHANGED <<hostSock, hostIn, hostEof, sendSeq>>

\* Nothing pending: a chunk is read from the host, numbered and sent.
SendNew(i, hm, am) ==
  /\ ~Pending(i) /\ hostIn > 0
  /\ hostIn'   = hostIn - 1
  /\ sendSeq'  = sendSeq + 1
  /\ hostMask' = hm
  /\ Send(i, [seq |-> sendSeq, left |-> PktUnits], am)
  /\ UNCHANGED <<hostSock, hostEof>>

\* recv() on the host says EAGAIN.
HostNothing(i, hm, am) ==
  /\ ~Pending(i) /\ hostIn = 0 /\ ~hostEof /\ hostSock = "open"
  /\ hostMask'  = hm
  /\ agentMask' = am
  /\ pc' = "top"
  /\ UNCHANGED <<hostSock, agentSock, sendVars>>

\* recv() returns 0, or fails with ECONNRESET: the host mask is CLOSED.
HostEnded(i, hm, am) ==
  /\ ~Pending(i) /\ hostIn = 0 /\ (hostEof \/ hostSock = "reset")
  /\ agentMask' = am
  /\ IF Registered(hm) THEN hostMask' = CLOSED /\ pc' = "top"
     ELSE IF hm = OFF /\ hostSock = "open" THEN hostMask' = hm /\ pc' = "top"
     ELSE hostMask' = hm /\ pc' = "epoll_ctl failed"
  /\ UNCHANGED <<hostSock, agentSock, sendVars>>

ReadHostSendAgent(i, hm, am) ==
  \/ SendRest(i, hm, am)
  \/ SendNew(i, hm, am)
  \/ HostNothing(i, hm, am)
  \/ HostEnded(i, hm, am)

(***************************************************************************)
(* poll_data_transfer(): the events of the outbound half.                  *)
(***************************************************************************)

\* The host can be read.  event_poll_out_agent holds every open agent socket,
\* whatever its mask, and reports one of the writable ones.
HostInEvent ==
  /\ pc = "wait" /\ "in" \in hostMask /\ HostReadable
  /\ \/ \E i \in Agents :
          /\ Writable(i) /\ agentSock[i] # "reset"
          /\ ReadHostSendAgent(i, hostMask, agentMask)
     \/ /\ \A i \in Agents : ~Writable(i)
        /\ hostSock # "reset"
        /\ AllAgentsSocksFull

\* The event reported last has EPOLLERR: of a broken agent connection, or,
\* when no agent socket is writable, of the host.
HostInError ==
  /\ pc = "wait" /\ "in" \in hostMask /\ HostReadable
  /\ \/ \E i \in Agents : agentSock[i] = "reset"
     \/ hostSock = "reset" /\ \A i \in Agents : ~Writable(i)
  /\ pc' = "exit"
  /\ UNCHANGED <<hostMask, agentMask, hostSock, agentSock, sendVars>>

\* Agent socket i can be written.
AgentOutEvent(i) ==
  /\ pc = "wait" /\ "out" \in agentMask[i] /\ Writable(i)
  /\ IF Pending(i)
     THEN ReadHostSendAgent(i, hostMask, agentMask)
     ELSE ReadHostSendAgent(i, HostResumed, AgentsResumed)

(***************************************************************************)
(* The environment of the outbound half.                                   *)
(***************************************************************************)

\* The host writes one more chunk.
HostWrite ==
  /\ ~hostEof /\ hostSock = "open"
  /\ sendSeq + hostIn < MaxChunks
  /\ hostIn' = hostIn + 1
  /\ UNCHANGED <<childVars, hostEof, sendSeq, packet, wireOut>>

\* The host has nothing more to send.
HostClose ==
  /\ "host close" \in EnvEvents
  /\ ~hostEof /\ hostSock = "open"
  /\ hostEof' = TRUE
  /\ UNCHANGED <<childVars, hostIn, sendSeq, packet, wireOut>>

\* The peer takes a unit of connection i.
WireDrain(i) ==
  /\ wireOut[i] # <<>>
  /\ wireOut' = [wireOut EXCEPT ![i] = Tail(@)]
  /\ UNCHANGED <<childVars, hostIn, hostEof, sendSeq, packet>>

=============================================================================
