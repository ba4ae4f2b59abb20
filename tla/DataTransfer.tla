----------------------------- MODULE DataTransfer -----------------------------
(***************************************************************************)
(* One data-transfer child: poll_data_transfer() with both of its halves.  *)
(*                                                                         *)
(* The single thread goes round one loop: it closes what can be closed     *)
(* (LoopTop), waits for one event, and runs that event's handler to the    *)
(* end.  The host, the peer and the network move between any two steps.    *)
(***************************************************************************)
EXTENDS SendPath, RecvPath

vars == <<childVars, sendVars, recvVars>>

Init == ChildInit /\ SendInit /\ RecvInit

(***************************************************************************)
(* The head of the loop.                                                   *)
(***************************************************************************)

MutCloseIdle ==  \* mutant: pending packets do not keep a connection
  /\ agentSock' = [i \in Agents |-> "closed"]
  /\ agentMask' = [i \in Agents |-> CLOSED]
  /\ pc' = "done"
  /\ UNCHANGED hostSock

\* The host is gone: connections with nothing pending are closed.
CloseIdle ==
  /\ agentSock' = [i \in Agents |-> IF Pending(i) THEN agentSock[i] ELSE "closed"]
  /\ agentMask' = [i \in Agents |-> IF Pending(i) THEN agentMask[i] ELSE CLOSED]
  /\ pc' = IF \A i \in Agents : Pending(i) => agentMask[i] = CLOSED
           THEN "done" ELSE "wait"
  /\ UNCHANGED hostSock

MutAllReceived ==  \* mutant: one closed connection is enough
  /\ \E i \in Agents : agentMask[i] = CLOSED
  /\ \A i \in Agents, s \in Slots : ~slot[i][s].inUse

\* No agent connection can be read any more, and no slot is in use.
AllReceived ==
  /\ \A i \in Agents : agentMask[i] = CLOSED
  /\ \A i \in Agents, s \in Slots : ~slot[i][s].inUse

CloseHost ==
  /\ IF AllReceived THEN hostSock' = "closed" /\ pc' = "done"
                    ELSE UNCHANGED hostSock   /\ pc' = "wait"
  /\ UNCHANGED <<agentSock, agentMask>>

LoopTop ==
  /\ pc = "top"
  /\ IF hostMask = CLOSED THEN CloseIdle ELSE CloseHost
  /\ UNCHANGED <<hostMask, sendVars, recvVars>>

(***************************************************************************)
(* The events, in the order in which poll_data_transfer() looks for them:  *)
(* a socket reported for both directions is handled for the first.         *)
(***************************************************************************)
HostIn ==
  /\ HostInEvent \/ HostInError
  /\ UNCHANGED recvVars

AgentOut(i) ==
  /\ AgentOutEvent(i)
  /\ UNCHANGED recvVars

AgentIn(i) ==
  /\ ~("out" \in agentMask[i] /\ Writable(i))
  /\ AgentInEvent(i)
  /\ UNCHANGED sendVars

HostOut ==
  /\ ~("in" \in hostMask /\ HostReadable)
  /\ HostOutEvent
  /\ UNCHANGED sendVars

SendDataHost ==
  /\ Deliver
  /\ UNCHANGED sendVars

(***************************************************************************)
(* The environment, for as long as the process runs.                       *)
(***************************************************************************)
Running == ~Terminated

HostWrites == Running /\ HostWrite /\ UNCHANGED recvVars
HostCloses == Running /\ HostClose /\ UNCHANGED recvVars
HostReads  == Running /\ HostTakes /\ UNCHANGED sendVars
HostResets == Running /\ HostBreaks /\ UNCHANGED sendVars

\* A peer that has closed a connection takes nothing more from it.
PeerTakes(i) == Running /\ peerUp[i] /\ WireDrain(i) /\ UNCHANGED recvVars

PeerActs == Running /\ (PeerSends \/ PeerCloses \/ PeerDies) /\ UNCHANGED sendVars

\* Connection i breaks: because the network broke it, or because the peer had
\* closed it and data from here reached it.  What had arrived stays readable.
AgentBreaks(i) ==
  /\ Running
  /\ agentSock[i] = "open"
  /\ "agent reset" \in EnvEvents \/ (~peerUp[i] /\ wireOut[i] # <<>>)
  /\ agentSock' = [agentSock EXCEPT ![i] = "reset"]
  /\ wireOut' = [wireOut EXCEPT ![i] = <<>>]
  /\ Peer!Reset(i)
  /\ UNCHANGED <<pc, hostMask, agentMask, hostSock, hostIn, hostEof, sendSeq,
                 packet, slotVars, outVars, hostVars>>

Ended == Terminated /\ UNCHANGED vars

Next ==
  \/ LoopTop
  \/ HostIn
  \/ HostOut
  \/ SendDataHost
  \/ HostWrites
  \/ HostCloses
  \/ HostReads
  \/ HostResets
  \/ PeerActs
  \/ \E i \in Agents :
       \/ AgentOut(i)
       \/ AgentIn(i)
       \/ PeerTakes(i)
       \/ AgentBreaks(i)
  \/ Ended

Spec == Init /\ [][Next]_vars

\* epoll reports every socket that stays ready sooner or later (it goes round
\* its ready list), and the host and the peer keep taking what is sent.
Fairness ==
  /\ WF_vars(LoopTop) /\ WF_vars(SendDataHost)
  /\ WF_vars(HostIn) /\ WF_vars(HostOut)
  /\ \A i \in Agents : WF_vars(AgentOut(i)) /\ WF_vars(AgentIn(i))
  /\ \A i \in Agents : WF_vars(PeerTakes(i))
  /\ WF_vars(PeerActs) /\ WF_vars(HostReads)

FairSpec == Spec /\ Fairness

=============================================================================
