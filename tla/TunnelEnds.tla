------------------------------ MODULE TunnelEnds ------------------------------
(***************************************************************************)
(* A whole tunnel: the two children that serve its ends, joined by their   *)
(* parallel connections.  Each child is DataTransfer with variables of its *)
(* own; its peer is the other child, and what one has put on a connection  *)
(* and the other has not read yet is one variable of both.                 *)
(*                                                                         *)
(* The hosts exchange ChunksA chunks from A to B and ChunksB back, and a   *)
(* host closes when it has written all it has to and read all it waits for.*)
(*                                                                         *)
(* The network breaks no connection here (DataTransfer has the breaks), *)
(* and no data reaches a connection whose other end is closed, which the   *)
(* kernel would answer with a reset: NoLateData shows that none is due.    *)
(*                                                                         *)
(* A third child, forked at the same node while this tunnel was being set  *)
(* up, may have inherited copies of an end's agent sockets (poll.c forks   *)
(* with every descriptor open).  While it lives, closing one of them sends *)
(* nothing to the other end.                                               *)
(***************************************************************************)
EXTENDS Naturals, Sequences, FiniteSets

CONSTANTS Agents, HdrUnits, PayUnits, WireCap, OutLowat, QueueSize, HostCap, NoAgent,
          ChunksA, ChunksB,  \* chunks each host writes
          Inheritable        \* the ends whose sockets another child may have

ASSUME TunnelAssumption ==
  /\ IsFiniteSet(Agents) /\ Agents # {}
  /\ HdrUnits \in Nat \ {0} /\ PayUnits \in Nat \ {0}
  /\ WireCap \in Nat \ {0} /\ OutLowat \in 1..WireCap
  /\ QueueSize \in Nat \ {0} /\ HostCap \in Nat \ {0}
  /\ ChunksA \in Nat /\ ChunksB \in Nat
  /\ NoAgent \notin Agents

VARIABLES
  \* the child at end A
  pcA, hostMaskA, agentMaskA, hostSockA, agentSockA, hostInA, hostEofA,
  sendSeqA, packetA, wireOutA, recvSeqA, slotA, indexInA, needHdrA,
  queueCountA, tableA, indexOutA, outAgentA, curA, writtenA, drainedA,
  \* the child at end B
  pcB, hostMaskB, agentMaskB, hostSockB, agentSockB, hostInB, hostEofB,
  sendSeqB, packetB, wireOutB, recvSeqB, slotB, indexInB, needHdrB,
  queueCountB, tableB, indexOutB, outAgentB, curB, writtenB, drainedB,
  held  \* the ends whose agent sockets another child has copies of

\* Everything of one end but its outbound wires, which both ends change.
ownA == <<pcA, hostMaskA, agentMaskA, hostSockA, agentSockA, hostInA,
          hostEofA, sendSeqA, packetA, recvSeqA, slotA, indexInA, needHdrA,
          queueCountA, tableA, indexOutA, outAgentA, curA, writtenA, drainedA>>
ownB == <<pcB, hostMaskB, agentMaskB, hostSockB, agentSockB, hostInB,
          hostEofB, sendSeqB, packetB, recvSeqB, slotB, indexInB, needHdrB,
          queueCountB, tableB, indexOutB, outAgentB, curB, writtenB, drainedB>>

vars == <<ownA, ownB, wireOutA, wireOutB, held>>

\* The kernel closes the sockets of a process that has ended.
EndedPC(p) == p \notin {"top", "wait", "deliver"}

\* A connection is open at an end until the last copy of its socket is closed.
StillOpen(end, p, sock) == end \in held \/ (~EndedPC(p) /\ sock = "open")

UpA == [i \in Agents |-> StillOpen("A", pcA, agentSockA[i])]
UpB == [i \in Agents |-> StillOpen("B", pcB, agentSockB[i])]

A == INSTANCE ChildProperties
       WITH pc <- pcA, hostMask <- hostMaskA, agentMask <- agentMaskA,
            hostSock <- hostSockA, agentSock <- agentSockA, hostIn <- hostInA,
            hostEof <- hostEofA, sendSeq <- sendSeqA, packet <- packetA,
            wireOut <- wireOutA, recvSeq <- recvSeqA, slot <- slotA,
            indexIn <- indexInA, needHdr <- needHdrA,
            queueCount <- queueCountA, table <- tableA, indexOut <- indexOutA,
            outAgent <- outAgentA, cur <- curA, written <- writtenA,
            drained <- drainedA, peerSeq <- sendSeqB, peerPkt <- packetB,
            wireIn <- wireOutB, peerUp <- UpB, MaxChunks <- ChunksA,
            MaxPackets <- ChunksB, EnvEvents <- {"host close"}

B == INSTANCE ChildProperties
       WITH pc <- pcB, hostMask <- hostMaskB, agentMask <- agentMaskB,
            hostSock <- hostSockB, agentSock <- agentSockB, hostIn <- hostInB,
            hostEof <- hostEofB, sendSeq <- sendSeqB, packet <- packetB,
            wireOut <- wireOutB, recvSeq <- recvSeqB, slot <- slotB,
            indexIn <- indexInB, needHdr <- needHdrB,
            queueCount <- queueCountB, table <- tableB, indexOut <- indexOutB,
            outAgent <- outAgentB, cur <- curB, written <- writtenB,
            drained <- drainedB, peerSeq <- sendSeqA, peerPkt <- packetA,
            wireIn <- wireOutA, peerUp <- UpA, MaxChunks <- ChunksB,
            MaxPackets <- ChunksA, EnvEvents <- {"host close"}

Init ==
  /\ held \in SUBSET Inheritable
  /\ A!ChildInit /\ B!ChildInit
  /\ A!SendInit /\ B!SendInit
  /\ A!RecvInit /\ B!RecvInit

\* A step of one end.
AtA(step) == UNCHANGED <<ownB, held>> /\ step
AtB(step) == UNCHANGED <<ownA, held>> /\ step

\* A host closes when its side of the exchange is over.
HostDoneA == hostInA + sendSeqA = ChunksA /\ drainedA = ChunksB * PayUnits
HostDoneB == hostInB + sendSeqB = ChunksB /\ drainedB = ChunksA * PayUnits

\* What has been written to a host reaches it after its child has ended, too.
HostReadsA == A!HostTakes /\ UNCHANGED <<hostInA, hostEofA, sendSeqA, packetA, wireOutA>>
HostReadsB == B!HostTakes /\ UNCHANGED <<hostInB, hostEofB, sendSeqB, packetB, wireOutB>>

\* What the thread of a child does.
ThreadA ==
  \/ A!LoopTop \/ A!HostIn \/ A!HostOut \/ A!SendDataHost
  \/ \E i \in Agents : A!AgentOut(i) \/ A!AgentIn(i)

ThreadB ==
  \/ B!LoopTop \/ B!HostIn \/ B!HostOut \/ B!SendDataHost
  \/ \E i \in Agents : B!AgentOut(i) \/ B!AgentIn(i)

\* An end moves: its child, or its host.
StepA ==
  \/ AtA(ThreadA)
  \/ AtA(A!HostWrites) \/ AtA(HostReadsA) \/ AtA(HostDoneA /\ A!HostCloses)

StepB ==
  \/ AtB(ThreadB)
  \/ AtB(B!HostWrites) \/ AtB(HostReadsB) \/ AtB(HostDoneB /\ B!HostCloses)

\* The child that holds copies of the sockets of an end is done.
HolderEnds ==
  /\ \E e \in held : held' = held \ {e}
  /\ UNCHANGED <<ownA, ownB, wireOutA, wireOutB>>

Next == StepA \/ StepB \/ HolderEnds

Spec == Init /\ [][Next]_vars

\* The thread of a child runs whenever an event waits for it; which of the ready
\* sockets epoll reports is left open.  Hosts read, and the third child ends.
Fairness ==
  /\ WF_vars(AtA(ThreadA)) /\ WF_vars(AtB(ThreadB))
  /\ WF_vars(AtA(HostReadsA)) /\ WF_vars(AtB(HostReadsB))
  /\ WF_vars(HolderEnds)

FairSpec == Spec /\ Fairness

=============================================================================
