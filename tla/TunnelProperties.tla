--------------------------- MODULE TunnelProperties ---------------------------
(***************************************************************************)
(* What a tunnel gives its hosts, over the state of both children.         *)
(***************************************************************************)
EXTENDS TunnelEnds

\* A child leaves by "Everything has been closed!" only when its host has been
\* given all the other host wrote, although the only sign of the end is that the
\* other child has closed its connections one after the other.
DoneMeansDelivered ==
  /\ pcA = "done" => Len(writtenA) = ChunksB * PayUnits
  /\ pcB = "done" => Len(writtenB) = ChunksA * PayUnits

\* No data is in a connection that its reader has closed: the kernel would reset
\* the connection, and what goes the other way would be lost with it.
NoLateData ==
  \A i \in Agents : (UpA[i] \/ wireOutB[i] = <<>>) /\ (UpB[i] \/ wireOutA[i] = <<>>)

\* Both children at once keep their polling in order: each end's inbound half
\* stops and resumes EPOLLIN on the masks on which its outbound half changes
\* EPOLLOUT, and a slot of one end frees the wire of the other.
BothKeepPolling ==
  /\ A!PendingIsPolled /\ A!NoIdleWakeup /\ A!PausedIffFull /\ A!BlockedPacketKept
  /\ B!PendingIsPolled /\ B!NoIdleWakeup /\ B!PausedIffFull /\ B!BlockedPacketKept

AtoB == INSTANCE HostStream WITH sent <- hostInA + sendSeqA, out <- writtenB
BtoA == INSTANCE HostStream WITH sent <- hostInB + sendSeqB, out <- writtenA

\* The tunnel is two byte streams: each host gets what the other wrote, in order
\* and once, over whatever connections it came, and nothing before it was written.
ActsAsStreams == AtoB!Spec /\ BtoA!Spec

\* An end is stuck as in the finding of run pause: its host is paused, no
\* connection is polled for output, and so the host is never read again.
StuckA == ~A!PausedHostHasWaker
StuckB == ~B!PausedHostHasWaker

\* All a host has written so far has been read by the other.
ArrivedB == drainedB = (hostInA + sendSeqA) * PayUnits
ArrivedA == drainedA = (hostInB + sendSeqB) * PayUnits

\* What a host has written arrives, unless its own end gets stuck: no other wait
\* of one end for the other, through full slots, full wires, paused hosts and
\* hosts that read slowly, is for ever, and a stuck end still delivers.
Arrives == []<>((ArrivedB \/ StuckA) /\ (ArrivedA \/ StuckB))

\* When a host closes after the exchange, both children end, unless every end
\* whose host has closed is stuck and never sees it; if another child has copies
\* of the connections, they end as soon as that one has ended.
BothEnd ==
  (hostEofA \/ hostEofB)
    ~> \/ pcA = "done" /\ pcB = "done"
       \/ (hostEofA => StuckA) /\ (hostEofB => StuckB)

=============================================================================
