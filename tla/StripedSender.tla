---------------------------- MODULE StripedSender ----------------------------
(***************************************************************************)
(* What one end of a tunnel promises to the other end: the byte stream of  *)
(* its host is cut into packets numbered 0, 1, 2, ...; each packet is put  *)
(* on exactly one of the parallel connections, whole and in order; a       *)
(* connection is given its next packet only when the previous one is       *)
(* completely on the wire, so the numbers a connection carries increase;   *)
(* a connection is closed only between packets, unless this end dies,      *)
(* which closes all of them at once, wherever they are; and when one       *)
(* breaks, the packets given to it are lost, never sent again on another.  *)
(*                                                                         *)
(* The module is used on both sides of the child process: its outbound     *)
(* half is shown to implement it, and its inbound half is checked against  *)
(* a peer that is any StripedSender.                                       *)
(***************************************************************************)
EXTENDS Naturals, Sequences

CONSTANTS Conns,      \* the parallel connections
          PktUnits,   \* units a packet occupies on the wire
          WireCap,    \* units a connection can hold
          MaxPackets, \* bound: packets in the stream
          MayBreak    \* whether connections can break

VARIABLES next,  \* number of the next packet
          pend,  \* pend[i]: packet being put on i, and its units still to go
          wire,  \* wire[i]: units on connection i, oldest first
          up     \* up[i]: this end still has connection i open

vars == <<next, pend, wire, up>>

EmptyPacket == [seq |-> 0, left |-> 0]

\* The n units of packet p that come next on the wire.
Units(p, n) == [j \in 1..n |-> <<p.seq, PktUnits - p.left + j>>]

\* The packet after n more of its units are on the wire.
After(p, n) == IF n = p.left THEN EmptyPacket ELSE [p EXCEPT !.left = @ - n]

Init ==
  /\ next = 0
  /\ pend = [i \in Conns |-> EmptyPacket]
  /\ wire = [i \in Conns |-> <<>>]
  /\ up   = [i \in Conns |-> TRUE]

\* n units of packet p go on connection i.
Put(i, p, n) ==
  /\ n <= p.left
  /\ Len(wire[i]) + n <= WireCap
  /\ wire' = [wire EXCEPT ![i] = @ \o Units(p, n)]
  /\ pend' = [pend EXCEPT ![i] = After(p, n)]
  /\ UNCHANGED up

\* The next packet is given to connection i, and its first n units are sent.
Take(i, n) ==
  /\ up[i]
  /\ pend[i].left = 0
  /\ next < MaxPackets
  /\ next' = next + 1
  /\ Put(i, [seq |-> next, left |-> PktUnits], n)

\* The next packet is given to a connection that is broken.
GoesLost(i) ==
  /\ MayBreak /\ ~up[i]
  /\ pend[i].left = 0
  /\ next < MaxPackets
  /\ next' = next + 1
  /\ pend' = [pend EXCEPT ![i] = [seq |-> next, left |-> PktUnits]]

\* It is lost.
Lose(i) == GoesLost(i) /\ UNCHANGED <<wire, up>>

\* More of the packet connection i is busy with is sent.
Push(i, n) ==
  /\ up[i]
  /\ n > 0
  /\ Put(i, pend[i], n)
  /\ UNCHANGED next

\* The other end takes the oldest unit of connection i.
Drain(i) ==
  /\ wire[i] # <<>>
  /\ wire' = [wire EXCEPT ![i] = Tail(@)]
  /\ UNCHANGED <<next, pend, up>>

\* A set of connections is closed, each between two packets.
Close(S) ==
  /\ \A i \in S : pend[i].left = 0
  /\ up' = [i \in Conns |-> up[i] /\ i \notin S]
  /\ UNCHANGED <<next, pend, wire>>

\* This end dies, perhaps of the broken connection it gives a packet to: all
\* its connections are closed, inside packets too, and nothing more is sent.
Die ==
  /\ up' = [i \in Conns |-> FALSE]
  /\ UNCHANGED wire
  /\ UNCHANGED <<next, pend>> \/ \E i \in Conns : GoesLost(i)

\* The network breaks connection i: what is on the wire may be lost from some
\* point on.
Reset(i) ==
  /\ MayBreak
  /\ up' = [up EXCEPT ![i] = FALSE]
  /\ \E n \in 0..Len(wire[i]) : wire' = [wire EXCEPT ![i] = SubSeq(@, 1, n)]
  /\ UNCHANGED <<next, pend>>

Next ==
  \/ \E i \in Conns :
       \/ \E n \in 0..PktUnits : Take(i, n) \/ Push(i, n)
       \/ Lose(i)
       \/ Drain(i)
       \/ Reset(i)
  \/ \E S \in SUBSET Conns : Close(S)
  \/ Die

Spec == Init /\ [][Next]_vars

=============================================================================
