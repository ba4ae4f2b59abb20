------------------------------ MODULE HostStream ------------------------------
(***************************************************************************)
(* What a tunnel promises to the host at its end, and the inbound half of  *)
(* a child to its host: the units of packets 0, 1, 2, ... written to the   *)
(* host socket once each and in order, whatever connection each packet     *)
(* came over, and none before the other side had it.                       *)
(***************************************************************************)
EXTENDS Naturals, Sequences

CONSTANT PayUnits  \* payload units of a packet

VARIABLES sent,  \* packets the other side has had from its host
          out    \* everything written to the host socket, oldest first

Init == sent = 0 /\ out = <<>>

\* The other side has one more packet.
Put == sent' = sent + 1 /\ UNCHANGED out

\* One send() puts n more units on the socket, all of one packet: the units of
\* packets 0 .. q-1 are there, and b units of packet q.
Write(n) ==
  \E q \in 0..(sent - 1), b \in 0..(PayUnits - 1) :
    /\ Len(out) = q * PayUnits + b
    /\ b + n <= PayUnits
    /\ out' = out \o [j \in 1..n |-> <<q, b + j>>]
    /\ UNCHANGED sent

Next == Put \/ \E n \in 1..PayUnits : Write(n)

Spec == Init /\ [][Next]_<<sent, out>>

=============================================================================
