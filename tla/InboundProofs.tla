---------------------------- MODULE InboundProofs ----------------------------
(***************************************************************************)
(* Proofs about the stream a child writes to its host: whatever the peer,  *)
(* the network and the host do, packets are delivered in the order of      *)
(* their numbers, once, whole.                                             *)
(***************************************************************************)
EXTENDS ChildProofs

(***************************************************************************)
(* What a connection still has to bring.                                   *)
(***************************************************************************)

\* The unit the peer puts on connection i next, if the next packet goes there.
NextUnit(i) ==
  IF peerPkt[i].left > 0 THEN <<peerPkt[i].seq, PktUnits - peerPkt[i].left + 1>>
                         ELSE <<peerSeq, 1>>

\* Unit k of those that are still to be read from connection i: the last one is
\* NextUnit while the peer has the connection.
End(i)   == IF peerUp[i] THEN Len(wireIn[i]) + 1 ELSE Len(wireIn[i])
At(i, k) == IF k <= Len(wireIn[i]) THEN wireIn[i][k] ELSE NextUnit(i)

\* Unit v may come d units after unit u: it is of the same packet, or of a later
\* one and then the rest of u's packet is in between.
Follows(u, v, d) ==
  \/ u[1] = v[1] /\ v[2] = u[2] + d
  \/ u[1] < v[1] /\ PktUnits - u[2] + v[2] <= d

Striped(i) == \A k, l \in 1..End(i) : k < l => Follows(At(i, k), At(i, l), l - k)

\* What is on the wire comes before the rest of packet p.
Before(i, p) ==
  \A k \in 1..Len(wireIn[i]) :
    \/ wireIn[i][k][1] < p.seq
    \/ wireIn[i][k][1] = p.seq /\ wireIn[i][k][2] <= PktUnits - p.left

Behind(i) == peerPkt[i].left > 0 => Before(i, peerPkt[i])

\* Packets on their way have been numbered.
Numbered(i) ==
  /\ \A k \in 1..Len(wireIn[i]) : /\ wireIn[i][k][1] < peerSeq
                                  /\ wireIn[i][k][2] \in 1..PktUnits
  /\ peerPkt[i].left > 0 => peerPkt[i].seq < peerSeq

\* No packet is on two connections.
Apart == \A i, j \in Agents, q \in Nat : Carries(i, q) /\ Carries(j, q) => i = j

WireInv == Apart /\ \A i \in Agents : Striped(i) /\ Behind(i) /\ Numbered(i)

\* Sizes are numbers.
LEMMA Sizes ==
  /\ HdrUnits \in Nat /\ HdrUnits > 0 /\ PayUnits \in Nat /\ PayUnits > 0
  /\ PktUnits \in Nat /\ PktUnits > 0 /\ PktUnits = HdrUnits + PayUnits
BY UnitsAssumption DEF PktUnits

\* So are the parts of a unit.
LEMMA WireNumbers ==
  ASSUME PeerTypeOK, NEW i \in Agents
  PROVE  /\ peerSeq \in Nat /\ wireIn[i] \in Seq(Unit) /\ Len(wireIn[i]) \in Nat
         /\ peerPkt[i].left \in 0..PktUnits /\ peerPkt[i].seq \in Nat
         /\ \A k \in 1..Len(wireIn[i]) :
              wireIn[i][k] \in Unit /\ wireIn[i][k][1] \in Nat /\ wireIn[i][k][2] \in Nat
         /\ End(i) \in Nat
         /\ NextUnit(i)[1] \in Nat /\ NextUnit(i)[2] \in 1..PktUnits
<1>1. peerSeq \in Nat /\ wireIn[i] \in Seq(Unit) /\ peerPkt[i] \in Packet
  BY DEF PeerTypeOK
<1>2. Len(wireIn[i]) \in Nat
  BY <1>1, LenProperties
<1>3. \A k \in 1..Len(wireIn[i]) :
        wireIn[i][k] \in Unit /\ wireIn[i][k][1] \in Nat /\ wireIn[i][k][2] \in Nat
  <2>1. \A k \in 1..Len(wireIn[i]) : wireIn[i][k] \in Unit
    BY <1>1, ElementOfSeq
  <2> QED
    BY <2>1 DEF Unit
<1>4. peerPkt[i].left \in 0..PktUnits /\ peerPkt[i].seq \in Nat
  BY <1>1 DEF Packet
<1>5. NextUnit(i)[1] \in Nat /\ NextUnit(i)[2] \in 1..PktUnits
  BY <1>1, <1>4, Sizes DEF NextUnit
<1>6. End(i) \in Nat
  BY <1>2 DEF End
<1> QED
  BY <1>1, <1>2, <1>3, <1>4, <1>5, <1>6

\* Every unit that is still to come has a number and a place in its packet.
LEMMA AtNumbers ==
  ASSUME PeerTypeOK, NEW i \in Agents, Numbered(i), NEW k \in Nat, k > 0
  PROVE  At(i, k)[1] \in Nat /\ At(i, k)[2] \in 1..PktUnits /\ At(i, k)[1] <= peerSeq
<1>1. CASE k <= Len(wireIn[i])
  <2>1. k \in 1..Len(wireIn[i]) /\ At(i, k) = wireIn[i][k]
    BY <1>1, WireNumbers DEF At
  <2> QED
    BY <2>1, WireNumbers DEF Numbered
<1>2. CASE ~(k <= Len(wireIn[i]))
  <2>1. At(i, k) = NextUnit(i)
    BY <1>2 DEF At
  <2>2. NextUnit(i)[1] <= peerSeq
    BY WireNumbers DEF NextUnit, Numbered
  <2> QED
    BY <2>1, <2>2, WireNumbers
<1> QED
  BY <1>1, <1>2

\* Reading takes units from the front of a connection and leaves the order of
\* the others.
LEMMA ConsumeWire ==
  ASSUME PeerTypeOK, WireInv, NEW i \in Agents, NEW n \in Nat,
         n <= Len(wireIn[i]), Consume(i, n)
  PROVE  /\ WireInv'
         /\ \A j \in Agents, q \in Nat : Carries(j, q)' => Carries(j, q)
         /\ \A j \in Agents \ {i} : wireIn'[j] = wireIn[j]
         /\ Len(wireIn'[i]) = Len(wireIn[i]) - n
         /\ \A k \in 1..(Len(wireIn[i]) - n) : wireIn'[i][k] = wireIn[i][k + n]
<1>0. UNCHANGED <<peerSeq, peerPkt, peerUp>>
  BY DEF Consume
<1>1. wireIn[i] \in Seq(Unit) /\ Len(wireIn[i]) \in Nat
  BY WireNumbers
<1>2. wireIn'[i] = SubSeq(wireIn[i], n + 1, Len(wireIn[i]))
  BY DEF Consume, PeerTypeOK
<1>3. \A j \in Agents \ {i} : wireIn'[j] = wireIn[j]
  BY DEF Consume, PeerTypeOK
<1>4. \A k \in (n + 1)..Len(wireIn[i]) : wireIn[i][k] \in Unit
  BY <1>1, WireNumbers
<1>5. /\ Len(wireIn'[i]) = IF n + 1 <= Len(wireIn[i]) THEN Len(wireIn[i]) - (n + 1) + 1 ELSE 0
      /\ \A k \in 1..(Len(wireIn[i]) - (n + 1) + 1) : wireIn'[i][k] = wireIn[i][(n + 1) + k - 1]
  BY <1>1, <1>2, <1>4, SubSeqProperties
<1>6. Len(wireIn'[i]) = Len(wireIn[i]) - n
  BY <1>1, <1>5
<1>7. \A k \in 1..(Len(wireIn[i]) - n) : wireIn'[i][k] = wireIn[i][k + n]
  <2> SUFFICES ASSUME NEW k \in 1..(Len(wireIn[i]) - n)
               PROVE  wireIn'[i][k] = wireIn[i][k + n]
    OBVIOUS
  <2>1. k \in 1..(Len(wireIn[i]) - (n + 1) + 1) /\ (n + 1) + k - 1 = k + n
    BY <1>1
  <2> QED
    BY <1>5, <2>1
<1>8. \A k \in 1..(Len(wireIn[i]) - n) : k + n \in 1..Len(wireIn[i])
  BY <1>1
<1>9. \A j \in Agents, q \in Nat : Carries(j, q)' => Carries(j, q)
  <2> SUFFICES ASSUME NEW j \in Agents, NEW q \in Nat, Carries(j, q)'
               PROVE  Carries(j, q)
    OBVIOUS
  <2>1. CASE j = i
    BY <1>0, <1>6, <1>7, <1>8, <2>1 DEF Carries
  <2>2. CASE j # i
    BY <1>0, <1>3, <2>2 DEF Carries
  <2> QED
    BY <2>1, <2>2
<1>10. \A j \in Agents : Striped(j)' /\ Behind(j)' /\ Numbered(j)'
  <2>1. ASSUME NEW j \in Agents \ {i} PROVE Striped(j)' /\ Behind(j)' /\ Numbered(j)'
    <3>1. Striped(j) /\ Behind(j) /\ Numbered(j) /\ wireIn'[j] = wireIn[j]
      BY <1>3 DEF WireInv
    <3> QED
      BY <1>0, <3>1 DEF Striped, Behind, Before, Numbered, At, End, NextUnit
  <2>2. Striped(i) /\ Behind(i) /\ Numbered(i)
    BY DEF WireInv
  <2>3. Behind(i)' /\ Numbered(i)'
    <3>1. \A k \in 1..Len(wireIn'[i]) :
            k + n \in 1..Len(wireIn[i]) /\ wireIn'[i][k] = wireIn[i][k + n]
      BY <1>6, <1>7, <1>8
    <3>2. Behind(i)'
      BY <1>0, <2>2, <3>1 DEF Behind, Before
    <3>3. Numbered(i)'
      BY <1>0, <2>2, <3>1 DEF Numbered
    <3> QED
      BY <3>2, <3>3
  <2>4. Striped(i)'
    <3>1. End(i) \in Nat /\ End(i)' = End(i) - n /\ NextUnit(i)' = NextUnit(i)
      BY <1>0, <1>1, <1>6 DEF End, NextUnit
    <3>2. \A k \in 1..(End(i) - n) : At(i, k)' = At(i, k + n)
      <4> SUFFICES ASSUME NEW k \in 1..(End(i) - n) PROVE At(i, k)' = At(i, k + n)
        OBVIOUS
      <4>1. At(i, k)' = IF k <= Len(wireIn'[i]) THEN wireIn'[i][k] ELSE NextUnit(i)
        BY <3>1 DEF At
      <4>2. k <= Len(wireIn'[i]) <=> k + n <= Len(wireIn[i])
        BY <1>1, <1>6, <3>1
      <4>3. k <= Len(wireIn'[i]) => wireIn'[i][k] = wireIn[i][k + n]
        BY <1>1, <1>6, <1>7, <3>1
      <4> QED
        BY <4>1, <4>2, <4>3 DEF At
    <3> SUFFICES ASSUME NEW k \in 1..(End(i) - n), NEW l \in 1..(End(i) - n), k < l
                 PROVE  Follows(At(i, k + n), At(i, l + n), l - k)
      BY <3>1, <3>2 DEF Striped, Follows
    <3>3. k + n \in 1..End(i) /\ l + n \in 1..End(i) /\ k + n < l + n
          /\ (l + n) - (k + n) = l - k
      BY <3>1
    <3>4. Follows(At(i, k + n), At(i, l + n), (l + n) - (k + n))
      BY <2>2, <3>3 DEF Striped
    <3> QED
      BY <3>3, <3>4
  <2> QED
    BY <2>1, <2>3, <2>4
<1>11. Apart'
  BY <1>9 DEF WireInv, Apart
<1> QED
  BY <1>3, <1>6, <1>7, <1>9, <1>10, <1>11 DEF WireInv

\* A connection whose units are left alone keeps their order when another packet
\* is numbered: what may come next comes later still.
LEMMA NumberedElsewhere ==
  ASSUME PeerTypeOK, NEW i \in Agents, Striped(i), Behind(i), Numbered(i),
         peerSeq' = peerSeq + 1,
         wireIn'[i] = wireIn[i], peerPkt'[i] = peerPkt[i], peerUp'[i] = peerUp[i]
  PROVE  Striped(i)' /\ Behind(i)' /\ Numbered(i)'
<1>0. peerSeq \in Nat
  BY WireNumbers
<1>1. Behind(i)'
  BY DEF Behind, Before
<1>2. Numbered(i)'
  BY <1>0, WireNumbers DEF Numbered
<1>3. Striped(i)'
  <2>1. End(i)' = End(i) /\ End(i) \in Nat /\ End(i) <= Len(wireIn[i]) + 1
    BY WireNumbers DEF End
  <2>2. ASSUME NEW k \in Nat, k <= Len(wireIn[i])
        PROVE  At(i, k)' = At(i, k)
    BY <2>2 DEF At
  <2>3. ASSUME NEW k \in Nat, ~(k <= Len(wireIn[i]))
        PROVE  /\ At(i, k)[1] <= At(i, k)'[1]
               /\ At(i, k)[2] = At(i, k)'[2]
               /\ At(i, k)[1] # At(i, k)'[1] => At(i, k)[1] = peerSeq
               /\ At(i, k)'[1] \in Nat
    <3>1. At(i, k) = NextUnit(i) /\ At(i, k)' = NextUnit(i)'
      BY <2>3 DEF At
    <3>2. CASE peerPkt[i].left > 0
      <4>1. NextUnit(i)' = NextUnit(i)
        BY <3>2 DEF NextUnit
      <4> QED
        BY <3>1, <4>1, WireNumbers
    <3>3. CASE ~(peerPkt[i].left > 0)
      <4>1. NextUnit(i)' = <<peerSeq + 1, 1>> /\ NextUnit(i) = <<peerSeq, 1>>
        BY <3>3 DEF NextUnit
      <4> QED
        BY <1>0, <3>1, <4>1
    <3> QED
      BY <3>2, <3>3
  <2> SUFFICES ASSUME NEW k \in 1..End(i), NEW l \in 1..End(i), k < l
               PROVE  Follows(At(i, k), At(i, l), l - k)'
    BY <2>1 DEF Striped
  <2>4. k \in Nat /\ l \in Nat /\ k > 0 /\ k <= Len(wireIn[i])
    BY <2>1, WireNumbers
  <2>5. At(i, k)' = At(i, k) /\ At(i, k)[1] < peerSeq /\ At(i, k)[1] \in Nat
    <3>1. At(i, k)' = At(i, k) /\ At(i, k) = wireIn[i][k] /\ k \in 1..Len(wireIn[i])
      BY <2>2, <2>4, WireNumbers DEF At
    <3> QED
      BY <3>1, WireNumbers DEF Numbered
  <2>6. Follows(At(i, k), At(i, l), l - k)
    BY DEF Striped
  <2>7. CASE l <= Len(wireIn[i])
    BY <2>2, <2>4, <2>5, <2>6, <2>7 DEF Follows
  <2>8. CASE ~(l <= Len(wireIn[i]))
    <3>1. /\ At(i, l)[1] <= At(i, l)'[1]
          /\ At(i, l)[2] = At(i, l)'[2]
          /\ At(i, l)[1] # At(i, l)'[1] => At(i, l)[1] = peerSeq
          /\ At(i, l)'[1] \in Nat
      BY <2>3, <2>4, <2>8
    <3>2. At(i, l)[1] \in Nat
      BY <2>4, AtNumbers
    <3> QED
      BY <1>0, <2>5, <2>6, <3>1, <3>2 DEF Follows
  <2> QED
    BY <2>7, <2>8
<1> QED
  BY <1>1, <1>2, <1>3

\* What may come d units after u is of the same packet and m units further, or
\* begins the next packet, when m more units are in between.
LEMMA FollowsFurther ==
  ASSUME NEW u, u[1] \in Nat, u[2] \in Nat, NEW q \in Nat, NEW b \in Nat, NEW d \in Nat,
         NEW m \in Nat, Follows(u, <<q, b>>, d)
  PROVE  /\ Follows(u, <<q, b + m>>, d + m)
         /\ \A r \in Nat : r > q /\ b + m = PktUnits + 1 => Follows(u, <<r, 1>>, d + m)
<1>0. PktUnits \in Nat
  BY Sizes
<1>1. CASE u[1] = q /\ b = u[2] + d
  BY <1>0, <1>1 DEF Follows
<1>2. CASE u[1] < q /\ PktUnits - u[2] + b <= d
  BY <1>0, <1>2 DEF Follows
<1> QED
  BY <1>1, <1>2 DEF Follows

\* Sequence v is u, then n units of packet q from a on.
Extends(v, u, L, n, q, a) ==
  /\ \A k \in 1..L : v[k] = u[k]
  /\ \A m \in 1..n : v[L + m] = <<q, a + m>>

InOrder(u, m) == \A k, l \in 1..m : k < l => Follows(u[k], u[l], l - k)

Numbers(u, m) == \A k \in 1..m : u[k][1] \in Nat /\ u[k][2] \in Nat

\* n units of a packet, put after what is on the wire, the last one followed by e.
LEMMA ExtendedInOrder ==
  ASSUME NEW L \in Nat, NEW n \in Nat, NEW a \in Nat, NEW q \in Nat, NEW r \in Nat,
         NEW u, NEW v, NEW e,
         Numbers(u, L), InOrder(u, L + 1), u[L + 1] = <<q, a + 1>>,
         Extends(v, u, L, n, q, a), v[L + n + 1] = e,
         e = <<q, a + n + 1>> \/ (e = <<r, 1>> /\ r > q /\ a + n = PktUnits)
  PROVE  InOrder(v, L + n + 1)
<1> SUFFICES ASSUME NEW k \in 1..(L + n + 1), NEW l \in 1..(L + n + 1), k < l
             PROVE  Follows(v[k], v[l], l - k)
  BY DEF InOrder
<1> USE DEF Numbers, InOrder, Extends
<1>0. PktUnits \in Nat
  BY Sizes
<1>1. CASE k \in 1..L
  <2>1. /\ v[k] = u[k] /\ u[k][1] \in Nat /\ u[k][2] \in Nat /\ L + 1 - k \in Nat
        /\ a + 1 \in Nat
    BY <1>1
  <2>2. Follows(u[k], <<q, a + 1>>, L + 1 - k)
    <3>1. k \in 1..(L + 1) /\ L + 1 \in 1..(L + 1) /\ k < L + 1
      BY <1>1
    <3>2. Follows(u[k], u[L + 1], L + 1 - k)
      BY <3>1
    <3> QED
      BY <3>2
  <2>3. CASE l \in 1..L
    <3>1. k \in 1..(L + 1) /\ l \in 1..(L + 1)
      BY <1>1, <2>3
    <3> QED
      BY <2>1, <2>3, <3>1
  <2>4. CASE l = L + n + 1 /\ e = <<r, 1>> /\ r > q /\ a + n = PktUnits
    <3>1. n \in Nat /\ (a + 1) + n = PktUnits + 1 /\ (L + 1 - k) + n = l - k
      BY <1>0, <2>4
    <3>2. Follows(u[k], <<r, 1>>, (L + 1 - k) + n)
      BY <2>1, <2>2, <2>4, <3>1, FollowsFurther
    <3> QED
      BY <2>1, <2>4, <3>1, <3>2
  <2>5. ASSUME NEW m \in 1..(n + 1), l = L + m, v[l] = <<q, a + m>>
        PROVE  Follows(v[k], v[l], l - k)
    <3>1. m - 1 \in Nat /\ (a + 1) + (m - 1) = a + m /\ (L + 1 - k) + (m - 1) = l - k
      BY <2>5
    <3>2. Follows(u[k], <<q, (a + 1) + (m - 1)>>, (L + 1 - k) + (m - 1))
      BY <2>1, <2>2, <3>1, FollowsFurther
    <3> QED
      BY <2>1, <2>5, <3>1, <3>2
  <2>6. CASE l = L + n + 1 /\ e = <<q, a + n + 1>>
    <3>1. n + 1 \in 1..(n + 1) /\ l = L + (n + 1) /\ v[l] = <<q, a + (n + 1)>>
      BY <2>6
    <3> QED
      BY <2>5, <3>1
  <2>7. CASE l \in (L + 1)..(L + n)
    <3>1. l - L \in 1..n /\ l - L \in 1..(n + 1) /\ l = L + (l - L)
      BY <2>7
    <3>2. v[L + (l - L)] = <<q, a + (l - L)>>
      BY <3>1
    <3> QED
      BY <2>5, <3>1, <3>2
  <2> QED
    BY <2>3, <2>4, <2>6, <2>7
<1>2. CASE k \in (L + 1)..(L + n)
  <2>1. v[k] = <<q, a + (k - L)>>
    <3>1. k - L \in 1..n /\ k = L + (k - L)
      BY <1>2
    <3> QED
      BY <3>1
  <2>2. CASE l \in (L + 1)..(L + n)
    <3>1. l - L \in 1..n /\ l = L + (l - L)
      BY <2>2
    <3>2. v[l] = <<q, a + (l - L)>>
      BY <3>1
    <3>3. a + (l - L) = (a + (k - L)) + (l - k)
      BY <1>2, <2>2
    <3> QED
      BY <2>1, <3>2, <3>3 DEF Follows
  <2>3. CASE l = L + n + 1 /\ e = <<q, a + n + 1>>
    <3>1. v[l] = <<q, a + n + 1>> /\ a + n + 1 = (a + (k - L)) + (l - k)
      BY <1>2, <2>3
    <3> QED
      BY <2>1, <3>1 DEF Follows
  <2>4. CASE l = L + n + 1 /\ e = <<r, 1>> /\ r > q /\ a + n = PktUnits
    <3>1. v[l] = <<r, 1>> /\ q < r /\ PktUnits - (a + (k - L)) + 1 <= l - k
      BY <1>0, <1>2, <2>4
    <3> QED
      BY <2>1, <3>1 DEF Follows
  <2> QED
    BY <1>2, <2>2, <2>3, <2>4
<1> QED
  BY <1>1, <1>2

\* A sequence with n units of packet p at its end.
LEMMA ExtendedWire ==
  ASSUME NEW w \in Seq(Unit), NEW p \in Packet, NEW n \in Nat, n <= p.left
  PROVE  /\ Len(w \o Units(p, n)) = Len(w) + n
         /\ Extends(w \o Units(p, n), w, Len(w), n, p.seq, PktUnits - p.left)
<1>1. Units(p, n) \in Seq(Unit) /\ Len(Units(p, n)) = n /\ Len(w) \in Nat
  BY UnitsType, LenProperties
<1>2. /\ Len(w \o Units(p, n)) = Len(w) + n
      /\ \A k \in 1..(Len(w) + n) :
           (w \o Units(p, n))[k] = IF k <= Len(w) THEN w[k] ELSE Units(p, n)[k - Len(w)]
  BY <1>1, ConcatProperties
<1>3. \A k \in 1..Len(w) : k \in 1..(Len(w) + n) /\ k <= Len(w)
  BY <1>1
<1>4. ASSUME NEW m \in 1..n
      PROVE  (w \o Units(p, n))[Len(w) + m] = <<p.seq, PktUnits - p.left + m>>
  <2>1. /\ Len(w) + m \in 1..(Len(w) + n) /\ ~(Len(w) + m <= Len(w))
        /\ (Len(w) + m) - Len(w) = m
    BY <1>1
  <2>2. (w \o Units(p, n))[Len(w) + m] = Units(p, n)[m]
    BY <1>2, <2>1
  <2> QED
    BY <2>2 DEF Units
<1> QED
  BY <1>2, <1>3, <1>4 DEF Extends

\* The peer puts the next n units of packet p on connection i, the first of them
\* being the one that was to come next.
LEMMA PutWire ==
  ASSUME PeerTypeOK, NEW i \in Agents, Striped(i), Behind(i), Numbered(i), peerUp[i],
         NEW p \in Packet, p.left > 0, NextUnit(i) = <<p.seq, PktUnits - p.left + 1>>,
         Before(i, p),
         p.seq < peerSeq', peerSeq <= peerSeq', peerSeq' \in Nat,
         NEW n \in Nat, Peer!Put(i, p, n)
  PROVE  /\ Striped(i)' /\ Behind(i)' /\ Numbered(i)'
         /\ \A q \in Nat : Carries(i, q)' => Carries(i, q) \/ q = p.seq
         /\ Len(wireIn[i]) <= Len(wireIn'[i]) /\ Len(wireIn'[i]) \in Nat
         /\ \A k \in 1..Len(wireIn[i]) : wireIn'[i][k] = wireIn[i][k]
         /\ \A m \in Nat : m = Len(wireIn[i]) + 1 => At(i, m)' = NextUnit(i)
<1>1. PICK L \in Nat : L = Len(wireIn[i])
  BY WireNumbers
<1>2. PICK a \in Nat : a = PktUnits - p.left /\ p.left = PktUnits - a
  BY Sizes DEF Packet
<1>3. /\ n <= p.left /\ p.left \in Nat /\ p.left <= PktUnits /\ PktUnits \in Nat
      /\ p.seq \in Nat /\ peerSeq \in Nat
  BY WireNumbers, Sizes DEF Packet, Peer!Put
<1>4. /\ wireIn'[i] = wireIn[i] \o Units(p, n)
      /\ peerPkt'[i] = IF n = p.left THEN [seq |-> 0, left |-> 0] ELSE [p EXCEPT !.left = @ - n]
      /\ peerUp'[i]
  BY DEF Peer!Put, Peer!Units, Units, Peer!After, Peer!EmptyPacket, PeerTypeOK
<1>5. /\ Len(wireIn'[i]) = L + n
      /\ \A k \in 1..L : wireIn'[i][k] = wireIn[i][k]
      /\ \A m \in 1..n : wireIn'[i][L + m] = <<p.seq, a + m>>
  <2>1. wireIn[i] \in Seq(Unit)
    BY WireNumbers
  <2>2. /\ Len(wireIn'[i]) = Len(wireIn[i]) + n
        /\ Extends(wireIn'[i], wireIn[i], Len(wireIn[i]), n, p.seq, PktUnits - p.left)
    BY <1>3, <1>4, <2>1, ExtendedWire
  <2> QED
    BY <1>1, <1>2, <2>2 DEF Extends
<1>0. /\ a + n <= PktUnits /\ (n = p.left => a + n = PktUnits)
      /\ \A m \in 1..n : a + m \in 1..PktUnits /\ a + m <= a + n
  <2>1. a + n <= PktUnits /\ (n = p.left => a + n = PktUnits)
    BY <1>2, <1>3
  <2>2. \A m \in 1..n : a + m <= a + n /\ a + m >= 1 /\ a + m \in Nat
    OBVIOUS
  <2> QED
    BY <1>3, <2>1, <2>2
<1>6. \A k \in 1..(L + n) :
        k \in 1..L \/ \E m \in 1..n : k = L + m /\ wireIn'[i][k] = <<p.seq, a + m>>
  <2> SUFFICES ASSUME NEW k \in 1..(L + n), ~(k \in 1..L)
               PROVE  \E m \in 1..n : k = L + m /\ wireIn'[i][k] = <<p.seq, a + m>>
    OBVIOUS
  <2>1. k - L \in 1..n /\ k = L + (k - L)
    OBVIOUS
  <2> QED
    BY <1>5, <2>1
<1>7. /\ n = p.left => peerPkt'[i].left = 0
      /\ n # p.left => peerPkt'[i].left = p.left - n /\ peerPkt'[i].seq = p.seq
                       /\ p.left - n > 0
  BY <1>3, <1>4 DEF Packet
<1>8. \A k \in 1..L : /\ \/ wireIn[i][k][1] < p.seq
                         \/ wireIn[i][k][1] = p.seq /\ wireIn[i][k][2] <= a
                      /\ wireIn[i][k][1] \in Nat /\ wireIn[i][k][2] \in 1..PktUnits
  BY <1>1, <1>2, WireNumbers DEF Numbered, Before
<1>9. Behind(i)'
  <2> SUFFICES ASSUME n # p.left, NEW k \in 1..(L + n)
               PROVE  \/ wireIn'[i][k][1] < p.seq
                      \/ wireIn'[i][k][1] = p.seq /\ wireIn'[i][k][2] <= PktUnits - (p.left - n)
    BY <1>5, <1>7 DEF Behind, Before
  <2>1. PktUnits - (p.left - n) = a + n
    BY <1>2, <1>3
  <2>2. CASE k \in 1..L
    <3>1. wireIn'[i][k] = wireIn[i][k]
      BY <1>5, <2>2
    <3>2. wireIn[i][k][2] <= a => wireIn[i][k][2] <= a + n
      BY <1>8, <2>2, <1>3
    <3> QED
      BY <1>8, <2>1, <2>2, <3>1, <3>2
  <2>3. ASSUME NEW m \in 1..n, wireIn'[i][k] = <<p.seq, a + m>>
        PROVE  wireIn'[i][k][1] = p.seq /\ wireIn'[i][k][2] <= a + n
    BY <2>3
  <2> QED
    BY <1>6, <2>1, <2>2, <2>3
<1>10. Numbered(i)'
  <2>1. ASSUME NEW k \in 1..(L + n)
        PROVE  wireIn'[i][k][1] < peerSeq' /\ wireIn'[i][k][2] \in 1..PktUnits
    <3>1. CASE k \in 1..L
      <4>1. wireIn'[i][k] = wireIn[i][k]
        BY <1>5, <3>1
      <4>2. wireIn[i][k][1] < peerSeq'
        <5>1. wireIn[i][k][1] < p.seq \/ wireIn[i][k][1] = p.seq
          BY <1>8, <3>1
        <5>2. wireIn[i][k][1] \in Nat
          BY <1>8, <3>1
        <5> QED
          BY <1>3, <5>1, <5>2
      <4> QED
        BY <1>8, <3>1, <4>1, <4>2
    <3>2. ASSUME NEW m \in 1..n, wireIn'[i][k] = <<p.seq, a + m>>
          PROVE  wireIn'[i][k][1] < peerSeq' /\ wireIn'[i][k][2] \in 1..PktUnits
      <4>1. a + m \in 1..PktUnits
        BY <1>0
      <4> QED
        BY <3>2, <4>1
    <3> QED
      BY <1>6, <3>1, <3>2
  <2> QED
    BY <1>5, <1>7, <2>1 DEF Numbered
<1>11. \A q \in Nat : Carries(i, q)' => Carries(i, q) \/ q = p.seq
  <2> SUFFICES ASSUME NEW q \in Nat, Carries(i, q)', q # p.seq PROVE Carries(i, q)
    OBVIOUS
  <2>1. PICK k \in 1..(L + n) : wireIn'[i][k][1] = q
    BY <1>5, <1>7 DEF Carries
  <2>2. k \in 1..L
    BY <1>6, <2>1
  <2> QED
    BY <1>1, <1>5, <2>1, <2>2 DEF Carries
<1>12. NextUnit(i) = <<p.seq, a + 1>>
  BY <1>2
<1>13. NextUnit(i)' = IF n = p.left THEN <<peerSeq', 1>> ELSE <<p.seq, a + n + 1>>
  <2>1. PktUnits - (p.left - n) + 1 = a + n + 1
    BY <1>2, <1>3
  <2> QED
    BY <1>7, <2>1 DEF NextUnit
<1>14. /\ End(i)' = L + n + 1 /\ End(i) = L + 1
       /\ \A k \in 1..L : At(i, k)' = At(i, k) /\ At(i, k) = wireIn[i][k]
       /\ At(i, L + 1) = <<p.seq, a + 1>>
       /\ \A m \in 1..n : At(i, L + m)' = <<p.seq, a + m>>
       /\ At(i, L + n + 1)' = NextUnit(i)'
  <2>1. End(i)' = L + n + 1 /\ End(i) = L + 1
    BY <1>1, <1>4, <1>5 DEF End
  <2>2. \A k \in 1..L : At(i, k)' = At(i, k) /\ At(i, k) = wireIn[i][k]
    BY <1>1, <1>3, <1>5 DEF At
  <2>3. At(i, L + 1) = <<p.seq, a + 1>>
    BY <1>1, <1>12 DEF At
  <2>4. \A m \in 1..n : L + m <= L + n
    OBVIOUS
  <2>5. \A m \in 1..n : At(i, L + m)' = <<p.seq, a + m>>
    BY <1>5, <2>4 DEF At
  <2>6. ~(L + n + 1 <= L + n)
    OBVIOUS
  <2>7. At(i, L + n + 1)' = NextUnit(i)'
    BY <1>5, <2>6 DEF At
  <2> QED
    BY <2>1, <2>2, <2>3, <2>5, <2>7
<1>15. Striped(i)'
  <2> DEFINE u == [k \in 1..(L + 1) |-> At(i, k)]
             v == [k \in 1..(L + n + 1) |-> At(i, k)']
  <2>1. \A k \in 1..L : /\ k \in 1..(L + 1) /\ k \in 1..(L + n + 1)
                        /\ u[k] = wireIn[i][k] /\ v[k] = u[k]
    BY <1>14
  <2>2. \A k \in 1..L : wireIn[i][k][1] \in Nat /\ wireIn[i][k][2] \in Nat
    BY <1>3, <1>8
  <2>3. InOrder(u, L + 1)
    <3>1. \A k \in 1..(L + 1) : u[k] = At(i, k) /\ k \in 1..End(i)
      BY <1>14
    <3> QED
      BY <3>1 DEF Striped, InOrder
  <2>4. u[L + 1] = <<p.seq, a + 1>>
    BY <1>14
  <2>5. \A m \in 1..n : L + m \in 1..(L + n + 1)
    OBVIOUS
  <2>6. Extends(v, u, L, n, p.seq, a)
    <3>1. \A m \in 1..n : v[L + m] = <<p.seq, a + m>>
      BY <1>14, <2>5
    <3> QED
      BY <2>1, <3>1 DEF Extends
  <2>7. v[L + n + 1] = NextUnit(i)'
    BY <1>14
  <2>8. \/ NextUnit(i)' = <<p.seq, a + n + 1>>
        \/ (NextUnit(i)' = <<peerSeq', 1>> /\ peerSeq' > p.seq /\ a + n = PktUnits)
    BY <1>0, <1>13
  <2>9. \A k \in 1..(L + n + 1) : v[k] = At(i, k)'
    OBVIOUS
  <2> HIDE DEF u, v
  <2>10. Numbers(u, L)
    BY <2>1, <2>2 DEF Numbers
  <2>11. InOrder(v, L + n + 1)
    BY <1>3, <2>3, <2>4, <2>6, <2>7, <2>8, <2>10, ExtendedInOrder
  <2>12. \A k, l \in 1..(L + n + 1) : k < l => Follows(At(i, k)', At(i, l)', l - k)
    BY <2>9, <2>11 DEF InOrder
  <2> QED
    BY <1>14, <2>12 DEF Striped, Follows
<1>16. At(i, L + 1)' = NextUnit(i)
  <2>1. CASE n = 0
    <3>1. n # p.left /\ L + n + 1 = L + 1 /\ a + n + 1 = a + 1
      BY <1>3, <2>1
    <3>2. At(i, L + 1)' = NextUnit(i)'
      BY <1>14, <3>1
    <3>3. NextUnit(i)' = <<p.seq, a + 1>>
      BY <1>13, <3>1
    <3> QED
      BY <1>12, <3>2, <3>3
  <2>2. CASE n # 0
    <3>1. 1 \in 1..n
      BY <2>2
    <3>2. At(i, L + 1)' = <<p.seq, a + 1>>
      BY <1>14, <3>1
    <3> QED
      BY <1>12, <3>2
  <2> QED
    BY <2>1, <2>2
<1>17. Len(wireIn[i]) <= Len(wireIn'[i]) /\ Len(wireIn'[i]) \in Nat
  BY <1>1, <1>5
<1> QED
  BY <1>1, <1>5, <1>9, <1>10, <1>11, <1>15, <1>16, <1>17

\* What the inbound half relies on when the peer or the network moves: the first
\* unit of a connection keeps its place in its packet, and nothing old comes again.
PeerFrame ==
  /\ peerSeq' \in Nat /\ peerSeq <= peerSeq'
  /\ \A j \in Agents, q \in Nat :
       Carries(j, q)' => Carries(j, q) \/ (q = peerSeq /\ peerSeq < peerSeq')
  /\ \A j \in Agents : End(j)' > 0 => End(j) > 0 /\ At(j, 1)'[2] = At(j, 1)[2]

\* A connection that is left alone, whether or not a packet is numbered.
LEMMA OtherConnection ==
  ASSUME PeerTypeOK, WireInv, NEW j \in Agents,
         peerSeq' = peerSeq \/ peerSeq' = peerSeq + 1,
         wireIn'[j] = wireIn[j], peerPkt'[j] = peerPkt[j], peerUp'[j] = peerUp[j]
  PROVE  /\ Striped(j)' /\ Behind(j)' /\ Numbered(j)'
         /\ \A q \in Nat : Carries(j, q)' => Carries(j, q)
         /\ End(j)' > 0 => End(j) > 0 /\ At(j, 1)'[2] = At(j, 1)[2]
<1>1. Striped(j) /\ Behind(j) /\ Numbered(j)
  BY DEF WireInv
<1>2. Striped(j)' /\ Behind(j)' /\ Numbered(j)'
  <2>1. CASE peerSeq' = peerSeq
    BY <1>1, <2>1 DEF Striped, Behind, Before, Numbered, At, End, NextUnit
  <2>2. CASE peerSeq' = peerSeq + 1
    BY <1>1, <2>2, NumberedElsewhere
  <2> QED
    BY <2>1, <2>2
<1>3. \A q \in Nat : Carries(j, q)' => Carries(j, q)
  BY DEF Carries
<1>4. End(j)' = End(j) /\ At(j, 1)'[2] = At(j, 1)[2]
  <2>1. NextUnit(j)'[2] = NextUnit(j)[2]
    BY DEF NextUnit
  <2> QED
    BY <2>1 DEF End, At
<1> QED
  BY <1>2, <1>3, <1>4

\* A connection that is closed and not written to, when another packet is
\* numbered.
LEMMA ClosedConnection ==
  ASSUME PeerTypeOK, WireInv, NEW j \in Agents, peerSeq' = peerSeq + 1,
         wireIn'[j] = wireIn[j], peerPkt'[j] = peerPkt[j], ~peerUp'[j]
  PROVE  /\ Striped(j)' /\ Behind(j)' /\ Numbered(j)'
         /\ \A q \in Nat : Carries(j, q)' => Carries(j, q)
         /\ End(j)' > 0 => End(j) > 0 /\ At(j, 1)'[2] = At(j, 1)[2]
<1>1. Striped(j) /\ Behind(j) /\ Numbered(j) /\ peerSeq \in Nat /\ Len(wireIn[j]) \in Nat
  BY WireNumbers DEF WireInv
<1>2. Behind(j)' /\ Numbered(j)'
  BY <1>1, WireNumbers DEF Behind, Before, Numbered
<1>3. \A q \in Nat : Carries(j, q)' => Carries(j, q)
  BY DEF Carries
<1>4. End(j)' = Len(wireIn[j]) /\ End(j) \in Nat /\ End(j)' <= End(j)
  BY <1>1 DEF End
<1>5. \A k \in 1..End(j)' : At(j, k)' = At(j, k) /\ k \in 1..End(j)
  BY <1>1, <1>4 DEF At
<1>6. Striped(j)'
  BY <1>1, <1>5 DEF Striped, Follows
<1>7. End(j)' > 0 => End(j) > 0 /\ At(j, 1)'[2] = At(j, 1)[2]
  <2>1. End(j)' > 0 => 1 \in 1..End(j)' /\ End(j) > 0
    BY <1>1, <1>4
  <2> QED
    BY <1>5, <2>1
<1> QED
  BY <1>2, <1>3, <1>6, <1>7

\* Packets that are new on a connection were on none.
LEMMA StillApart ==
  ASSUME PeerTypeOK, WireInv, NEW i \in Agents,
         \A j \in Agents \ {i}, q \in Nat : Carries(j, q)' => Carries(j, q),
         \A q \in Nat : Carries(i, q)' => Carries(i, q) \/ q = peerSeq
  PROVE  Apart'
<1>1. \A j \in Agents : ~Carries(j, peerSeq)
  <2> SUFFICES ASSUME NEW j \in Agents, Carries(j, peerSeq) PROVE FALSE
    OBVIOUS
  <2>1. Numbered(j) /\ peerSeq \in Nat
    BY WireNumbers DEF WireInv
  <2>2. CASE \E k \in 1..Len(wireIn[j]) : wireIn[j][k][1] = peerSeq
    BY <2>1, <2>2 DEF Numbered
  <2>3. CASE peerPkt[j].left > 0 /\ peerPkt[j].seq = peerSeq
    BY <2>1, <2>3 DEF Numbered
  <2> QED
    BY <2>2, <2>3 DEF Carries
<1>2. Apart
  BY DEF WireInv
<1> SUFFICES ASSUME NEW j \in Agents, NEW k \in Agents, NEW q \in Nat,
                    Carries(j, q)', Carries(k, q)', j # k
             PROVE  FALSE
  BY DEF Apart
<1>3. CASE q = peerSeq
  BY <1>1, <1>3
<1>4. CASE q # peerSeq
  BY <1>2, <1>4 DEF Apart
<1> QED
  BY <1>3, <1>4

\* What is put on a connection goes after what is there.
LEMMA FirstUnit ==
  ASSUME PeerTypeOK, NEW i \in Agents, peerUp[i],
         Len(wireIn[i]) <= Len(wireIn'[i]), Len(wireIn'[i]) \in Nat,
         \A k \in 1..Len(wireIn[i]) : wireIn'[i][k] = wireIn[i][k],
         \A m \in Nat : m = Len(wireIn[i]) + 1 => At(i, m)' = NextUnit(i)
  PROVE  End(i) > 0 /\ At(i, 1)' = At(i, 1)
<1>1. Len(wireIn[i]) \in Nat
  BY WireNumbers
<1>2. End(i) > 0
  BY <1>1 DEF End
<1>3. CASE Len(wireIn[i]) = 0
  BY <1>2, <1>3 DEF At
<1>4. CASE Len(wireIn[i]) > 0
  <2>1. 1 <= Len(wireIn[i]) /\ 1 <= Len(wireIn'[i]) /\ wireIn'[i][1] = wireIn[i][1]
    BY <1>1, <1>4
  <2> QED
    BY <1>2, <2>1 DEF At
<1> QED
  BY <1>1, <1>3, <1>4

\* The peer begins a packet.
LEMMA TakeWire ==
  ASSUME PeerTypeOK, WireInv, NEW i \in Agents, NEW n \in Nat, Peer!Take(i, n)
  PROVE  WireInv' /\ PeerFrame
<1> DEFINE p == [seq |-> peerSeq, left |-> PktUnits]
<1>0. PktUnits \in Nat /\ PktUnits > 0 /\ peerSeq \in Nat
  BY Sizes, WireNumbers
<1>1. /\ peerUp[i] /\ peerPkt[i].left = 0 /\ peerSeq' = peerSeq + 1
      /\ Peer!Put(i, p, n)
  BY DEF Peer!Take
<1>2. p \in Packet /\ p.left > 0 /\ p.seq = peerSeq /\ PktUnits - p.left = 0
  BY <1>0 DEF Packet
<1>3. Striped(i) /\ Behind(i) /\ Numbered(i)
  BY DEF WireInv
<1>4. NextUnit(i) = <<p.seq, PktUnits - p.left + 1>>
  <2>1. NextUnit(i) = <<peerSeq, 1>>
    BY <1>0, <1>1 DEF NextUnit
  <2> QED
    BY <1>2, <2>1
<1>5. Before(i, p)
  BY <1>2, <1>3 DEF Before, Numbered
<1>6. p.seq < peerSeq' /\ peerSeq <= peerSeq' /\ peerSeq' \in Nat /\ p.seq = peerSeq
  BY <1>0, <1>1, <1>2
<1>7. \A j \in Agents \ {i} :
        wireIn'[j] = wireIn[j] /\ peerPkt'[j] = peerPkt[j] /\ peerUp'[j] = peerUp[j]
  BY <1>1 DEF Peer!Put, PeerTypeOK
<1>8. peerUp'[i]
  BY <1>1 DEF Peer!Put
<1> HIDE DEF p
<1>9. /\ Striped(i)' /\ Behind(i)' /\ Numbered(i)'
      /\ \A q \in Nat : Carries(i, q)' => Carries(i, q) \/ q = p.seq
      /\ Len(wireIn[i]) <= Len(wireIn'[i]) /\ Len(wireIn'[i]) \in Nat
      /\ \A k \in 1..Len(wireIn[i]) : wireIn'[i][k] = wireIn[i][k]
      /\ \A m \in Nat : m = Len(wireIn[i]) + 1 => At(i, m)' = NextUnit(i)
  BY <1>1, <1>2, <1>3, <1>4, <1>5, <1>6, PutWire
<1>10. End(i) > 0 /\ At(i, 1)' = At(i, 1)
  BY <1>1, <1>9, FirstUnit
<1>11. \A j \in Agents \ {i} :
         /\ Striped(j)' /\ Behind(j)' /\ Numbered(j)'
         /\ \A q \in Nat : Carries(j, q)' => Carries(j, q)
         /\ End(j)' > 0 => End(j) > 0 /\ At(j, 1)'[2] = At(j, 1)[2]
  BY <1>1, <1>7, OtherConnection
<1>12. \A q \in Nat : Carries(i, q)' => Carries(i, q) \/ q = peerSeq
  BY <1>6, <1>9
<1>13. Apart'
  BY <1>11, <1>12, StillApart
<1>14. WireInv'
  BY <1>9, <1>11, <1>13 DEF WireInv
<1>15. PeerFrame
  BY <1>0, <1>6, <1>10, <1>11, <1>12 DEF PeerFrame
<1> QED
  BY <1>14, <1>15

\* The peer goes on with a packet.
LEMMA PushWire ==
  ASSUME PeerTypeOK, WireInv, NEW i \in Agents, NEW n \in Nat, Peer!Push(i, n)
  PROVE  WireInv' /\ PeerFrame
<1>0. peerSeq \in Nat /\ peerPkt[i].left \in 0..PktUnits /\ PktUnits \in Nat
  BY Sizes, WireNumbers
<1>1. /\ peerUp[i] /\ n > 0 /\ peerSeq' = peerSeq /\ Peer!Put(i, peerPkt[i], n)
      /\ n <= peerPkt[i].left
  BY DEF Peer!Push, Peer!Put
<1>2. peerPkt[i] \in Packet /\ peerPkt[i].left > 0
  BY <1>0, <1>1 DEF PeerTypeOK
<1>3. Striped(i) /\ Behind(i) /\ Numbered(i) /\ Before(i, peerPkt[i])
  BY <1>2 DEF WireInv, Behind
<1>4. NextUnit(i) = <<peerPkt[i].seq, PktUnits - peerPkt[i].left + 1>>
  BY <1>2 DEF NextUnit
<1>5. peerPkt[i].seq < peerSeq' /\ peerSeq <= peerSeq' /\ peerSeq' \in Nat
  BY <1>0, <1>1, <1>2, <1>3 DEF Numbered
<1>6. \A j \in Agents \ {i} :
        wireIn'[j] = wireIn[j] /\ peerPkt'[j] = peerPkt[j] /\ peerUp'[j] = peerUp[j]
  BY <1>1 DEF Peer!Put, PeerTypeOK
<1>7. /\ Striped(i)' /\ Behind(i)' /\ Numbered(i)'
      /\ \A q \in Nat : Carries(i, q)' => Carries(i, q) \/ q = peerPkt[i].seq
      /\ Len(wireIn[i]) <= Len(wireIn'[i]) /\ Len(wireIn'[i]) \in Nat
      /\ \A k \in 1..Len(wireIn[i]) : wireIn'[i][k] = wireIn[i][k]
      /\ \A m \in Nat : m = Len(wireIn[i]) + 1 => At(i, m)' = NextUnit(i)
  BY <1>1, <1>2, <1>3, <1>4, <1>5, PutWire
<1>8. End(i) > 0 /\ At(i, 1)' = At(i, 1)
  BY <1>1, <1>7, FirstUnit
<1>9. \A j \in Agents \ {i} :
         /\ Striped(j)' /\ Behind(j)' /\ Numbered(j)'
         /\ \A q \in Nat : Carries(j, q)' => Carries(j, q)
         /\ End(j)' > 0 => End(j) > 0 /\ At(j, 1)'[2] = At(j, 1)[2]
  BY <1>1, <1>6, OtherConnection
<1>10. Carries(i, peerPkt[i].seq)
  BY <1>2 DEF Carries
<1>11. \A q \in Nat : Carries(i, q)' => Carries(i, q)
  BY <1>7, <1>10
<1>12. Apart'
  BY <1>9, <1>11, StillApart
<1>13. WireInv'
  BY <1>7, <1>9, <1>12 DEF WireInv
<1>14. PeerFrame
  BY <1>5, <1>8, <1>9, <1>11 DEF PeerFrame
<1> QED
  BY <1>13, <1>14

\* A packet is given to a broken connection, perhaps by a peer that dies of it.
LEMMA LoseWire ==
  ASSUME PeerTypeOK, WireInv, NEW i \in Agents, Peer!GoesLost(i), wireIn' = wireIn,
         peerUp' = peerUp \/ \A j \in Agents : ~peerUp'[j]
  PROVE  WireInv' /\ PeerFrame
<1>0. PktUnits \in Nat /\ PktUnits > 0 /\ peerSeq \in Nat
  BY Sizes, WireNumbers
<1>1. /\ ~peerUp[i] /\ peerPkt[i].left = 0 /\ peerSeq' = peerSeq + 1
      /\ peerPkt' = [peerPkt EXCEPT ![i] = [seq |-> peerSeq, left |-> PktUnits]]
      /\ wireIn' = wireIn /\ ~peerUp'[i]
  BY DEF Peer!GoesLost
<1>2. peerPkt'[i].seq = peerSeq /\ peerPkt'[i].left = PktUnits
  BY <1>1 DEF PeerTypeOK
<1>3. Striped(i) /\ Behind(i) /\ Numbered(i)
  BY DEF WireInv
<1>4. Numbered(i)'
  <2>1. ASSUME NEW k \in 1..Len(wireIn[i])
        PROVE  wireIn[i][k][1] < peerSeq + 1 /\ wireIn[i][k][2] \in 1..PktUnits
    <3>1. wireIn[i][k][1] \in Nat
      BY WireNumbers
    <3>2. wireIn[i][k][1] < peerSeq /\ wireIn[i][k][2] \in 1..PktUnits
      BY <1>3 DEF Numbered
    <3> QED
      BY <1>0, <3>1, <3>2
  <2> QED
    BY <1>0, <1>1, <1>2, <2>1 DEF Numbered
<1>5. Behind(i)'
  BY <1>1, <1>2, <1>3 DEF Behind, Before, Numbered
<1>6. /\ End(i)' = End(i) /\ End(i) = Len(wireIn[i])
      /\ \A k \in 1..Len(wireIn[i]) : At(i, k)' = At(i, k)
  BY <1>1 DEF End, At
<1>7. Striped(i)'
  BY <1>3, <1>6 DEF Striped, Follows
<1>8. \A q \in Nat : Carries(i, q)' => Carries(i, q) \/ q = peerSeq
  BY <1>1, <1>2 DEF Carries
<1>9. End(i)' > 0 => End(i) > 0 /\ At(i, 1)'[2] = At(i, 1)[2]
  BY <1>6, WireNumbers
<1>10. \A j \in Agents \ {i} :
         /\ Striped(j)' /\ Behind(j)' /\ Numbered(j)'
         /\ \A q \in Nat : Carries(j, q)' => Carries(j, q)
         /\ End(j)' > 0 => End(j) > 0 /\ At(j, 1)'[2] = At(j, 1)[2]
  <2>1. \A j \in Agents \ {i} : peerPkt'[j] = peerPkt[j]
    BY <1>1 DEF PeerTypeOK
  <2>2. CASE peerUp' = peerUp
    BY <1>1, <2>1, <2>2, OtherConnection
  <2>3. CASE \A j \in Agents : ~peerUp'[j]
    BY <1>1, <2>1, <2>3, ClosedConnection
  <2> QED
    BY <2>2, <2>3
<1>11. Apart'
  BY <1>8, <1>10, StillApart
<1>12. WireInv'
  BY <1>4, <1>5, <1>7, <1>10, <1>11 DEF WireInv
<1>13. PeerFrame
  BY <1>0, <1>1, <1>8, <1>9, <1>10 DEF PeerFrame
<1> QED
  BY <1>12, <1>13

\* A connection is closed or broken, and may lose the last units on it.
LEMMA CutWire ==
  ASSUME PeerTypeOK, WireInv, UNCHANGED <<peerSeq, peerPkt>>,
         \A j \in Agents :
           /\ peerUp'[j] => peerUp[j]
           /\ Len(wireIn'[j]) \in Nat /\ Len(wireIn'[j]) <= Len(wireIn[j])
           /\ Len(wireIn'[j]) < Len(wireIn[j]) => ~peerUp'[j]
           /\ \A k \in 1..Len(wireIn'[j]) : wireIn'[j][k] = wireIn[j][k]
  PROVE  WireInv' /\ PeerFrame
<1>0. peerSeq \in Nat
  BY DEF PeerTypeOK
<1>1. ASSUME NEW j \in Agents
      PROVE  /\ Striped(j)' /\ Behind(j)' /\ Numbered(j)'
             /\ \A q \in Nat : Carries(j, q)' => Carries(j, q)
             /\ End(j)' > 0 => End(j) > 0 /\ At(j, 1)'[2] = At(j, 1)[2]
  <2>0. /\ Len(wireIn[j]) \in Nat /\ Len(wireIn'[j]) \in Nat
        /\ Len(wireIn'[j]) <= Len(wireIn[j])
        /\ Striped(j) /\ Behind(j) /\ Numbered(j)
    BY <1>1, WireNumbers DEF WireInv
  <2>1. \A k \in 1..Len(wireIn'[j]) :
          k \in 1..Len(wireIn[j]) /\ wireIn'[j][k] = wireIn[j][k]
    BY <1>1, <2>0
  <2>2. Behind(j)' /\ Numbered(j)'
    BY <2>0, <2>1 DEF Behind, Before, Numbered
  <2>3. \A q \in Nat : Carries(j, q)' => Carries(j, q)
    BY <2>1 DEF Carries
  <2>4. End(j) \in Nat /\ End(j)' \in Nat /\ End(j)' <= End(j)
    BY <1>1, <2>0 DEF End
  <2>5. \A k \in 1..End(j)' : At(j, k)' = At(j, k)
    <3> SUFFICES ASSUME NEW k \in Nat, k >= 1, k <= End(j)' PROVE At(j, k)' = At(j, k)
      BY <2>4
    <3>1. NextUnit(j)' = NextUnit(j)
      BY DEF NextUnit
    <3>2. CASE k <= Len(wireIn'[j])
      <4>1. k \in 1..Len(wireIn'[j]) /\ k <= Len(wireIn[j])
        BY <2>0, <3>2
      <4> QED
        BY <2>1, <3>2, <4>1 DEF At
    <3>3. CASE ~(k <= Len(wireIn'[j]))
      <4>1. peerUp'[j]
        BY <2>0, <3>3 DEF End
      <4>2. Len(wireIn'[j]) = Len(wireIn[j])
        BY <1>1, <2>0, <4>1
      <4> QED
        BY <3>1, <3>3, <4>2 DEF At
    <3> QED
      BY <3>2, <3>3
  <2>6. Striped(j)'
    <3>1. \A k \in 1..End(j)' : k \in 1..End(j)
      BY <2>4
    <3> QED
      BY <2>0, <2>5, <3>1 DEF Striped, Follows
  <2>7. End(j)' > 0 => End(j) > 0 /\ At(j, 1)'[2] = At(j, 1)[2]
    <3>1. End(j)' > 0 => 1 \in 1..End(j)' /\ End(j) > 0
      BY <2>4
    <3> QED
      BY <2>5, <3>1
  <2> QED
    BY <2>2, <2>3, <2>6, <2>7
<1>2. Apart'
  BY <1>1 DEF WireInv, Apart
<1>3. WireInv'
  BY <1>1, <1>2 DEF WireInv
<1>4. PeerFrame
  BY <1>0, <1>1 DEF PeerFrame
<1> QED
  BY <1>3, <1>4

\* Whatever the peer and the network do.
LEMMA PeerWire ==
  ASSUME PeerTypeOK, WireInv,
         PeerSends \/ PeerCloses \/ PeerDies \/ \E i \in Agents : Peer!Reset(i)
  PROVE  WireInv' /\ PeerFrame
<1>0. PktUnits \in Nat
  BY Sizes
<1>1. ASSUME NEW i \in Agents, NEW n \in 0..PktUnits, Peer!Take(i, n) \/ Peer!Push(i, n)
      PROVE  WireInv' /\ PeerFrame
  BY <1>0, <1>1, TakeWire, PushWire
<1>2. ASSUME NEW i \in Agents, Peer!Lose(i) PROVE WireInv' /\ PeerFrame
  BY <1>2, LoseWire DEF Peer!Lose
<1>3. ASSUME UNCHANGED <<peerSeq, peerPkt, wireIn>>,
             \A j \in Agents : peerUp'[j] => peerUp[j]
      PROVE  WireInv' /\ PeerFrame
  BY <1>3, WireNumbers, CutWire
<1>4. ASSUME NEW i \in Agents, Peer!Reset(i) PROVE WireInv' /\ PeerFrame
  <2>1. PICK n \in 0..Len(wireIn[i]) : wireIn' = [wireIn EXCEPT ![i] = SubSeq(@, 1, n)]
    BY <1>4 DEF Peer!Reset
  <2>2. /\ UNCHANGED <<peerSeq, peerPkt>> /\ ~peerUp'[i]
        /\ \A j \in Agents \ {i} : peerUp'[j] = peerUp[j] /\ wireIn'[j] = wireIn[j]
        /\ wireIn'[i] = SubSeq(wireIn[i], 1, n)
    BY <1>4, <2>1 DEF Peer!Reset, PeerTypeOK
  <2>3. Len(wireIn[i]) \in Nat /\ \A k \in 1..n : wireIn[i][k] \in Unit
    BY WireNumbers
  <2>4. /\ Len(wireIn'[i]) = IF 1 <= n THEN n - 1 + 1 ELSE 0
        /\ \A k \in 1..(n - 1 + 1) : wireIn'[i][k] = wireIn[i][1 + k - 1]
    BY <2>2, <2>3, SubSeqProperties
  <2>5. Len(wireIn'[i]) = n /\ \A k \in 1..n : wireIn'[i][k] = wireIn[i][k]
    BY <2>3, <2>4
  <2>6. \A j \in Agents :
          /\ peerUp'[j] => peerUp[j]
          /\ Len(wireIn'[j]) \in Nat /\ Len(wireIn'[j]) <= Len(wireIn[j])
          /\ Len(wireIn'[j]) < Len(wireIn[j]) => ~peerUp'[j]
          /\ \A k \in 1..Len(wireIn'[j]) : wireIn'[j][k] = wireIn[j][k]
    <3>1. \A j \in Agents : Len(wireIn[j]) \in Nat
      BY WireNumbers
    <3> QED
      BY <2>2, <2>3, <2>5, <3>1
  <2> QED
    BY <2>2, <2>6, CutWire
<1>5. ASSUME NEW S, Peer!Close(S) PROVE WireInv' /\ PeerFrame
  <2>1. UNCHANGED <<peerSeq, peerPkt, wireIn>> /\ \A j \in Agents : peerUp'[j] => peerUp[j]
    BY <1>5 DEF Peer!Close
  <2> QED
    BY <1>3, <2>1
<1>6. ASSUME Peer!Die PROVE WireInv' /\ PeerFrame
  <2>1. wireIn' = wireIn /\ \A j \in Agents : ~peerUp'[j]
    BY <1>6 DEF Peer!Die
  <2>2. UNCHANGED <<peerSeq, peerPkt>> \/ \E i \in Agents : Peer!GoesLost(i)
    BY <1>6 DEF Peer!Die
  <2> QED
    BY <1>3, <2>1, <2>2, LoseWire
<1> QED
  BY <1>1, <1>2, <1>4, <1>5, <1>6 DEF PeerSends, PeerCloses, PeerDies

(***************************************************************************)
(* Where the child is in each packet, and in the stream.                   *)
(***************************************************************************)

\* Units of its packet that connection i has been read for.
Pos(i) == IF InBody(i) THEN HdrUnits + slot[i][indexIn[i]].sent ELSE needHdr[i]

\* The next unit of a connection that is still read is the next one of its packet.
Aligned(i) == agentMask[i] # CLOSED /\ End(i) > 0 => At(i, 1)[2] = Pos(i) + 1

\* Nothing of an earlier packet is still to come.
Ahead == \A i \in Agents, q \in Nat : Carries(i, q) => recvSeq <= q

\* The next packet has been numbered and is read: none of it is still to come.
HeadTaken == recvSeq < peerSeq /\ \A j \in Agents : ~Carries(j, recvSeq)

\* Slot s of connection i holds a packet that has been read.
Kept(i, s) == slot[i][s].inUse /\ indexIn[i] # s

\* The packet in a slot of the table comes later than the next one.
Waits(p) ==
  /\ Kept(p[1], p[2])
  /\ slot[p[1]][p[2]].seq > recvSeq
  /\ slot[p[1]][p[2]].seq < peerSeq
  /\ \A j \in Agents : ~Carries(j, slot[p[1]][p[2]].seq)

TableOK ==
  /\ \A p \in table : Waits(p)
  /\ \A p, r \in table : slot[p[1]][p[2]].seq = slot[r[1]][r[2]].seq => p = r

\* Slot s of connection i holds the next packet, and the host has n units of it.
Holds(i, s, n) ==
  /\ Kept(i, s) /\ <<i, s>> \notin table
  /\ slot[i][s].seq = recvSeq
  /\ Len(written) = recvSeq * PayUnits + n
  /\ HeadTaken

HostOK ==
  /\ pc = "deliver" => Holds(cur.agent, cur.slot, cur.size) /\ "out" \notin hostMask
  /\ "out" \in hostMask => Holds(outAgent, indexOut, slot[outAgent][indexOut].sent)
  /\ pc # "deliver" /\ "out" \notin hostMask => Len(written) = recvSeq * PayUnits \/ HeadTaken

StreamOK == recvSeq <= peerSeq /\ Ahead /\ TableOK /\ HostOK

OrderInv == WireInv /\ (Running => StreamOK /\ \A i \in Agents : Aligned(i))

\* The packet that is delivered, or waits for the host, is in a slot that exists.
LEMMA OutSlots ==
  ASSUME TypeInv
  PROVE  /\ indexOut \in Slots /\ cur.slot \in Slots
         /\ pc = "deliver" => cur.agent \in Agents
         /\ "out" \in hostMask => outAgent \in Agents
         /\ table \subseteq Agents \X Slots
BY DEF TypeInv, TypeOK, OutTypeOK, SlotTypeOK, OutKnown

(***************************************************************************)
(* Steps that leave the stream alone.                                      *)
(***************************************************************************)

\* No packet that has been read is touched.
StillKept ==
  \A j \in Agents, s \in Slots : Kept(j, s) => Kept(j, s)' /\ slot'[j][s] = slot[j][s]

\* Nothing comes that was not to come, but for packets that get their number.
NothingOld ==
  /\ peerSeq' \in Nat /\ peerSeq <= peerSeq'
  /\ \A j \in Agents, q \in Nat : Carries(j, q)' => Carries(j, q) \/ peerSeq <= q

HostQuiet ==
  /\ UNCHANGED <<recvSeq, outAgent, indexOut, written>>
  /\ "out" \in hostMask' => "out" \in hostMask
  /\ pc' = "deliver" => pc = "deliver" /\ cur' = cur /\ hostMask' = hostMask

\* A packet in a slot, whose number no connection carries, stays there.
LEMMA StillWaits ==
  ASSUME TypeInv, NothingOld, recvSeq' = recvSeq, NEW p \in Agents \X Slots, Waits(p),
         Kept(p[1], p[2])', slot'[p[1]][p[2]] = slot[p[1]][p[2]]
  PROVE  Waits(p)'
<1>1. p[1] \in Agents /\ p[2] \in Slots
  OBVIOUS
<1>2. slot[p[1]][p[2]].seq \in Nat /\ recvSeq \in Nat /\ peerSeq \in Nat
  BY <1>1 DEF TypeInv, TypeOK, SlotTypeOK, PeerTypeOK, Slot
<1>3. PICK q \in Nat : q = slot[p[1]][p[2]].seq
  BY <1>2
<1>4. \A j \in Agents : ~Carries(j, q)'
  BY <1>2, <1>3 DEF NothingOld, Waits
<1>5. slot'[p[1]][p[2]].seq = q
  BY <1>3
<1>6. \A j \in Agents : ~Carries(j, slot[p[1]][p[2]].seq)'
  BY <1>4, <1>5 DEF Carries
<1>7. slot[p[1]][p[2]].seq < peerSeq'
  BY <1>2 DEF Waits, NothingOld
<1> QED
  BY <1>2, <1>6, <1>7 DEF Waits

\* While nothing old comes, the packet the host waits for stays taken off the connections.
LEMMA StillTaken ==
  ASSUME TypeInv, NothingOld, recvSeq' = recvSeq, HeadTaken
  PROVE  HeadTaken'
<1>1. recvSeq \in Nat /\ peerSeq \in Nat
  BY DEF TypeInv, TypeOK, SlotTypeOK, PeerTypeOK
<1>2. \A j \in Agents : ~Carries(j, recvSeq)'
  BY <1>1 DEF HeadTaken, NothingOld
<1> QED
  BY <1>1, <1>2 DEF HeadTaken, NothingOld

\* A slot keeps the packet it holds, while that is not in the table.
LEMMA StillHolds ==
  ASSUME TypeInv, StillKept, NothingOld, UNCHANGED <<recvSeq, written>>,
         NEW i \in Agents, NEW s \in Slots, NEW n, Holds(i, s, n),
         <<i, s>> \notin table'
  PROVE  Holds(i, s, n)' /\ slot'[i][s] = slot[i][s]
<1>1. Kept(i, s)' /\ slot'[i][s] = slot[i][s]
  BY DEF Holds, StillKept
<1>2. HeadTaken'
  BY StillTaken DEF Holds
<1> QED
  BY <1>1, <1>2 DEF Holds

\* What is still to come stays at or after recv_seq.
LEMMA StillAhead ==
  ASSUME TypeInv, NothingOld, recvSeq' = recvSeq, recvSeq <= peerSeq, Ahead
  PROVE  Ahead' /\ recvSeq' <= peerSeq'
<1>1. recvSeq \in Nat /\ peerSeq \in Nat
  BY DEF TypeInv, TypeOK, SlotTypeOK, PeerTypeOK
<1> QED
  BY <1>1 DEF NothingOld, Ahead

\* No packet that was read before enters the table.
TableKeeps ==
  \A i \in Agents, s \in Slots : Kept(i, s) /\ <<i, s>> \notin table => <<i, s>> \notin table'

\* What the host has of the next packet does not change in a step that leaves it alone.
LEMMA QuietHost ==
  ASSUME TypeInv, HostOK, StillKept, NothingOld, HostQuiet, TableKeeps
  PROVE  HostOK'
<1>0. recvSeq' = recvSeq
  BY DEF HostQuiet
<1>1. CASE pc' = "deliver"
  <2>1. pc = "deliver" /\ cur' = cur /\ "out" \notin hostMask'
    BY <1>0, <1>1 DEF HostOK, HostQuiet
  <2>2. Holds(cur.agent, cur.slot, cur.size) /\ <<cur.agent, cur.slot>> \notin table'
    BY <1>0, <2>1, OutSlots DEF HostOK, Holds, TableKeeps
  <2>3. Holds(cur.agent, cur.slot, cur.size)'
    BY <2>1, <2>2, OutSlots, StillHolds DEF HostQuiet
  <2> QED
    BY <1>1, <2>1, <2>3 DEF HostOK
<1>2. CASE pc' # "deliver" /\ "out" \in hostMask'
  <2>1. "out" \in hostMask /\ UNCHANGED <<outAgent, indexOut, recvSeq, written>>
    BY <1>2 DEF HostQuiet
  <2>0. PICK i \in Agents, s \in Slots : i = outAgent /\ s = indexOut
    BY <2>1, OutSlots
  <2>2. PICK n : n = slot[i][s].sent
    OBVIOUS
  <2>3. Holds(i, s, n) /\ <<i, s>> \notin table'
    BY <1>0, <2>0, <2>1, <2>2 DEF HostOK, Holds, TableKeeps
  <2>4. Holds(i, s, n)' /\ slot'[i][s] = slot[i][s]
    BY <2>1, <2>3, StillHolds
  <2>5. outAgent' = i /\ indexOut' = s /\ slot'[i][s].sent = n
    BY <2>0, <2>1, <2>2, <2>4
  <2>6. Holds(outAgent, indexOut, slot[outAgent][indexOut].sent)'
    BY <2>4, <2>5
  <2> QED
    BY <1>2, <2>1, <2>6 DEF HostOK
<1>3. CASE pc' # "deliver" /\ "out" \notin hostMask'
  <2>1. Len(written) = recvSeq * PayUnits \/ HeadTaken
    BY <1>0 DEF HostOK, Holds
  <2>2. HeadTaken => HeadTaken'
    BY <1>0, StillTaken
  <2>3. Len(written') = recvSeq' * PayUnits \/ HeadTaken'
    BY <2>1, <2>2 DEF HostQuiet
  <2> QED
    BY <1>3, <2>3 DEF HostOK
<1> QED
  BY <1>1, <1>2, <1>3

\* What waits in the table goes on waiting.
LEMMA QuietTable ==
  ASSUME TypeInv, TableOK, StillKept, NothingOld, recvSeq' = recvSeq
  PROVE  /\ \A p \in table : Waits(p)' /\ slot'[p[1]][p[2]] = slot[p[1]][p[2]]
         /\ table' = table => TableOK'
<1>1. \A p \in table : p \in Agents \X Slots /\ Waits(p)
  BY OutSlots DEF TableOK
<1>2. \A p \in table : Kept(p[1], p[2])' /\ slot'[p[1]][p[2]] = slot[p[1]][p[2]]
  BY <1>1 DEF Waits, StillKept
<1>3. \A p \in table : Waits(p)'
  BY <1>1, <1>2, StillWaits
<1> QED
  BY <1>2, <1>3 DEF TableOK

\* A step that leaves host and table alone leaves the stream as it was.
LEMMA QuietStream ==
  ASSUME TypeInv, StreamOK, StillKept, NothingOld, HostQuiet, table' = table
  PROVE  StreamOK'
<1>1. TableOK /\ HostOK /\ Ahead /\ recvSeq <= peerSeq /\ recvSeq' = recvSeq
  BY DEF StreamOK, HostQuiet
<1>2. TableOK' /\ HostOK'
  BY <1>1, QuietTable, QuietHost DEF TableKeeps
<1> QED
  BY <1>1, <1>2, StillAhead DEF StreamOK

\* Connection j is as far in its packet as before.
SamePlace(j) ==
  /\ Pos(j)' = Pos(j)
  /\ agentMask[j] = CLOSED => agentMask'[j] = CLOSED
  /\ End(j)' > 0 => End(j) > 0 /\ At(j, 1)'[2] = At(j, 1)[2]

\* A connection whose place in its packet is untouched goes on as expected.
LEMMA StillAligned ==
  ASSUME NEW j \in Agents, Aligned(j), SamePlace(j)
  PROVE  Aligned(j)'
BY DEF Aligned, SamePlace

\* A step of the outbound half, the peer, the network or the host.
Beside ==
  /\ UNCHANGED <<slot, indexIn, needHdr, table>>
  /\ HostQuiet
  /\ \A j \in Agents : agentMask[j] = CLOSED => agentMask'[j] = CLOSED

\* A peer that moves as the inbound half relies on brings nothing old.
LEMMA FrameNothingOld ==
  ASSUME TypeInv, PeerFrame
  PROVE  NothingOld
<1>1. peerSeq \in Nat
  BY DEF TypeInv, TypeOK, PeerTypeOK
<1> QED
  BY <1>1 DEF PeerFrame, NothingOld

\* A step of the child beside the inbound stream keeps the order.
LEMMA BesideOrder ==
  ASSUME TypeInv, OrderInv, Running, Beside, WireInv', PeerFrame
  PROVE  OrderInv'
<1>1. StreamOK /\ \A j \in Agents : Aligned(j)
  BY DEF OrderInv
<1>2. StillKept
  BY DEF Beside, StillKept, Kept
<1>3. NothingOld
  BY FrameNothingOld
<1>4. StreamOK'
  BY <1>1, <1>2, <1>3, QuietStream DEF Beside
<1>5. ASSUME NEW j \in Agents PROVE Aligned(j)'
  <2>1. Pos(j)' = Pos(j)
    BY DEF Beside, Pos, InBody, AtHeader, InHeader
  <2>2. SamePlace(j)
    BY <2>1 DEF SamePlace, Beside, PeerFrame
  <2> QED
    BY <1>1, <2>2, StillAligned
<1> QED
  BY <1>4, <1>5 DEF OrderInv

\* The peer's side of a step that leaves it alone.
LEMMA PeerStill ==
  ASSUME TypeInv, WireInv, UNCHANGED peerVars
  PROVE  WireInv' /\ PeerFrame
<1>0. UNCHANGED <<peerSeq, peerPkt, wireIn, peerUp>> /\ PeerTypeOK
  BY DEF peerVars, TypeInv, TypeOK
<1>1. \A j \in Agents :
        /\ peerUp'[j] => peerUp[j]
        /\ Len(wireIn'[j]) \in Nat /\ Len(wireIn'[j]) <= Len(wireIn[j])
        /\ Len(wireIn'[j]) < Len(wireIn[j]) => ~peerUp'[j]
        /\ \A k \in 1..Len(wireIn'[j]) : wireIn'[j][k] = wireIn[j][k]
  BY <1>0, WireNumbers
<1> QED
  BY <1>0, <1>1, CutWire

\* So does one of the outbound half.
LEMMA OutboundOrder ==
  ASSUME TypeInv, OrderInv, Running, OutboundFrame, UNCHANGED recvVars
  PROVE  OrderInv'
<1>1. Beside /\ UNCHANGED peerVars
  BY DEF Beside, HostQuiet, OutboundFrame, recvVars, slotVars, outVars, hostVars
<1>2. WireInv
  BY DEF OrderInv
<1> QED
  BY <1>1, <1>2, PeerStill, BesideOrder

\* What the head of the loop and the outbound events leave alone.
LEMMA LoopFrame ==
  ASSUME TypeInv, LoopTop \/ HostIn \/ \E i \in Agents : AgentOut(i)
  PROVE  Running /\ OutboundFrame /\ UNCHANGED recvVars /\ pc # "deliver"
<1>1. ChildTypeOK /\ SendTypeOK
  BY DEF TypeInv, TypeOK
<1>2. Running /\ pc # "deliver"
  BY DEF LoopTop, HostIn, HostInEvent, HostInError, AgentOut, AgentOutEvent, Running,
         Terminated, Aborts
<1>3. OutboundFrame /\ UNCHANGED recvVars
  <2>1. CASE LoopTop
    BY <1>1, <2>1, LoopTopType DEF LoopTop
  <2>2. CASE HostIn
    BY <1>1, <2>2, HostInType DEF HostIn
  <2>3. CASE \E i \in Agents : AgentOut(i)
    BY <1>1, <2>3, AgentOutType DEF AgentOut
  <2> QED
    BY <2>1, <2>2, <2>3
<1> QED
  BY <1>2, <1>3

\* They keep the order.
LEMMA LoopOrder ==
  ASSUME TypeInv, OrderInv, LoopTop \/ HostIn \/ \E i \in Agents : AgentOut(i)
  PROVE  OrderInv'
BY LoopFrame, OutboundOrder

\* The host, the peer and the network.
LEMMA AroundFrame ==
  ASSUME TypeInv, WireInv,
         \/ HostWrites \/ HostCloses \/ HostReads \/ HostResets \/ PeerActs
         \/ \E i \in Agents : PeerTakes(i) \/ AgentBreaks(i)
  PROVE  /\ Running /\ UNCHANGED <<pc, hostMask, agentMask>>
         /\ UNCHANGED <<slotVars, outVars, written>>
         /\ WireInv' /\ PeerFrame
<1>1. /\ Running /\ UNCHANGED <<pc, hostMask, agentMask>>
      /\ UNCHANGED <<slotVars, outVars, written>>
  <2>1. CASE HostWrites \/ HostCloses
    BY <2>1 DEF HostWrites, HostCloses, HostWrite, HostClose, childVars, recvVars, hostVars
  <2>2. CASE HostReads \/ HostResets
    BY <2>2 DEF HostReads, HostResets, HostTakes, HostBreaks, childVars, recvVars, hostVars
  <2>3. CASE PeerActs
    BY <2>3 DEF PeerActs, PeerSends, PeerCloses, PeerDies, childVars, hostVars
  <2>4. CASE \E i \in Agents : PeerTakes(i) \/ AgentBreaks(i)
    BY <2>4 DEF PeerTakes, AgentBreaks, WireDrain, childVars, recvVars, hostVars
  <2> QED
    BY <2>1, <2>2, <2>3, <2>4
<1>2. WireInv /\ PeerTypeOK
  BY DEF TypeInv, TypeOK
<1>3. WireInv' /\ PeerFrame
  <2>1. CASE HostWrites \/ HostCloses \/ HostReads \/ HostResets \/ \E i \in Agents : PeerTakes(i)
    <3>1. UNCHANGED peerVars
      BY <2>1 DEF HostWrites, HostCloses, HostReads, HostResets, PeerTakes, HostTakes,
                  HostBreaks, recvVars
    <3> QED
      BY <1>2, <3>1, PeerStill
  <2>2. CASE PeerActs
    BY <1>2, <2>2, PeerWire DEF PeerActs
  <2>3. CASE \E i \in Agents : AgentBreaks(i)
    BY <1>2, <2>3, PeerWire DEF AgentBreaks
  <2> QED
    BY <2>1, <2>2, <2>3
<1> QED
  BY <1>1, <1>3

\* So do the host, the peer and the network.
LEMMA AroundOrder ==
  ASSUME TypeInv, OrderInv,
         \/ HostWrites \/ HostCloses \/ HostReads \/ HostResets \/ PeerActs
         \/ \E i \in Agents : PeerTakes(i) \/ AgentBreaks(i)
  PROVE  OrderInv'
<1>1. /\ Running /\ UNCHANGED <<pc, hostMask, agentMask>>
      /\ UNCHANGED <<slotVars, outVars, written>>
      /\ WireInv' /\ PeerFrame
  BY AroundFrame DEF OrderInv
<1>2. Beside
  BY <1>1 DEF Beside, HostQuiet, slotVars, outVars
<1> QED
  BY <1>1, <1>2, BesideOrder

(***************************************************************************)
(* read_agent_send_host().                                                 *)
(***************************************************************************)

\* What a packet lacks is what connection i has not been read for.
LEMMA ToRead ==
  ASSUME TypeInv, NEW i \in Agents, NEW s \in Slots, WorkSlot(i, s)
  PROVE  Pos(i) \in Nat /\ Pos(i) < PktUnits /\ HdrLeft(i) + BodyLeft(i, s) = PktUnits - Pos(i)
<1>1. /\ HdrLeft(i) \in 0..HdrUnits /\ BodyHave(i, s) \in 0..(PayUnits - 1)
      /\ ~InBody(i) => HdrLeft(i) = HdrUnits - needHdr[i] /\ HdrLeft(i) > 0
      /\ InBody(i) => HdrLeft(i) = 0 /\ s = indexIn[i]
  BY ReadNumbers DEF TypeInv, TypeOK
<1>2. needHdr[i] \in Nat
  BY Sizes DEF TypeInv, TypeOK, SlotTypeOK
<1>3. CASE InBody(i)
  BY <1>1, <1>3, Sizes DEF Pos, BodyHave, BodyLeft
<1>4. CASE ~InBody(i)
  BY <1>1, <1>2, <1>4, Sizes DEF Pos, BodyHave, BodyLeft
<1> QED
  BY <1>3, <1>4

\* All there is on a connection is less than a packet lacks: the rest comes next.
LEMMA ShortOfPacket ==
  ASSUME PeerTypeOK, NEW i \in Agents, Striped(i), Numbered(i), peerUp[i],
         NEW m \in Nat, At(i, 1)[2] = m + 1, Len(wireIn[i]) < PktUnits - m
  PROVE  NextUnit(i)[2] = m + Len(wireIn[i]) + 1
<1>1. PICK L \in Nat : L = Len(wireIn[i])
  BY WireNumbers
<1>2. End(i) = L + 1 /\ At(i, L + 1) = NextUnit(i)
  BY <1>1 DEF End, At
<1>3. CASE L = 0
  BY <1>1, <1>2, <1>3
<1>4. CASE L # 0
  <2>1. 1 \in 1..End(i) /\ L + 1 \in 1..End(i) /\ 1 < L + 1 /\ (L + 1) - 1 = L
    BY <1>2, <1>4
  <2>2. Follows(At(i, 1), NextUnit(i), L)
    BY <1>2, <2>1 DEF Striped
  <2>3. PICK b \in 1..PktUnits : b = NextUnit(i)[2]
    BY WireNumbers
  <2>4. b = m + 1 + L \/ PktUnits - (m + 1) + b <= L
    BY <2>2, <2>3 DEF Follows
  <2>5. L < PktUnits - m /\ PktUnits \in Nat /\ b \in Nat /\ b >= 1
    BY <1>1, <2>3, Sizes
  <2>6. b = m + L + 1
    BY <2>4, <2>5
  <2> QED
    BY <1>1, <2>3, <2>6
<1> QED
  BY <1>3, <1>4

\* The last unit of a packet is read: nothing of the packet is left anywhere, and
\* what comes next on the connection is the first unit of a later packet.
LEMMA WholePacket ==
  ASSUME PeerTypeOK, WireInv, NEW i \in Agents,
         NEW m \in Nat, At(i, 1)[2] = m + 1,
         NEW n \in Nat, n = PktUnits - m, n > 0, n <= Len(wireIn[i]), Consume(i, n),
         NEW q, q = wireIn[i][n][1]
  PROVE  /\ q \in Nat /\ q < peerSeq /\ Carries(i, q)
         /\ \A j \in Agents : ~Carries(j, q)'
         /\ End(i)' > 0 => At(i, 1)'[2] = 1
         /\ \A r \in Nat : Carries(i, r)' => q < r
<1>1. PICK L \in Nat : L = Len(wireIn[i])
  BY WireNumbers
<1>2. Striped(i) /\ Behind(i) /\ Numbered(i)
  BY DEF WireInv
<1>3. n \in 1..L /\ q \in Nat /\ q < peerSeq /\ Carries(i, q)
  BY <1>1, <1>2, WireNumbers DEF Numbered, Carries
<1>4. /\ \A j \in Agents, r \in Nat : Carries(j, r)' => Carries(j, r)
      /\ Len(wireIn'[i]) = L - n
      /\ \A k \in 1..(L - n) : wireIn'[i][k] = wireIn[i][k + n]
      /\ UNCHANGED <<peerSeq, peerPkt, peerUp>>
  BY <1>1, ConsumeWire DEF Consume
<1>5. End(i) \in Nat /\ End(i) >= L /\ At(i, n) = wireIn[i][n] /\ At(i, n)[1] = q
  BY <1>1, <1>3 DEF End, At
<1>6. At(i, n)[2] = PktUnits
  <2>1. CASE n = 1
    BY <2>1, Sizes
  <2>2. CASE n # 1
    <3>1. 1 \in 1..End(i) /\ n \in 1..End(i) /\ 1 < n
      BY <1>3, <1>5, <2>2
    <3>2. Follows(At(i, 1), At(i, n), n - 1)
      BY <1>2, <3>1 DEF Striped
    <3>3. PICK b \in 1..PktUnits : b = At(i, n)[2]
      BY <1>2, <1>3, <1>5 DEF Numbered
    <3>4. b = m + 1 + (n - 1) \/ PktUnits - (m + 1) + b <= n - 1
      BY <3>2, <3>3 DEF Follows
    <3> QED
      BY <3>3, <3>4, Sizes
  <2> QED
    BY <2>1, <2>2
<1>7. ASSUME NEW k \in Nat, k > n, k <= End(i)
      PROVE  At(i, k)[1] > q /\ At(i, k)[2] <= k - n
  <2>1. Follows(At(i, n), At(i, k), k - n)
    <3>1. n \in 1..End(i) /\ k \in 1..End(i) /\ n < k
      BY <1>3, <1>5, <1>7
    <3> QED
      BY <1>2, <3>1 DEF Striped
  <2>2. PICK b \in 1..PktUnits, r \in Nat : b = At(i, k)[2] /\ r = At(i, k)[1]
    BY <1>2, <1>7, AtNumbers
  <2>3. \/ q = r /\ b = PktUnits + (k - n)
        \/ q < r /\ PktUnits - PktUnits + b <= k - n
    BY <1>5, <1>6, <2>1, <2>2 DEF Follows
  <2> QED
    BY <1>3, <1>7, <2>2, <2>3, Sizes
<1>8. \A r \in Nat : Carries(i, r)' => q < r
  <2>1. ASSUME NEW k \in 1..(L - n) PROVE wireIn'[i][k][1] > q
    <3>1. k + n \in Nat /\ k + n > n /\ k + n <= L /\ k + n <= End(i)
      BY <1>5
    <3>2. At(i, k + n) = wireIn[i][k + n] /\ k + n \in 1..L
      BY <1>1, <3>1 DEF At
    <3>3. wireIn[i][k + n][1] > q
      BY <1>7, <3>1, <3>2
    <3> QED
      BY <1>4, <3>3
  <2>2. ASSUME peerPkt[i].left > 0 PROVE q < peerPkt[i].seq
    <3>1. q < peerPkt[i].seq \/ PktUnits <= PktUnits - peerPkt[i].left
      BY <1>1, <1>2, <1>3, <1>5, <1>6, <2>2 DEF Behind, Before
    <3> QED
      BY <1>3, <2>2, <3>1, WireNumbers, Sizes
  <2>3. ASSUME NEW r \in Nat, Carries(i, r)' PROVE q < r
    <3>1. \/ \E k \in 1..(L - n) : wireIn'[i][k][1] = r
          \/ peerPkt[i].left > 0 /\ peerPkt[i].seq = r
      BY <1>4, <2>3 DEF Carries
    <3>2. \A k \in 1..(L - n) : wireIn'[i][k][1] = r => q < r
      BY <1>3, <2>1
    <3> QED
      BY <2>2, <3>1, <3>2
  <2> QED
    BY <2>3
<1>9. \A j \in Agents : ~Carries(j, q)'
  <2>1. ~Carries(i, q)'
    BY <1>3, <1>8
  <2> QED
    BY <1>3, <1>4, <2>1 DEF WireInv, Apart
<1>10. ASSUME End(i)' > 0 PROVE At(i, 1)'[2] = 1
  <2>1. n + 1 \in Nat /\ n + 1 > n /\ n + 1 <= End(i)
    <3>1. End(i)' = IF peerUp[i] THEN L - n + 1 ELSE L - n
      BY <1>4 DEF End
    <3>2. End(i) = IF peerUp[i] THEN L + 1 ELSE L
      BY <1>1 DEF End
    <3>3. End(i)' = End(i) - n
      BY <3>1, <3>2
    <3> QED
      BY <1>5, <1>10, <3>3
  <2>2. At(i, n + 1)[2] <= 1
    <3>1. At(i, n + 1)[2] <= (n + 1) - n
      BY <1>7, <2>1
    <3> QED
      BY <3>1
  <2>3. At(i, n + 1)[2] = 1
    <3>1. At(i, n + 1)[2] \in 1..PktUnits
      BY <1>2, <2>1, AtNumbers
    <3> QED
      BY <2>2, <3>1, Sizes
  <2>4. At(i, 1)' = At(i, n + 1)
    <3>1. NextUnit(i)' = NextUnit(i)
      BY <1>4 DEF NextUnit
    <3>2. CASE n + 1 <= L
      <4>1. 1 \in 1..(L - n) /\ 1 <= L - n /\ 1 + n = n + 1
        BY <3>2
      <4>2. wireIn'[i][1] = wireIn[i][n + 1]
        BY <1>4, <4>1
      <4> QED
        BY <1>1, <1>4, <3>2, <4>1, <4>2 DEF At
    <3>3. CASE ~(n + 1 <= L)
      <4>1. ~(1 <= L - n)
        BY <3>3
      <4> QED
        BY <1>1, <1>4, <3>1, <3>3, <4>1 DEF At
    <3> QED
      BY <3>2, <3>3
  <2> QED
    BY <2>3, <2>4
<1> QED
  BY <1>3, <1>8, <1>9, <1>10

\* What a step of read_agent_send_host() on slot s of connection i leaves alone.
ReadFrame(i, s) ==
  /\ \A j \in Agents, x \in Slots : j # i \/ x # s => slot'[j][x] = slot[j][x]
  /\ \A j \in Agents \ {i} :
       /\ slot'[j] = slot[j] /\ indexIn'[j] = indexIn[j] /\ needHdr'[j] = needHdr[j]
       /\ agentMask'[j] = agentMask[j]
  /\ indexIn'[i] \in {s, EMPTY}
  /\ UNCHANGED <<hostMask, recvSeq, outAgent, hostVars>>

\* The slot it works on holds no packet that has been read.
LEMMA ReadKeeps ==
  ASSUME TypeInv, NEW i \in Agents, NEW s \in Slots, WorkSlot(i, s), ReadFrame(i, s)
  PROVE  StillKept /\ ~Kept(i, s)
<1>1. ~Kept(i, s) /\ (indexIn[i] = s \/ indexIn[i] = EMPTY)
  BY DEF WorkSlot, FreeIndex, Kept, AtHeader
<1>2. EMPTY \notin Slots
  BY SlotsType
<1>3. ASSUME NEW j \in Agents, NEW x \in Slots, Kept(j, x)
      PROVE  Kept(j, x)' /\ slot'[j][x] = slot[j][x]
  <2>1. j # i \/ x # s
    BY <1>1, <1>3
  <2>2. slot'[j][x] = slot[j][x]
    BY <2>1 DEF ReadFrame
  <2>3. indexIn'[j] # x
    <3>1. CASE j # i
      BY <1>3, <3>1 DEF ReadFrame, Kept
    <3>2. CASE j = i
      BY <1>2, <2>1, <3>2 DEF ReadFrame
    <3> QED
      BY <3>1, <3>2
  <2> QED
    BY <1>3, <2>2, <2>3 DEF Kept
<1> QED
  BY <1>1, <1>3 DEF StillKept

\* Every way a read ends has this frame.
LEMMA ReadFrames ==
  ASSUME TypeInv, NEW i \in Agents, NEW s \in Slots,
         \/ HeaderBlocks(i, s) \/ HeaderEof(i, s) \/ HeaderReset(i, s)
         \/ BodyBlocks(i, s) \/ BodyEof(i, s) \/ BodyReset(i, s) \/ PacketComplete(i, s)
  PROVE  ReadFrame(i, s)
<1> USE DEF TypeInv, TypeOK, SlotTypeOK, ChildTypeOK
<1>1. UNCHANGED <<hostMask, recvSeq, outAgent, hostVars>>
  BY DEF HeaderBlocks, HeaderEof, HeaderReset, BodyBlocks, BodyEof, BodyReset,
         PacketComplete, outVars
<1>2. indexIn' = [indexIn EXCEPT ![i] = s] \/ indexIn' = [indexIn EXCEPT ![i] = EMPTY]
  BY DEF HeaderBlocks, HeaderEof, HeaderReset, BodyBlocks, BodyEof, BodyReset,
         PacketComplete
<1>3. /\ \A j \in Agents \ {i} : slot'[j] = slot[j]
      /\ \A x \in Slots : x # s => slot'[i][x] = slot[i][x]
  <2>1. CASE HeaderBlocks(i, s) \/ HeaderReset(i, s) \/ BodyEof(i, s) \/ BodyReset(i, s)
    <3>1. slot' = Claimed(i, s)
      BY <2>1 DEF HeaderBlocks, HeaderReset, BodyEof, BodyReset
    <3> QED
      BY <3>1 DEF Claimed
  <2>2. CASE HeaderEof(i, s)
    BY <2>2 DEF HeaderEof, Released
  <2>3. CASE BodyBlocks(i, s)
    BY <2>3 DEF BodyBlocks, Claimed
  <2>4. CASE PacketComplete(i, s)
    BY <2>4 DEF PacketComplete, Claimed
  <2> QED
    BY <2>1, <2>2, <2>3, <2>4
<1>4. \A j \in Agents \ {i} : needHdr'[j] = needHdr[j]
  BY DEF HeaderBlocks, HeaderEof, HeaderReset, BodyBlocks, BodyEof, BodyReset,
         PacketComplete, CountPacket
<1>5. \A j \in Agents \ {i} : agentMask'[j] = agentMask[j]
  BY DEF HeaderBlocks, HeaderEof, HeaderReset, BodyBlocks, BodyEof, BodyReset,
         PacketComplete, LeavePool
<1> QED
  BY <1>1, <1>2, <1>3, <1>4, <1>5 DEF ReadFrame

\* The other connections are where they were.
LEMMA ReadElsewhere ==
  ASSUME TypeInv, NEW i \in Agents, NEW s \in Slots, ReadFrame(i, s),
         NEW n, Consume(i, n), NEW j \in Agents, j # i
  PROVE  SamePlace(j)
<1>1. /\ slot'[j] = slot[j] /\ indexIn'[j] = indexIn[j] /\ needHdr'[j] = needHdr[j]
      /\ agentMask'[j] = agentMask[j]
  BY DEF ReadFrame
<1>2. wireIn'[j] = wireIn[j] /\ UNCHANGED <<peerSeq, peerPkt, peerUp>>
  BY DEF Consume, TypeInv, TypeOK, PeerTypeOK
<1>3. Pos(j)' = Pos(j)
  BY <1>1 DEF Pos, InBody, AtHeader, InHeader
<1>4. End(j)' = End(j) /\ At(j, 1)' = At(j, 1)
  BY <1>2 DEF End, At, NextUnit
<1> QED
  BY <1>1, <1>3, <1>4 DEF SamePlace

\* Reading brings nothing that was not on its way.
LEMMA ReadNothingOld ==
  ASSUME TypeInv, WireInv, NEW i \in Agents, NEW n \in Nat, n <= Len(wireIn[i]),
         Consume(i, n)
  PROVE  WireInv' /\ NothingOld
<1>1. PeerTypeOK /\ peerSeq \in Nat /\ peerSeq' = peerSeq
  BY DEF TypeInv, TypeOK, PeerTypeOK, Consume
<1>2. WireInv' /\ \A j \in Agents, q \in Nat : Carries(j, q)' => Carries(j, q)
  BY <1>1, ConsumeWire
<1> QED
  BY <1>1, <1>2 DEF NothingOld

\* A read after which the child goes back to the loop.
LEMMA ReadQuiet ==
  ASSUME TypeInv, OrderInv, Running, NEW i \in Agents, NEW s \in Slots,
         WorkSlot(i, s), ReadFrame(i, s),
         NEW n \in Nat, n <= Len(wireIn[i]), Consume(i, n),
         UNCHANGED <<indexOut, table>>, pc' # "deliver",
         Running' => Aligned(i)'
  PROVE  OrderInv'
<1>1. WireInv /\ StreamOK /\ \A j \in Agents : Aligned(j)
  BY DEF OrderInv
<1>2. WireInv' /\ NothingOld
  BY <1>1, ReadNothingOld
<1>3. StillKept
  BY ReadKeeps
<1>4. StreamOK'
  BY <1>1, <1>2, <1>3, QuietStream DEF HostQuiet, ReadFrame, hostVars
<1>5. \A j \in Agents \ {i} : Aligned(j)'
  BY <1>1, ReadElsewhere, StillAligned
<1> QED
  BY <1>2, <1>4, <1>5 DEF OrderInv

\* The header does not get complete.
LEMMA HeaderBlocksOrder ==
  ASSUME TypeInv, OrderInv, Running, NEW i \in Agents, NEW s \in Slots,
         Reading(i, s), HeaderBlocks(i, s)
  PROVE  OrderInv'
<1>1. PICK L \in Nat : L = Len(wireIn[i])
  BY WireNumbers DEF TypeInv, TypeOK
<1>2. WorkSlot(i, s) /\ ReadFrame(i, s)
  BY ReadFrames DEF Reading
<1>3. /\ L < HdrLeft(i) /\ peerUp[i] /\ Consume(i, L) /\ pc' # "deliver"
      /\ UNCHANGED <<indexOut, table>>
  BY <1>1 DEF HeaderBlocks, Avail, WouldBlock, outVars
<1>6. /\ indexIn' = [indexIn EXCEPT ![i] = s]
      /\ needHdr[i] + L = 0 => pc' = "weird false fire"
      /\ needHdr[i] + L # 0 => needHdr' = [needHdr EXCEPT ![i] = @ + L]
  BY <1>1 DEF HeaderBlocks, Avail
<1>4. ASSUME needHdr[i] + L # 0 PROVE Aligned(i)'
  <2>1. /\ ~InBody(i) /\ HdrLeft(i) = HdrUnits - needHdr[i] /\ needHdr[i] \in Nat
    <3>1. InBody(i) => HdrLeft(i) = 0
      BY DEF HdrLeft
    <3>2. needHdr[i] \in Nat
      BY Sizes DEF TypeInv, TypeOK, SlotTypeOK
    <3> QED
      BY <1>1, <1>3, <3>1, <3>2 DEF HdrLeft
  <2>2. Pos(i) = needHdr[i] /\ L < PktUnits - Pos(i) /\ Pos(i) \in Nat
    BY <1>1, <1>3, <2>1, Sizes DEF Pos
  <2>3. agentMask[i] # CLOSED
    BY PolledMask DEF Reading, TypeInv, TypeOK, ChildTypeOK
  <2>4. At(i, 1)[2] = Pos(i) + 1
    <3>1. End(i) > 0 /\ Aligned(i)
      BY <1>1, <1>3 DEF End, OrderInv
    <3> QED
      BY <2>3, <3>1 DEF Aligned
  <2>5. NextUnit(i)[2] = Pos(i) + L + 1
    <3>1. PeerTypeOK /\ Striped(i) /\ Numbered(i)
      BY DEF OrderInv, WireInv, TypeInv, TypeOK
    <3> QED
      BY <1>1, <1>3, <2>2, <2>4, <3>1, ShortOfPacket
  <2>6. Pos(i)' = Pos(i) + L
    <3>1. needHdr'[i] = needHdr[i] + L /\ indexIn'[i] = s /\ s # EMPTY
      BY <1>4, <1>6, SlotsType DEF TypeInv, TypeOK, SlotTypeOK
    <3>2. ~InBody(i)'
      BY <1>4, <3>1 DEF InBody, AtHeader, InHeader
    <3> QED
      BY <2>2, <3>1, <3>2 DEF Pos
  <2>7. At(i, 1)' = NextUnit(i)
    <3>1. PeerTypeOK /\ WireInv /\ L <= Len(wireIn[i])
      BY <1>1 DEF OrderInv, TypeInv, TypeOK
    <3>2. Len(wireIn'[i]) = Len(wireIn[i]) - L
      BY <1>3, <3>1, ConsumeWire
    <3>3. Len(wireIn'[i]) = 0
      BY <1>1, <3>2
    <3>4. UNCHANGED <<peerSeq, peerPkt>>
      BY <1>3 DEF Consume
    <3> QED
      BY <3>3, <3>4 DEF At, NextUnit
  <2> QED
    BY <2>5, <2>6, <2>7 DEF Aligned
<1>5. Running' => Aligned(i)'
  BY <1>4, <1>6 DEF Running, Terminated, Aborts
<1>7. L <= Len(wireIn[i])
  BY <1>1
<1> QED
  BY <1>2, <1>3, <1>5, <1>7, ReadQuiet

\* The body does not get complete.
LEMMA BodyBlocksOrder ==
  ASSUME TypeInv, OrderInv, Running, NEW i \in Agents, NEW s \in Slots,
         Reading(i, s), BodyBlocks(i, s)
  PROVE  OrderInv'
<1>1. PICK L \in Nat : L = Len(wireIn[i])
  BY WireNumbers DEF TypeInv, TypeOK
<1>2. WorkSlot(i, s) /\ ReadFrame(i, s)
  BY ReadFrames DEF Reading
<1>3. /\ L >= HdrLeft(i) /\ L - HdrLeft(i) < BodyLeft(i, s)
      /\ peerUp[i] /\ Consume(i, L) /\ pc' # "deliver"
      /\ UNCHANGED <<indexOut, table>> /\ indexIn' = [indexIn EXCEPT ![i] = s]
      /\ CountPacket(i)
      /\ slot' = [Claimed(i, s) EXCEPT ![i][s].sent = BodyHave(i, s) + L - HdrLeft(i)]
  BY <1>1 DEF BodyBlocks, BodyShort, Avail, WouldBlock, outVars
<1>4. /\ HdrLeft(i) \in Nat /\ BodyHave(i, s) \in Nat /\ Pos(i) \in Nat
      /\ HdrLeft(i) + BodyLeft(i, s) = PktUnits - Pos(i)
  BY <1>2, ReadNumbers, ToRead, Sizes DEF TypeInv, TypeOK
<1>5. L < PktUnits - Pos(i)
  BY <1>3, <1>4, Sizes DEF BodyLeft
<1>6. Aligned(i)'
  <2>3. agentMask[i] # CLOSED
    BY PolledMask DEF Reading, TypeInv, TypeOK, ChildTypeOK
  <2>4. At(i, 1)[2] = Pos(i) + 1
    <3>1. End(i) > 0 /\ Aligned(i)
      BY <1>1, <1>3 DEF End, OrderInv
    <3> QED
      BY <2>3, <3>1 DEF Aligned
  <2>5. NextUnit(i)[2] = Pos(i) + L + 1
    <3>1. PeerTypeOK /\ Striped(i) /\ Numbered(i)
      BY DEF OrderInv, WireInv, TypeInv, TypeOK
    <3> QED
      BY <1>1, <1>3, <1>4, <1>5, <2>4, <3>1, ShortOfPacket
  <2>6. Pos(i)' = Pos(i) + L
    <3>1. needHdr'[i] = 0 /\ indexIn'[i] = s /\ s # EMPTY
      BY <1>3, SlotsType DEF CountPacket, TypeInv, TypeOK, SlotTypeOK
    <3>2. InBody(i)'
      BY <3>1 DEF InBody, AtHeader, InHeader
    <3>3. slot'[i][s].sent = BodyHave(i, s) + L - HdrLeft(i)
      BY <1>3 DEF Claimed, TypeInv, TypeOK, SlotTypeOK, Slot
    <3>4. Pos(i)' = HdrUnits + (BodyHave(i, s) + L - HdrLeft(i))
      BY <3>1, <3>2, <3>3 DEF Pos
    <3>5. Pos(i) = HdrUnits + BodyHave(i, s) - HdrLeft(i)
      BY <1>4, Sizes DEF BodyLeft
    <3> QED
      BY <1>4, <3>4, <3>5, Sizes
  <2>7. At(i, 1)' = NextUnit(i)
    <3>1. PeerTypeOK /\ WireInv /\ L <= Len(wireIn[i])
      BY <1>1 DEF OrderInv, TypeInv, TypeOK
    <3>2. Len(wireIn'[i]) = Len(wireIn[i]) - L
      BY <1>3, <3>1, ConsumeWire
    <3>3. Len(wireIn'[i]) = 0
      BY <1>1, <3>2
    <3>4. UNCHANGED <<peerSeq, peerPkt>>
      BY <1>3 DEF Consume
    <3> QED
      BY <3>3, <3>4 DEF At, NextUnit
  <2> QED
    BY <2>5, <2>6, <2>7 DEF Aligned
<1> QED
  BY <1>1, <1>2, <1>3, <1>6, ReadQuiet

\* The connection ends before the packet does: it is not read any more, or the
\* process ends.
LEMMA CutOffOrder ==
  ASSUME TypeInv, OrderInv, Running, NEW i \in Agents, NEW s \in Slots,
         Reading(i, s),
         HeaderEof(i, s) \/ HeaderReset(i, s) \/ BodyEof(i, s) \/ BodyReset(i, s)
  PROVE  OrderInv'
<1>1. PICK L \in Nat : L = Len(wireIn[i])
  BY WireNumbers DEF TypeInv, TypeOK
<1>2. WorkSlot(i, s) /\ ReadFrame(i, s)
  BY ReadFrames DEF Reading
<1>3. Consume(i, L) /\ UNCHANGED <<indexOut, table>> /\ (LeavePool(i) \/ pc' = "exit")
  BY <1>1 DEF HeaderEof, HeaderReset, BodyEof, BodyReset, Avail, outVars
<1>4. pc' # "deliver" /\ (Running' => agentMask'[i] = CLOSED)
  BY <1>3 DEF LeavePool, Running, Terminated, Aborts, TypeInv, TypeOK, ChildTypeOK
<1>5. Running' => Aligned(i)'
  BY <1>4 DEF Aligned
<1> QED
  BY <1>1, <1>2, <1>3, <1>4, <1>5, ReadQuiet

\* The packet is complete: it is the next one and goes to the host, or it comes
\* later and goes to the table.
LEMMA PacketCompleteOrder ==
  ASSUME TypeInv, OrderInv, Running, pc = "wait", NEW i \in Agents, NEW s \in Slots,
         Reading(i, s), PacketComplete(i, s)
  PROVE  OrderInv'
<1>1. PICK n : n = HdrLeft(i) + BodyLeft(i, s)
  OBVIOUS
<1>2. PICK q : q = wireIn[i][n][1]
  OBVIOUS
<1>3. WorkSlot(i, s) /\ ReadFrame(i, s)
  BY ReadFrames DEF Reading
<1>4. /\ n <= Len(wireIn[i]) /\ Consume(i, n) /\ CountPacket(i)
      /\ slot' = [Claimed(i, s) EXCEPT ![i][s].seq = q]
      /\ indexIn' = [indexIn EXCEPT ![i] = EMPTY]
  BY <1>1, <1>2 DEF PacketComplete, Avail
<1>5. \/ /\ q = recvSeq /\ table' = table
         /\ cur' = [agent |-> i, slot |-> s, size |-> 0] /\ pc' = "deliver"
      \/ /\ q # recvSeq /\ table' = table \cup {<<i, s>>}
         /\ UNCHANGED <<indexOut, cur>> /\ pc' = "top"
  BY <1>1, <1>2 DEF PacketComplete
<1>6. PICK m \in Nat : m = Pos(i) /\ n = PktUnits - m /\ m < PktUnits
  BY <1>1, <1>3, ToRead
<1>7. n \in Nat /\ n > 0
  BY <1>6, Sizes
<1>8. /\ PeerTypeOK /\ WireInv /\ StreamOK /\ \A j \in Agents : Aligned(j)
      /\ Len(wireIn[i]) \in Nat
  BY WireNumbers DEF TypeInv, TypeOK, OrderInv
<1>9. At(i, 1)[2] = m + 1
  <2>1. agentMask[i] # CLOSED
    BY PolledMask DEF Reading, TypeInv, TypeOK, ChildTypeOK
  <2>2. End(i) > 0
    BY <1>4, <1>7, <1>8 DEF End
  <2> QED
    BY <1>6, <1>8, <2>1, <2>2 DEF Aligned
<1>10. /\ q \in Nat /\ q < peerSeq /\ Carries(i, q)
       /\ \A j \in Agents : ~Carries(j, q)'
       /\ End(i)' > 0 => At(i, 1)'[2] = 1
  BY <1>2, <1>4, <1>6, <1>7, <1>8, <1>9, WholePacket
<1>11. WireInv' /\ NothingOld
  BY <1>4, <1>7, <1>8, ReadNothingOld
<1>12. \A j \in Agents : Aligned(j)'
  <2>1. Pos(i)' = 0
    <3>1. indexIn'[i] = EMPTY /\ needHdr'[i] = 0
      BY <1>4 DEF CountPacket, TypeInv, TypeOK, SlotTypeOK
    <3> QED
      BY <3>1 DEF Pos, InBody, AtHeader
  <2>2. Aligned(i)'
    BY <1>10, <2>1 DEF Aligned
  <2>3. \A j \in Agents \ {i} : Aligned(j)'
    BY <1>3, <1>4, <1>8, ReadElsewhere, StillAligned
  <2> QED
    BY <2>2, <2>3
<1>13. StillKept /\ ~Kept(i, s)
  BY <1>3, ReadKeeps
<1>14. Kept(i, s)' /\ slot'[i][s].seq = q
  <2>1. indexIn'[i] # s
    BY <1>4, SlotsType DEF TypeInv, TypeOK, SlotTypeOK
  <2>2. slot'[i][s].inUse /\ slot'[i][s].seq = q
    BY <1>4 DEF Claimed, TypeInv, TypeOK, SlotTypeOK, Slot
  <2> QED
    BY <2>1, <2>2 DEF Kept
<1>15. /\ TableOK /\ HostOK /\ Ahead /\ recvSeq' = recvSeq /\ peerSeq' = peerSeq
       /\ hostMask' = hostMask /\ written' = written /\ outAgent' = outAgent
       /\ recvSeq \in Nat /\ peerSeq \in Nat
  BY <1>3, <1>4, <1>8 DEF StreamOK, ReadFrame, hostVars, Consume, TypeInv, TypeOK,
                          SlotTypeOK, PeerTypeOK
<1>16. recvSeq <= q /\ <<i, s>> \notin table
  BY <1>10, <1>13, <1>15 DEF Ahead, TableOK, Waits
<1>17. \A p \in table : Waits(p)' /\ slot'[p[1]][p[2]] = slot[p[1]][p[2]]
  BY <1>11, <1>13, <1>15, QuietTable
<1>18. \A p \in table : slot[p[1]][p[2]].seq # q
  BY <1>10, <1>15 DEF TableOK, Waits
<1>19. CASE q = recvSeq
  <2>1. /\ table' = table /\ cur' = [agent |-> i, slot |-> s, size |-> 0]
        /\ pc' = "deliver"
    BY <1>5, <1>19
  <2>2. TableOK'
    BY <1>11, <1>13, <1>15, <2>1, QuietTable
  <2>3. ~HeadTaken
    BY <1>10, <1>19 DEF HeadTaken
  <2>4. "out" \notin hostMask /\ Len(written) = recvSeq * PayUnits
    BY <1>15, <2>3 DEF HostOK, Holds
  <2>5. HeadTaken'
    <3>1. \A j \in Agents : ~Carries(j, recvSeq)'
      BY <1>10, <1>15, <1>19 DEF Carries
    <3> QED
      BY <1>10, <1>15, <1>19, <3>1 DEF HeadTaken
  <2>6. Len(written') = recvSeq' * PayUnits + 0
    <3>1. recvSeq * PayUnits \in Nat
      BY <1>15, Sizes
    <3> QED
      BY <1>15, <2>4, <3>1
  <2>7. Holds(i, s, 0)'
    BY <1>14, <1>15, <1>16, <1>19, <2>1, <2>5, <2>6 DEF Holds
  <2>8. HostOK'
    <3>1. cur'.agent = i /\ cur'.slot = s /\ cur'.size = 0
      BY <2>1
    <3>2. Holds(cur.agent, cur.slot, cur.size)'
      BY <2>7, <3>1
    <3> QED
      BY <1>15, <2>1, <2>4, <3>2 DEF HostOK
  <2> QED
    BY <1>8, <1>11, <1>12, <1>15, <2>2, <2>8, StillAhead DEF OrderInv, StreamOK
<1>20. CASE q # recvSeq
  <2>1. table' = table \cup {<<i, s>>} /\ indexOut' = indexOut /\ pc' = "top"
    BY <1>5, <1>20
  <2>2. Waits(<<i, s>>)'
    <3>1. \A j \in Agents : ~Carries(j, slot[i][s].seq)'
      BY <1>10, <1>14 DEF Carries
    <3>2. slot'[i][s].seq > recvSeq' /\ slot'[i][s].seq < peerSeq'
      BY <1>10, <1>14, <1>15, <1>16, <1>20
    <3>3. Waits(<<i, s>>)' <=> /\ Kept(i, s)' /\ slot'[i][s].seq > recvSeq'
                               /\ slot'[i][s].seq < peerSeq'
                               /\ \A j \in Agents : ~Carries(j, slot[i][s].seq)'
      BY DEF Waits, Carries, Kept
    <3> QED
      BY <1>14, <3>1, <3>2, <3>3
  <2>3. TableOK'
    <3>1. \A p \in table' : Waits(p)'
      BY <1>17, <2>1, <2>2
    <3>2. \A p, r \in table' :
            slot'[p[1]][p[2]].seq = slot'[r[1]][r[2]].seq => p = r
      BY <1>14, <1>15, <1>17, <1>18, <2>1 DEF TableOK
    <3> QED
      BY <3>1, <3>2 DEF TableOK
  <2>4. HostQuiet
    BY <1>15, <2>1 DEF HostQuiet
  <2>5. TableKeeps
    BY <1>13, <2>1 DEF TableKeeps
  <2>6. HostOK'
    BY <1>11, <1>13, <1>15, <2>4, <2>5, QuietHost
  <2> QED
    BY <1>8, <1>11, <1>12, <1>15, <2>3, <2>6, StillAhead DEF OrderInv, StreamOK
<1> QED
  BY <1>19, <1>20

\* So does read_agent_send_host(), whichever way it is left.
LEMMA AgentInOrder ==
  ASSUME TypeInv, OrderInv, NEW i \in Agents, AgentIn(i)
  PROVE  OrderInv'
<1>1. /\ pc = "wait" /\ "in" \in agentMask[i] /\ AgentReadable(i)
      /\ ReadAgentSendHost(i)
  BY DEF AgentIn, AgentInEvent
<1>2. Running
  BY <1>1 DEF Running, Terminated, Aborts
<1>3. CASE NoSlot(i)
  <2>1. pc' = "no free slot" /\ UNCHANGED peerVars
    BY <1>3 DEF NoSlot, recvVars
  <2>2. ~Running'
    BY <2>1 DEF Running, Terminated, Aborts
  <2>3. WireInv'
    BY <2>1, PeerStill DEF OrderInv
  <2> QED
    BY <2>2, <2>3 DEF OrderInv
<1>4. ASSUME NEW s \in Slots, WorkSlot(i, s),
             \/ HeaderBlocks(i, s) \/ HeaderEof(i, s) \/ HeaderReset(i, s)
             \/ BodyBlocks(i, s) \/ BodyEof(i, s) \/ BodyReset(i, s)
             \/ PacketComplete(i, s)
      PROVE  OrderInv'
  <2>1. Reading(i, s)
    BY <1>1, <1>4 DEF Reading
  <2> QED
    BY <1>1, <1>2, <1>4, <2>1, HeaderBlocksOrder, BodyBlocksOrder, CutOffOrder,
       PacketCompleteOrder
<1> QED
  BY <1>1, <1>3, <1>4 DEF ReadAgentSendHost

(***************************************************************************)
(* send_data_host().                                                       *)
(***************************************************************************)

\* What a step of send_data_host() on slot s of connection i leaves alone.
DeliverFrame(i, s) ==
  /\ \A j \in Agents, x \in Slots : j # i \/ x # s => slot'[j][x] = slot[j][x]
  /\ UNCHANGED <<indexIn, needHdr, peerVars>>
  /\ \A j \in Agents : agentMask[j] = CLOSED => agentMask'[j] = CLOSED

\* The slot that is delivered is not the one that is read.
LEMMA DeliverPlace ==
  ASSUME TypeInv, NEW i \in Agents, NEW s \in Slots, Kept(i, s), DeliverFrame(i, s),
         NEW j \in Agents
  PROVE  SamePlace(j)
<1>1. UNCHANGED <<indexIn, needHdr, peerSeq, peerPkt, wireIn, peerUp>>
  BY DEF DeliverFrame, peerVars
<1>2. InBody(j) => indexIn[j] \in Slots
  BY DEF InBody, AtHeader, InHeader, TypeInv, TypeOK, SlotTypeOK, ReadStateOK
<1>3. InBody(j) => slot'[j][indexIn[j]] = slot[j][indexIn[j]]
  BY <1>2 DEF Kept, DeliverFrame
<1>4. Pos(j)' = Pos(j)
  BY <1>1, <1>3 DEF Pos, InBody, AtHeader, InHeader
<1>5. End(j)' = End(j) /\ At(j, 1)' = At(j, 1)
  BY <1>1 DEF End, At, NextUnit
<1> QED
  BY <1>4, <1>5 DEF SamePlace, DeliverFrame

\* A packet in the table is another one.
LEMMA OtherKept ==
  ASSUME TypeInv, TableOK, NEW i \in Agents, NEW s \in Slots, <<i, s>> \notin table,
         DeliverFrame(i, s), NEW p \in table
  PROVE  /\ p \in Agents \X Slots /\ Waits(p)
         /\ slot'[p[1]][p[2]] = slot[p[1]][p[2]] /\ Kept(p[1], p[2])'
<1>1. p \in Agents \X Slots /\ Waits(p)
  BY OutSlots DEF TableOK
<1>2. p[1] \in Agents /\ p[2] \in Slots /\ p = <<p[1], p[2]>>
  BY <1>1
<1>3. p[1] # i \/ p[2] # s
  BY <1>2
<1>4. slot'[p[1]][p[2]] = slot[p[1]][p[2]]
  BY <1>2, <1>3 DEF DeliverFrame
<1> QED
  BY <1>1, <1>4 DEF Waits, Kept, DeliverFrame

\* The host gets n more units.
LEMMA WrittenLength ==
  ASSUME TypeInv, pc = "deliver", NEW n \in Nat, written' = written \o HostUnits(n)
  PROVE  Len(written') = Len(written) + n /\ Len(written) \in Nat
<1>1. HostUnits(n) \in Seq(Unit)
  <2>1. slot[cur.agent][cur.slot].seq \in Nat /\ cur.size \in Nat
    BY OutSlots, Sizes DEF TypeInv, TypeOK, SlotTypeOK, OutTypeOK, Slot
  <2>2. \A j \in 1..n : <<slot[cur.agent][cur.slot].seq, cur.size + j>> \in Unit
    BY <2>1 DEF Unit
  <2> QED
    BY <2>2 DEF HostUnits
<1>2. Len(HostUnits(n)) = n
  <2>1. DOMAIN HostUnits(n) = 1..n
    BY DEF HostUnits
  <2> QED
    BY <1>1, <2>1, LenProperties
<1>3. written \in Seq(Unit)
  BY DEF TypeInv, TypeOK, HostTypeOK
<1> QED
  BY <1>1, <1>2, <1>3, ConcatProperties, LenProperties

\* A packet more is a packet more.
LEMMA NextPacket ==
  ASSUME NEW r \in Nat
  PROVE  /\ r * PayUnits \in Nat
         /\ (r + 1) * PayUnits = r * PayUnits + PayUnits
BY Sizes

\* All of the packet is taken, and the next one is looked up.
LEMMA DeliverPacketOrder ==
  ASSUME TypeInv, OrderInv, pc = "deliver", DeliverPacket
  PROVE  OrderInv'
<1>1. PICK i \in Agents, s \in Slots : i = cur.agent /\ s = cur.slot
  BY OutSlots
<1>2. WireInv /\ StreamOK /\ \A j \in Agents : Aligned(j)
  BY DEF OrderInv, Running, Terminated, Aborts
<1>3. TableOK /\ HostOK /\ Ahead /\ Holds(i, s, cur.size) /\ "out" \notin hostMask
  BY <1>1, <1>2 DEF StreamOK, HostOK
<1>4. /\ recvSeq' = recvSeq + 1 /\ written' = written \o HostUnits(Rest)
      /\ slot' = [slot EXCEPT ![i][s].inUse = FALSE]
      /\ UNCHANGED <<hostMask, indexIn, needHdr, peerVars>>
      /\ agentMask' = [agentMask EXCEPT ![i] = PollFor(@, "in")]
  BY <1>1 DEF DeliverPacket, MaskAfterDelivery
<1>5. DeliverFrame(i, s)
  BY <1>4 DEF DeliverFrame, PollFor, TypeInv, TypeOK, SlotTypeOK, ChildTypeOK
<1>6. \A j \in Agents : Aligned(j)'
  BY <1>2, <1>3, <1>5, DeliverPlace, StillAligned DEF Holds
<1>7. WireInv' /\ UNCHANGED <<peerSeq, peerPkt, wireIn>>
  BY <1>2, <1>4, PeerStill DEF peerVars
<1>8. \A j \in Agents, q \in Nat : Carries(j, q)' <=> Carries(j, q)
  BY <1>7 DEF Carries
<1>9. recvSeq \in Nat /\ peerSeq \in Nat /\ recvSeq < peerSeq
  BY <1>3 DEF Holds, HeadTaken, TypeInv, TypeOK, SlotTypeOK, PeerTypeOK
<1>10. Ahead' /\ recvSeq' <= peerSeq'
  <2>1. \A j \in Agents, q \in Nat : Carries(j, q) => recvSeq <= q /\ q # recvSeq
    BY <1>3 DEF Ahead, Holds, HeadTaken
  <2>2. \A j \in Agents, q \in Nat : Carries(j, q) => recvSeq + 1 <= q
    BY <1>9, <2>1
  <2> QED
    BY <1>4, <1>7, <1>8, <1>9, <2>2 DEF Ahead
<1>11. Len(written') = recvSeq' * PayUnits
  <2>1. Len(written) = recvSeq * PayUnits + cur.size /\ Rest \in Nat
        /\ cur.size \in Nat /\ Rest = PayUnits - cur.size
    BY <1>1, <1>3, DeliverNumbers, Sizes DEF Holds, Rest
  <2>2. Len(written') = Len(written) + Rest
    BY <1>4, <2>1, WrittenLength
  <2>3. recvSeq * PayUnits \in Nat /\ recvSeq' * PayUnits = recvSeq * PayUnits + PayUnits
    BY <1>4, <1>9, NextPacket
  <2> QED
    BY <2>1, <2>2, <2>3, Sizes
<1>12. \A p \in table : /\ p \in Agents \X Slots /\ Waits(p)
                        /\ slot'[p[1]][p[2]] = slot[p[1]][p[2]] /\ Kept(p[1], p[2])'
  BY <1>3, <1>5, OtherKept DEF Holds
<1>13. ASSUME NEW p \in table, slot[p[1]][p[2]].seq # recvSeq + 1
       PROVE  Waits(p)'
  <2>1. PICK q \in Nat : q = slot[p[1]][p[2]].seq
    BY <1>12 DEF TypeInv, TypeOK, SlotTypeOK, Slot
  <2>2. q > recvSeq /\ q < peerSeq /\ \A j \in Agents : ~Carries(j, q)
    BY <1>12, <2>1 DEF Waits
  <2>3. slot'[p[1]][p[2]].seq = q /\ Kept(p[1], p[2])'
    BY <1>12, <2>1
  <2>4. q > recvSeq' /\ q < peerSeq'
    BY <1>4, <1>7, <1>9, <1>13, <2>1, <2>2
  <2>5. \A j \in Agents : ~Carries(j, slot[p[1]][p[2]].seq)'
    BY <1>8, <2>2, <2>3 DEF Carries
  <2> QED
    BY <2>3, <2>4, <2>5 DEF Waits
<1>14. CASE pc' = "epoll_ctl failed"
  BY <1>7, <1>14 DEF OrderInv, Running, Terminated, Aborts
<1>15. ASSUME NEW p \in table, InTable(p, recvSeq + 1), table' = table \ {p},
              cur' = [agent |-> p[1], slot |-> p[2], size |-> 0], pc' = "deliver"
       PROVE  OrderInv'
  <2>1. PICK j \in Agents, x \in Slots : p = <<j, x>> /\ j = p[1] /\ x = p[2]
    BY <1>12
  <2>2. slot[j][x].seq = recvSeq + 1 /\ Waits(p) /\ slot'[j][x] = slot[j][x] /\ Kept(j, x)'
    BY <1>12, <1>15, <2>1 DEF InTable
  <2>3. \A r \in table' : slot[r[1]][r[2]].seq # recvSeq + 1
    BY <1>3, <1>15, <2>1, <2>2 DEF TableOK
  <2>4. TableOK'
    <3>1. \A r \in table' : Waits(r)'
      BY <1>13, <1>15, <2>3
    <3>2. \A r, u \in table' : slot'[r[1]][r[2]].seq = slot'[u[1]][u[2]].seq => r = u
      BY <1>3, <1>12, <1>15 DEF TableOK
    <3> QED
      BY <3>1, <3>2 DEF TableOK
  <2>5. HeadTaken'
    <3>1. PICK q \in Nat : q = recvSeq + 1
      BY <1>9
    <3>2. q < peerSeq /\ \A k \in Agents : ~Carries(k, q)
      BY <2>1, <2>2, <3>1 DEF Waits
    <3>3. \A k \in Agents : ~Carries(k, recvSeq)'
      BY <1>4, <1>8, <3>1, <3>2 DEF Carries
    <3> QED
      BY <1>4, <1>7, <3>1, <3>2, <3>3 DEF HeadTaken
  <2>6. Len(written') = recvSeq' * PayUnits + 0
    <3>1. recvSeq' * PayUnits \in Nat
      BY <1>4, <1>9, NextPacket
    <3> QED
      BY <1>11, <3>1
  <2>7. Holds(j, x, 0)'
    BY <1>4, <1>15, <2>1, <2>2, <2>5, <2>6 DEF Holds
  <2>8. cur'.agent = j /\ cur'.slot = x /\ cur'.size = 0
    BY <1>15, <2>1
  <2>9. Holds(cur.agent, cur.slot, cur.size)'
    BY <2>7, <2>8
  <2>10. HostOK'
    BY <1>3, <1>4, <1>15, <2>9 DEF HostOK
  <2> QED
    BY <1>6, <1>7, <1>10, <2>4, <2>10 DEF OrderInv, StreamOK
<1>16. ASSUME \A p \in table : ~InTable(p, recvSeq + 1), pc' = "top", table' = table
       PROVE  OrderInv'
  <2>1. TableOK'
    <3>1. \A r \in table' : Waits(r)'
      BY <1>13, <1>16 DEF InTable
    <3>2. \A r, u \in table' : slot'[r[1]][r[2]].seq = slot'[u[1]][u[2]].seq => r = u
      BY <1>3, <1>12, <1>16 DEF TableOK
    <3> QED
      BY <3>1, <3>2 DEF TableOK
  <2>2. HostOK'
    BY <1>3, <1>4, <1>11, <1>16 DEF HostOK
  <2> QED
    BY <1>6, <1>7, <1>10, <2>1, <2>2 DEF OrderInv, StreamOK
<1> QED
  BY <1>14, <1>15, <1>16 DEF DeliverPacket

\* The peer's side is left alone: nothing old comes.
LEMMA PeerStillOld ==
  ASSUME TypeInv, WireInv, UNCHANGED peerVars
  PROVE  WireInv' /\ NothingOld
<1>1. WireInv' /\ PeerFrame /\ peerSeq \in Nat
  BY PeerStill DEF TypeInv, TypeOK, PeerTypeOK
<1> QED
  BY <1>1 DEF PeerFrame, NothingOld

\* The host takes a part of the packet, which is remembered.
LEMMA DeliverBlocksOrder ==
  ASSUME TypeInv, OrderInv, pc = "deliver", DeliverBlocks
  PROVE  OrderInv'
<1>1. PICK i \in Agents, s \in Slots : i = cur.agent /\ s = cur.slot
  BY OutSlots
<1>2. WireInv /\ StreamOK /\ \A j \in Agents : Aligned(j)
  BY DEF OrderInv, Running, Terminated, Aborts
<1>3. TableOK /\ HostOK /\ Ahead /\ Holds(i, s, cur.size) /\ recvSeq <= peerSeq
  BY <1>1, <1>2 DEF StreamOK, HostOK
<1>4. PICK n \in Nat, m \in Nat : n = HostRoom /\ m = cur.size + n
  BY DeliverNumbers, Sizes
<1>5. /\ written' = written \o HostUnits(n)
      /\ slot' = [slot EXCEPT ![i][s].sent = m]
      /\ indexOut' = s /\ outAgent' = i
      /\ UNCHANGED <<recvSeq, agentMask, indexIn, needHdr, table, peerVars>>
  BY <1>1, <1>4 DEF DeliverBlocks, RememberOut
<1>6. \/ pc' = "top" /\ "out" \in hostMask'
      \/ pc' = "host not pollable"
  BY DEF DeliverBlocks, PollFor, MaskIN, OFF, CLOSED
<1>7. DeliverFrame(i, s)
  BY <1>5 DEF DeliverFrame, TypeInv, TypeOK, SlotTypeOK
<1>8. \A j \in Agents : Aligned(j)'
  BY <1>2, <1>3, <1>7, DeliverPlace, StillAligned DEF Holds
<1>9. WireInv' /\ NothingOld
  BY <1>2, <1>5, PeerStillOld
<1>10. Ahead' /\ recvSeq' <= peerSeq'
  BY <1>3, <1>5, <1>9, StillAhead
<1>11. TableOK'
  <2>1. \A p \in table : /\ p \in Agents \X Slots /\ Waits(p)
                         /\ slot'[p[1]][p[2]] = slot[p[1]][p[2]] /\ Kept(p[1], p[2])'
    BY <1>3, <1>7, OtherKept DEF Holds
  <2>2. \A p \in table : Waits(p)'
    BY <1>5, <1>9, <2>1, StillWaits
  <2> QED
    BY <1>3, <1>5, <2>1, <2>2 DEF TableOK
<1>12. Holds(i, s, m)' /\ slot'[i][s].sent = m
  <2>1. HeadTaken'
    BY <1>3, <1>5, <1>9, StillTaken DEF Holds
  <2>2. Len(written') = recvSeq * PayUnits + m
    <3>1. Len(written') = Len(written) + n
      BY <1>5, WrittenLength
    <3>2. recvSeq * PayUnits \in Nat /\ cur.size \in Nat
      BY NextPacket, DeliverNumbers, Sizes DEF TypeInv, TypeOK, SlotTypeOK
    <3>3. Len(written) = recvSeq * PayUnits + cur.size
      BY <1>3 DEF Holds
    <3> QED
      BY <1>4, <3>1, <3>2, <3>3
  <2>3. /\ slot'[i][s].inUse = slot[i][s].inUse /\ slot'[i][s].seq = slot[i][s].seq
        /\ slot'[i][s].sent = m
    BY <1>5 DEF TypeInv, TypeOK, SlotTypeOK, Slot
  <2> QED
    BY <1>3, <1>5, <2>1, <2>2, <2>3 DEF Holds, Kept
<1>13. ASSUME pc' = "top", "out" \in hostMask' PROVE HostOK'
  <2>1. outAgent' = i /\ indexOut' = s /\ slot'[i][s].sent = m
    BY <1>5, <1>12
  <2>2. Holds(outAgent, indexOut, slot[outAgent][indexOut].sent)'
    BY <1>12, <2>1
  <2> QED
    BY <1>13, <2>2 DEF HostOK
<1>14. CASE pc' = "host not pollable"
  BY <1>9, <1>14 DEF OrderInv, Running, Terminated, Aborts
<1> QED
  BY <1>6, <1>8, <1>9, <1>10, <1>11, <1>13, <1>14 DEF OrderInv, StreamOK

\* So does one round of the loop of send_data_host().
LEMMA DeliverOrder ==
  ASSUME TypeInv, OrderInv, Deliver
  PROVE  OrderInv'
<1>1. pc = "deliver" /\ Running
  BY DEF Deliver, Running, Terminated, Aborts
<1>2. CASE DeliverReset \/ DeliverError
  <2>1. /\ UNCHANGED recvVars /\ agentMask' = agentMask /\ pc' # "deliver"
        /\ hostMask' = CLOSED \/ hostMask' = hostMask
    BY <1>2 DEF DeliverReset, DeliverError
  <2>2. Beside /\ UNCHANGED peerVars
    BY <2>1 DEF Beside, HostQuiet, recvVars, slotVars, outVars, hostVars, CLOSED
  <2>3. WireInv' /\ PeerFrame
    BY <2>2, PeerStill DEF OrderInv
  <2> QED
    BY <1>1, <2>2, <2>3, BesideOrder
<1> QED
  BY <1>1, <1>2, DeliverPacketOrder, DeliverBlocksOrder DEF Deliver

\* The host takes more: the packet that was cut short is taken up.
LEMMA HostOutOrder ==
  ASSUME TypeInv, OrderInv, HostOut
  PROVE  OrderInv'
<1>1. /\ "out" \in hostMask /\ hostMask' = hostMask \ {"out"}
      /\ cur' = [agent |-> outAgent, slot |-> indexOut, size |-> SavedSize]
      /\ pc' = "deliver" /\ pc = "wait"
      /\ UNCHANGED <<agentMask, slotVars, indexOut, outAgent, peerVars, hostVars>>
  BY DEF HostOut, HostOutEvent, StopPolling
<1>2. WireInv /\ StreamOK /\ \A j \in Agents : Aligned(j)
  BY <1>1 DEF OrderInv, Running, Terminated, Aborts
<1>3. PICK i \in Agents, s \in Slots : i = outAgent /\ s = indexOut
  BY <1>1, OutSlots
<1>4. PICK m : m = slot[i][s].sent
  OBVIOUS
<1>5. TableOK /\ HostOK /\ Ahead /\ Holds(i, s, m) /\ recvSeq <= peerSeq
  BY <1>1, <1>2, <1>3, <1>4 DEF StreamOK, HostOK
<1>6. UNCHANGED <<recvSeq, slot, indexIn, needHdr, table, written, agentMask>>
  BY <1>1 DEF slotVars, hostVars
<1>7. DeliverFrame(i, s)
  BY <1>1, <1>6 DEF DeliverFrame
<1>8. \A j \in Agents : Aligned(j)'
  BY <1>2, <1>5, <1>7, DeliverPlace, StillAligned DEF Holds
<1>9. WireInv' /\ NothingOld /\ StillKept
  BY <1>1, <1>2, <1>6, PeerStillOld DEF StillKept, Kept
<1>10. Ahead' /\ recvSeq' <= peerSeq' /\ TableOK'
  BY <1>5, <1>6, <1>9, StillAhead, QuietTable
<1>11. Holds(i, s, m)'
  BY <1>5, <1>6, <1>9, StillHolds DEF Holds
<1>12. HostOK'
  <2>1. cur'.agent = i /\ cur'.slot = s /\ cur'.size = m
    BY <1>1, <1>3, <1>4 DEF SavedSize
  <2>2. Holds(cur.agent, cur.slot, cur.size)'
    BY <1>11, <2>1
  <2> QED
    BY <1>1, <2>2 DEF HostOK
<1> QED
  BY <1>8, <1>9, <1>10, <1>12 DEF OrderInv, StreamOK

(***************************************************************************)
(* The invariant, and what it shows.                                       *)
(***************************************************************************)

\* Nothing has been sent at first.
LEMMA OrderInit == Init => OrderInv
<1> SUFFICES ASSUME Init PROVE OrderInv
  OBVIOUS
<1>1. /\ \A i \in Agents : wireIn[i] = <<>> /\ peerPkt[i].left = 0
      /\ peerSeq = 0 /\ recvSeq = 0 /\ table = {} /\ written = <<>>
      /\ pc = "top" /\ hostMask = {"in"}
      /\ \A i \in Agents : indexIn[i] = EMPTY /\ needHdr[i] = 0
  BY DEF Init, ChildInit, SendInit, RecvInit, Peer!Init, Peer!EmptyPacket, MaskIN
<1>2. \A i \in Agents : Len(wireIn[i]) = 0
  BY <1>1
<1>3. \A i \in Agents, q \in Nat : ~Carries(i, q)
  BY <1>1, <1>2 DEF Carries
<1>4. WireInv
  <2>1. ASSUME NEW i \in Agents PROVE Striped(i) /\ Behind(i) /\ Numbered(i)
    <3>1. End(i) = 0 \/ End(i) = 1
      BY <1>2 DEF End
    <3>2. Striped(i)
      BY <3>1 DEF Striped
    <3> QED
      BY <1>1, <1>2, <3>2 DEF Behind, Numbered
  <2> QED
    BY <1>3, <2>1 DEF WireInv, Apart
<1>5. ASSUME NEW i \in Agents PROVE Aligned(i)
  <2>1. Pos(i) = 0
    BY <1>1 DEF Pos, InBody, AtHeader
  <2>2. At(i, 1) = <<0, 1>>
    BY <1>1, <1>2 DEF At, NextUnit
  <2> QED
    BY <2>1, <2>2 DEF Aligned
<1>6. StreamOK
  <2>1. Len(written) = recvSeq * PayUnits
    <3>1. Len(written) = 0 /\ recvSeq * PayUnits = 0
      BY <1>1, Sizes
    <3> QED
      BY <3>1
  <2> QED
    BY <1>1, <1>3, <2>1 DEF StreamOK, Ahead, TableOK, HostOK
<1> QED
  BY <1>4, <1>5, <1>6 DEF OrderInv

\* Every step keeps the order.
LEMMA OrderStep == TypeInv /\ OrderInv /\ [Next]_vars => OrderInv'
<1> SUFFICES ASSUME TypeInv, OrderInv, [Next]_vars PROVE OrderInv'
  OBVIOUS
<1>1. CASE LoopTop \/ HostIn \/ \E i \in Agents : AgentOut(i)
  BY <1>1, LoopOrder
<1>2. CASE \/ HostWrites \/ HostCloses \/ HostReads \/ HostResets \/ PeerActs
           \/ \E i \in Agents : PeerTakes(i) \/ AgentBreaks(i)
  BY <1>2, AroundOrder
<1>3. CASE \E i \in Agents : AgentIn(i)
  BY <1>3, AgentInOrder
<1>4. CASE SendDataHost
  BY <1>4, DeliverOrder DEF SendDataHost
<1>5. CASE HostOut
  BY <1>5, HostOutOrder
<1>6. CASE UNCHANGED vars
  <2>1. UNCHANGED <<childVars, recvVars>>
    BY <1>6 DEF vars
  <2>2. UNCHANGED <<pc, hostMask, agentMask, slotVars, outVars, peerVars, hostVars>>
    BY <2>1 DEF childVars, recvVars
  <2>3. WireInv' /\ PeerFrame
    BY <2>2, PeerStill DEF OrderInv
  <2>4. Beside /\ (Running' <=> Running)
    BY <2>2 DEF Beside, HostQuiet, slotVars, outVars, hostVars, Running, Terminated
  <2> QED
    BY <2>3, <2>4, BesideOrder DEF OrderInv
<1>7. CASE Ended
  BY <1>6, <1>7 DEF Ended
<1> QED
  BY <1>1, <1>2, <1>3, <1>4, <1>5, <1>6, <1>7 DEF Next

\* What the peer cuts into packets comes in order, always.
LEMMA OrderInvariant == Spec => []OrderInv
<1>1. Spec => [](TypeInv)
  BY TypeInvariant
<1> QED
  BY <1>1, OrderInit, OrderStep, PTL DEF Spec

\* The packet that waits for the host is the one after those the host has, it is in
\* its slot and not in the table, and host_sent_size is what the host has of it.
THEOREM BlockedIsKept == Spec => []BlockedPacketKept
<1>1. TypeInv /\ OrderInv => BlockedPacketKept
  <2> SUFFICES ASSUME TypeInv, OrderInv, Running, "out" \in hostMask
               PROVE  /\ outAgent \in Agents
                      /\ Holds(outAgent, indexOut, slot[outAgent][indexOut].sent)
    BY DEF BlockedPacketKept, Holds, Kept
  <2>1. HostOK
    BY DEF OrderInv, StreamOK
  <2> QED
    BY <2>1, OutSlots DEF HostOK
<1> QED
  BY <1>1, TypeInvariant, OrderInvariant, PTL

\* No packet is left in the table that the host could have had: what is there comes
\* after the next one.
THEOREM NoneStranded == Spec => []NothingStranded
<1>1. OrderInv => NothingStranded
  <2> SUFFICES ASSUME OrderInv, pc = "wait", NEW p \in table
               PROVE  slot[p[1]][p[2]].seq > recvSeq
    BY DEF NothingStranded
  <2>1. TableOK
    BY DEF OrderInv, StreamOK, Running, Terminated, Aborts
  <2> QED
    BY <2>1 DEF TableOK, Waits
<1> QED
  BY <1>1, OrderInvariant, PTL

\* What the host sees of a child and its peer.
HostSees == HostS!Next \/ UNCHANGED <<peerSeq, written>>

\* A send() to the host writes the next units of the next packet.
LEMMA DeliverSeen ==
  ASSUME TypeInv, OrderInv, pc = "deliver", NEW n \in Nat, n <= Rest,
         written' = written \o HostUnits(n), UNCHANGED peerSeq
  PROVE  HostSees
<1>1. Holds(cur.agent, cur.slot, cur.size)
  BY DEF OrderInv, StreamOK, HostOK, Running, Terminated, Aborts
<1>2. cur.size \in 0..(PayUnits - 1) /\ Rest = PayUnits - cur.size
  BY DeliverNumbers DEF Rest
<1>3. recvSeq \in 0..(peerSeq - 1)
  BY <1>1 DEF Holds, HeadTaken, TypeInv, TypeOK, SlotTypeOK, PeerTypeOK
<1>4. HostUnits(n) = [j \in 1..n |-> <<recvSeq, cur.size + j>>]
  BY <1>1 DEF Holds, HostUnits
<1>5. Len(written) = recvSeq * PayUnits + cur.size
  BY <1>1 DEF Holds
<1>6. cur.size + n <= PayUnits /\ n <= PayUnits
  BY <1>2, Sizes
<1>7. CASE n = 0
  <2>1. HostUnits(n) = <<>>
    BY <1>4, <1>7
  <2>2. written \in Seq(Unit)
    BY DEF TypeInv, TypeOK, HostTypeOK
  <2>3. written' = written
    BY <2>1, <2>2, ConcatEmptySeq
  <2> QED
    BY <2>3 DEF HostSees
<1>8. CASE n # 0
  <2>1. HostS!Write(n)
    BY <1>2, <1>3, <1>4, <1>5, <1>6 DEF HostS!Write
  <2>2. n \in 1..PayUnits
    BY <1>6, <1>8, Sizes
  <2> QED
    BY <2>1, <2>2 DEF HostSees, HostS!Next
<1> QED
  BY <1>7, <1>8

\* Every step is one of HostStream, or leaves the host's stream alone.
LEMMA InboundSeen ==
  ASSUME TypeInv, OrderInv, [Next]_vars
  PROVE  HostSees
<1>1. ASSUME UNCHANGED <<peerVars, written>> PROVE HostSees
  BY <1>1 DEF HostSees, peerVars
<1>2. CASE \/ LoopTop \/ HostIn \/ HostWrites \/ HostCloses
           \/ \E i \in Agents : AgentOut(i) \/ PeerTakes(i)
  <2>1. UNCHANGED recvVars
    BY <1>2 DEF LoopTop, HostIn, HostWrites, HostCloses, AgentOut, PeerTakes
  <2> QED
    BY <1>1, <2>1 DEF recvVars, hostVars
<1>3. CASE HostReads \/ HostResets \/ HostOut
  BY <1>1, <1>3 DEF HostReads, HostTakes, HostResets, HostBreaks, HostOut, HostOutEvent,
                    recvVars, hostVars
<1>4. CASE PeerActs
  <2>1. written' = written
    BY <1>4 DEF PeerActs, PeerSends, PeerCloses, PeerDies, hostVars
  <2>2. peerSeq' = peerSeq \/ peerSeq' = peerSeq + 1
    BY <1>4 DEF PeerActs, PeerSends, PeerCloses, PeerDies, Peer!Take, Peer!Push, Peer!Lose,
                Peer!Close, Peer!Die, Peer!GoesLost
  <2> QED
    BY <2>1, <2>2 DEF HostSees, HostS!Next, HostS!Put
<1>5. CASE \E i \in Agents : AgentIn(i) \/ AgentBreaks(i)
  <2>1. PICK i \in Agents : AgentIn(i) \/ AgentBreaks(i)
    BY <1>5
  <2>2. CASE AgentBreaks(i)
    BY <2>2 DEF AgentBreaks, Peer!Reset, hostVars, HostSees
  <2>3. CASE AgentIn(i)
    <3>1. UNCHANGED <<peerSeq, written>>
      BY <2>3 DEF AgentIn, AgentInEvent, ReadAgentSendHost, NoSlot, HeaderBlocks, HeaderEof,
                  HeaderReset, BodyBlocks, BodyEof, BodyReset, PacketComplete, Consume,
                  recvVars, hostVars, peerVars
    <3> QED
      BY <3>1 DEF HostSees
  <2> QED
    BY <2>1, <2>2, <2>3
<1>6. CASE SendDataHost
  <2>1. pc = "deliver" /\ HostRoom \in Nat /\ Rest \in Nat
    BY <1>6, DeliverNumbers, Sizes DEF SendDataHost, Deliver
  <2>2. CASE DeliverPacket
    <3>1. written' = written \o HostUnits(Rest) /\ UNCHANGED peerSeq
      BY <2>2 DEF DeliverPacket, peerVars
    <3> QED
      BY <2>1, <3>1, DeliverSeen
  <2>3. CASE DeliverBlocks
    <3>1. /\ written' = written \o HostUnits(HostRoom) /\ UNCHANGED peerSeq
          /\ HostRoom < Rest
      BY <2>1, <2>3 DEF DeliverBlocks, peerVars
    <3> QED
      BY <2>1, <3>1, DeliverSeen
  <2>4. CASE DeliverReset \/ DeliverError
    BY <1>1, <2>4 DEF DeliverReset, DeliverError, recvVars, hostVars
  <2> QED
    BY <1>6, <2>2, <2>3, <2>4 DEF SendDataHost, Deliver
<1>7. CASE UNCHANGED vars \/ Ended
  BY <1>1, <1>7 DEF Ended, vars, recvVars, hostVars
<1> QED
  BY <1>2, <1>3, <1>4, <1>5, <1>6, <1>7 DEF Next

\* Whatever connections the packets come over, in whatever order, and wherever they
\* are cut by the network: the host gets the peer's stream in order, once, with no gap.
THEOREM DeliversInOrder == Spec => InOrderDelivery
<1>1. Init => HostS!Init
  BY DEF Init, RecvInit, Peer!Init, HostS!Init
<1>2. TypeInv /\ OrderInv /\ [Next]_vars => [HostS!Next]_<<peerSeq, written>>
  BY InboundSeen DEF HostSees
<1> QED
  BY <1>1, <1>2, TypeInvariant, OrderInvariant, PTL DEF Spec, InOrderDelivery, HostS!Spec

=============================================================================
