# SOSAgent in TLA+

SOSAgent tunnels TCP connections of hosts between two agents. A host connects
to the agent near it; the two agents carry its byte stream over several
parallel TCP connections and hand it to the destination host at the other side.
The C program (`src/OriginalAgentCodeC`) is complete; the Java program
(`src/sosAgent`) is an unfinished port of it. The modules here model the C
program.

## The system

| part | code | state | operations |
|---|---|---|---|
| parent | `poll_loop()` in poll.c, network.c 240-938 | `clients_hashes`, `controller.requests`, `agent_fd_pool`, the event pool | sweep of expired clients, fork, accept host, accept agent, connect, exchange uuids |
| controller interface | controller.c | `controller.requests` | read a datagram, match it with clients |
| child, outbound | `read_host_send_agent()`, `all_agents_socks_full()`, `not_all_agent_socks_full()` | `packet[]`, `send_seq`, the poll masks | cut the host's stream into packets, stripe them, keep the rest of a partial send, pause and resume the host |
| child, inbound | `read_agent_send_host()`, `get_free_packet_index()`, `send_data_host()` | `buffered_packet[][]`, `agent_packet_index_in[]`, `queue_count[]`, `buffered_packet_table`, `recv_seq`, the poll masks | reassemble packets, hold the early ones, write in order, stop and resume reading |
| child, loop | `poll_data_transfer()` | the above | close what is finished, one event at a time |
| discovery | discovery.c | none | one datagram when the parent idles |
| arguments, main | arguments.c, agent.c | options | at the start |
| statistics | `configure_stats()`, `getinfo()` | counters | no decision depends on them |
| uthash | vendored | | used as a set |
| Java port | `src/sosAgent` | requests, clients | a REST server that stores requests, a main loop, handlers that are empty or only add a client to a table |

How they interact. The controller tells both agents about a tunnel, each by one
UDP datagram. The parents of the two agents open connections to each other and
recognise them by the uuid of the tunnel. When an end is complete its parent
forks a child that inherits the sockets; parent and child share nothing after
that. The children of the two ends talk over the parallel connections only.
Every process has one thread; concurrency comes from the other processes, the
hosts, the network, the controller and the clock, which move between any two
steps.

What is hard. *Child*: a mask per socket that both directions change; partial
sends and receives; packets that overtake each other on different connections;
slots that run out while the packet in front is still missing; closes and
resets in the middle of any of it. *Parent*: messages, connections and uuids in
any order; time-outs that race with completion; sockets that are replaced while
their events are pending; busy-waiting in the only thread; fork.

## Modules

```
EpollMask <- AgentChild <- SendPath --+
                        <- RecvPath --+-> DataTransfer -> ChildProperties -> MCChild
StripedSender (peer of RecvPath; specification of SendPath)  |  |
HostStream    (specification of RecvPath and of a tunnel) ---+  +-> ChildProofs -> OutboundProofs
                                                             |                 -> InboundProofs
                                                             |  InboundProofs -> SlotProofs
                                                             |  SlotProofs, OutboundProofs -> AbortProofs
                                                             |  AbortProofs -> EndProofs
              two ChildProperties joined -> TunnelEnds -> TunnelProperties -> MCTunnel
              two EndProofs, TunnelProperties -> TunnelProofs

PollLoop -> PollProperties -> MCPoll
                           -> PollProofs
```

* **EpollMask** — OFF, IN, OUT, INAndOut, CLOSED as sets of directions, and the
  two changes the code makes to a mask. The `EPOLL_CTL_ADD/MOD/DEL` ladders of
  the code are `PollFor` and `StopPolling`.
* **AgentChild** — constants and variables both halves share: `pc`, the masks
  (`host_fd_poll`, `agent_fd_poll[]`), the sockets as the kernel has them.
  When the process ends, by `exit()` or by a signal, the kernel closes every
  socket it still has: `IsUp` is what the other end sees of one.
* **SendPath** — the outbound half. `HostInEvent` and `AgentOutEvent` are the
  two events that call `read_host_send_agent()`; its four ways are `SendRest`,
  `SendNew`, `HostNothing`, `HostEnded`, and the send loop is `SendSome`,
  `SendReset`, `SendPipe`.
* **RecvPath** — the inbound half. `AgentInEvent` is `read_agent_send_host()`
  with one disjunct per way out of it (header or body complete, blocked, end of
  file, reset; no slot). `Deliver` is one round of the loop of
  `send_data_host()`; `HostOutEvent` calls it for a packet that was cut short.
* **DataTransfer** — the loop of `poll_data_transfer()`: `LoopTop`, one action
  per event in the order of the `else if` chain, and the environment.
* **StripedSender** — what one end promises to the other: numbered packets,
  each whole on one connection, numbers increasing on a connection. While it runs
  it closes connections only between packets (`Close`, one or several at a time);
  when it dies all of them are closed at once, wherever they are (`Die`). What was
  given to a connection that broke is lost (`GoesLost`) and goes out on no other.
  The inbound half runs against any such peer (`Peer`), and the outbound half is shown
  to be one (`OutboundStriping`), so the two halves fit each other.
* **HostStream** — what a host is promised: the units of packets 0, 1, 2, ...,
  in order, once, none before the other side had them. One `Write` is one
  `send()` of part of one packet.
* **ChildProperties** — the properties of a child. **MCChild** — instances.
  **ChildProofs** — theorems about one step of either half. **OutboundProofs**,
  **InboundProofs** — theorems about the whole stream a child sends, and the one
  it gives to its host. **SlotProofs** — theorems about its slots.
  **AbortProofs** — theorems about the `exit(1)`s it does not reach. **EndProofs** —
  lemmas about a child whose peer is another one.
* **TunnelEnds** — both children of a tunnel. Each is DataTransfer with
  variables of its own; the peer of each is the other: what one has put on a
  connection (`wireOut`) is what the other reads (`wireIn`), and `peerUp` is
  whether the other still has the socket. `held` says whose sockets a third child
  has copies of (poll.c:109 forks with every descriptor open), so that a close
  sends nothing until that child ends. **TunnelProperties**, **MCTunnel** —
  properties and the instance. **TunnelProofs** — theorems about both children together.
* **PollLoop** — the parents at both sides of the tunnels. `Fork`, `GiveUp` and
  `SweepDone` are the sweep; then one action per event type (the names are those
  of the handlers). `AwaitUuid`/`ConfirmClient` and `SendUuid` are the busy loops
  of `get_uuid()` and `send_uuid()`: a parent in one does nothing else. `inbox`
  counts how often the datagram for an end is still to arrive, `requests` how
  often it is in the table, since `HASH_ADD_INT` keeps both copies.
  **PollProperties**, **MCPoll** — properties and instances. **PollProofs** —
  theorems.

Data is abstract. A packet is a number and `HdrUnits + PayUnits` units on the
wire; a `send()` or `recv()` moves any part of it that the socket buffers allow,
so every place where a transfer can be cut is there. Contents, byte order, log
output and statistics are left out. `buffer_size` is one packet size at both
ends. In `PollLoop` a socket is a name, never a reused descriptor number, a uuid
is the tunnel it belongs to and arrives whole; failures of system calls other
than the ones named in the actions, `fork()` among them, are left out. The sweep
handles one expired client per step and looks at the clock at each.

## Runs

Environment events are switched on per run (`EnvEvents`), and how often the
network may deliver a datagram is `Deliveries`. All child runs have two
connections, the least with which packets overtake each other, and packets of
three or four units, so that a transfer can be cut in the header, in the body
and between them.

| run | what moves | checked | states |
|---|---|---|---|
| send | 6 chunks, buffers of 4 units, host may close; fairness | PendingIsPolled, NoIdleWakeup, AllSentAtExit, OutboundStriping, PauseEnds | 54,586 |
| recv | 4 packets, 2 slots a connection, host buffer of 1 unit, peer may close its connections, one by one or together; fairness; deadlock is checked | PausedIffFull, HeadOfLineReadable, BlockedPacketKept, OneOwner, NothingStranded, NoInternalAbort, InOrderDelivery, EverythingDelivered, EndsAfterPeer | 287,324 |
| faults | both halves, header and body of two units each, closes and resets anywhere, death of either end | TypeOK, PendingIsPolled, SlotAccounting, HeadOfLineReadable, OneOwner, NeverCornered, InOrderDelivery, OutboundStriping | 1,458,712 |
| ends | two children joined, 3 chunks one way and 1 the other, buffers of 2 units, hosts that close, sockets of end A perhaps in another child; fairness | DoneMeansDelivered, NoLateData, BothKeepPolling, ActsAsStreams, Arrives, BothEnd | 187,200 |
| tunnel | 1 tunnel, 2 connections, lost datagrams, refusals, time-outs at any moment; fairness | ForkedComplete, SameConnections, ForkedLeavesNothing, Settles | 28,194 |
| crowd | 2 tunnels between the same parents | TypeOK, ForkedComplete, ForkOnce | 490,668 |
| datagrams | 1 tunnel, each datagram lost, once or twice, refusals, time-outs at any moment | ForkedComplete, ChildPerDatagram | 213,667 |
| pause | as send | PausedHostHasWaker is **violated** | |
| halfclose | host closes while packets for it arrive | ClosedWithoutData is **violated** | |
| reconnect | as crowd | OnlyWaitingConnect is **violated** | |
| mutual | 2 tunnels in opposite directions | NoMutualWait is **violated** | |
| unconnected | as tunnel | UnconnectedCleanedUp is **violated** | |

What the passing runs show together: a child cuts its host's stream into packets
that the child at the other end, or any other that keeps the same rules, puts
together again without loss, repetition or reordering (`OutboundStriping`,
`InOrderDelivery`); with nothing broken all of it arrives, and both children end
when a host is finished, unless a host is left paused for ever as in run `pause`
(`ActsAsStreams`, `Arrives`, `BothEnd`); with connections, hosts or children that
break, also inside packets, what is delivered is still a prefix, and no wake-up comes that
`read_agent_send_host()` cannot serve (`NeverCornered`). Before that, the
parents give a child exactly the connections its tunnel needs.

Why the bounds are enough. The outbound half fills a connection when chunks
exceed what two buffers hold: six chunks of three units against two buffers of
four, so both connections are full, partially full and pending in every
combination. In `recv` four packets exceed the slots of one connection, so it is
paused while the packet in front is on the other. `faults` uses buffers smaller
than a packet: every send is partial. Headers and bodies have two units there, so
that a connection also ends inside each of them, by a reset or by the death of the
peer (`PeerDies`), and a child that dies has healthy connections in the middle of a
packet. In `ends` three packets of three units go one way and one the other, over
connections of two units with one slot each, into hosts that take one unit at a
time: connections stop being read until the host has taken what is there, either
end may be the one that closes first, and the host that writes three chunks is
paused and resumed, or paused and left so, with its last chunk or its end of file
unread. In `tunnel` one second of TIMEOUT is enough to let a client
expire between any two steps. An end connects at most once for each message that
arrives and once for its host or its first socket, so `MaxGen` is above what
happens in every run but `tunnel` and `unconnected`, where one message is one
connection and `MaxGen` is that. In `crowd` and `reconnect` the clock waits until
all is quiet, so these runs owe nothing to time-outs. `CHECK_DEADLOCK FALSE`
stands where the system may really stop: an idle child whose host sends nothing
more, parents that have exited or wait for each other, tunnels that have ended.

Symmetry: the code treats the connections of a child alike, and `crowd` has two
tunnels with the same ends. Runs with liveness use none.

Fairness. A child is one thread that always goes on (`LoopTop`,
`SendDataHost`). epoll goes round its ready list, so an event that stays ready is
reported (weak fairness per event). The host and the peer go on taking what is
sent. Nothing is assumed of the host's or the peer's will to send or close,
except in `PeerActs`: a peer goes on sending what it has begun. In `ends`
the peer is the other child; there the fairness is one weak fairness for the thread
of each child (`ThreadA`, `ThreadB`), with no promise for a single event. A third child that
holds copies of the sockets ends at some time (`HolderEnds`), which is what the
properties there depend on and nothing in the tunnel can bring about. A parent
makes steps while it can, TCP connections do not stay in progress for ever, and
time passes.

## What the violated properties show

* **PausedHostHasWaker** (poll.c:242-248). A host is paused when no connection
  can take anything. If every connection still has part of a packet to send, the
  EPOLLOUT events that follow only send those rests and drop EPOLLOUT; nothing
  calls `not_all_agent_socks_full()`, and the host is never read again.
  `PauseEnds` is what does hold: with one connection that has nothing pending the
  pause ends. `Arrives` and `BothEnd` make this exception and no other: `StuckA`
  and `StuckB` say that this has happened at an end, a paused host and no connection
  polled for output.
* **ClosedWithoutData** (poll.c:426-428). After the host half-closes, connections
  are closed as soon as nothing outbound is pending, with received packets still
  in their slots. `NoLateData` and `DoneMeansDelivered` are what does hold of
  hosts that close only when their exchange is over.
* **OnlyWaitingConnect** (poll.c:156-160). A message for one tunnel makes the
  clients of other tunnels connect again. Followed on, the two children of a
  tunnel can serve different connections: `SameConnections` holds in `tunnel`, and
  would not in `crowd`.
* **NoMutualWait** (network.c:529-531). The uuid is not waited for in the event
  pool but in a loop, and two parents can wait for each other for ever.
* **UnconnectedCleanedUp** (network.c:890). The clean-up of sockets that did not
  connect is never called; a client that is given up leaves them registered. The event
  of an agent socket reads memory that was freed; the event_info of a host socket is
  in the client, which `free_client()` leaves, so its event goes to
  `handle_host_connected()`, which cannot deregister a socket that is closed and ends
  the parent (`DanglingEvent`).
  `ForkedLeavesNothing` is what does hold, where a parent serves one end and datagrams
  come once: a fork leaves none.

A datagram that comes twice leaves a second request in the table after the fork,
and sockets that come later find it: `ForkOnce` and `SameConnections` hold only
where the network repeats nothing. `ChildPerDatagram` is the bound that always
holds.

## Proofs

`ChildProofs` proves, for any finite set of connections and any sizes, and with
every environment event:

* `TypeCorrect`: `Spec => []TypeOK`
* `RemainderIsPolled`: `Spec => []PendingIsPolled`
* `IdleIsQuiet`: `Spec => []NoIdleWakeup`

They rest on the named assumptions of AgentChild, SendPath and RecvPath: a
finite, non-empty set of connections, positive sizes, and a low-water mark within
the buffer.

`TypeOK` is not inductive. `send_data_host()` indexes with the locals of a
delivery and with the remembered `agent_id`, which have their initial value until
they are set, so `TypeInv` adds `OutKnown` (a delivery in progress, and a host
polled for output, name a connection); and a body is read into the slot of
`agent_packet_index_in`, so it adds `ReadStateOK` (a connection without a slot
has no part of a header). The proof has one lemma per action, under it the parts
of the type the action can disturb.

`PendingIsPolled` and `NoIdleWakeup` are not inductive apart: `AgentOutEvent`
resumes the host on the strength of one and clears masks on the strength of the
other. `PollingInv` states both for one connection (`PolledAs`) as a predicate of
the masks, which the lemmas about the send loop establish for the masks each
path leaves, and which the condition `QuietMasks` and the lemma `QuietPolling`
keep for the inbound steps, which change the other direction only. It is
inductive together with `TypeInv`.

`PollProofs` proves, for any nodes and tunnels between different nodes, any
number of connections, any bounds and every environment event:

* `OneChildPerDatagram`: `Spec => []ChildPerDatagram`
* `ForkedOnce`: `Spec => []ForkOnce`, where `Deliveries \subseteq {0, 1}`
* `ForkedAreComplete`: `Spec => []ForkedComplete`
* `ParentsTyped`: `Spec => []TypeOK`
* `SameAtBothEnds`: `Spec => []SameConnections`, `ForkIsClean`:
  `Spec => []ForkedLeavesNothing`, both where
  `Deliveries \subseteq {0, 1}` and no parent serves two ends (`OneEndEach`)

The assumptions are TunnelAssumption and NumberAssumption of PollLoop. `ForkOnce`
has the further one because it is false without: a datagram that comes twice can
give an end two children. The last two have both because each of them is false when
one is dropped: a repeated datagram (`datagrams`), and a second tunnel at the same parent
(`crowd`), each make an end connect again and leave sockets behind.

The first two rest on `LedgerInv`: `ChildPerDatagram` with the types that make it
countable. A message moves one from `inbox` to `requests`; `Fork` needs a request,
takes one away and adds at most one child, since `DropRequest` is part of the
same step; nothing else changes the ledger.

`ForkedComplete` says of a child what `Complete` reads from two numbers, so the
invariant, `SocketInv`, must say what the numbers count. For a CLIENT end
(`ClientCount`) `num_parallel_connections` is the number of its sockets that have
left the event pool connected and with one uuid sent, and the one `send_uuid()`
is working on. For an AGENT end (`JoinedSocks`) it is the number of sockets that
have joined. The count survives a reconnection because it is set to 0 in the step
that opens a new generation of sockets, all of them fresh (`FreshSocks`) and
registered; it survives the events of replaced sockets because leaving the pool
twice is exit(1), after which the parent counts no more. `RegisteredSocks`,
`SentSocks` and `SocksAlive` say what a socket can be at each stage, `BusyOK` what
a parent in a loop is working on, `HostSeen` that the host of a CLIENT end is
accepted once, so that no new client comes upon old sockets, and `ChildrenApart`
that what the parent does later no longer touches the sockets of a CLIENT child.
There is one lemma per action; `ConnectStep` and `ForgetStep` carry what several
actions have in common.

`TypeOK` is about numbers, and needs to know what they count. `SocketsKnown` says which
sockets there can be, for any parents: what joins an AGENT end was opened by the CLIENT
end of its tunnel, so it is among `Allowed * MaxGen` sockets (`JoinedBound`).
`NumbersKnown` says that a second uuid goes out only with the event that makes the parent
exit (`UuidsKnown`), that a parent in `send_uuid()` has sent none on its socket
(`LoopsKnown`), so that this socket is not among those counted ready and
`num_parallel_connections` stays within `agent_sock[]` while the parent lives
(`LiveBound`), and what a client counts at most when it does not (`CountedBound`: an
event that counts once more than there is room for belongs to a replaced socket, so the
end has connected twice).

`SameConnections` compares two parents that share nothing but the network. `OnceInv` adds
that an end connects once (`OnceConnected`: after it has, its datagram is not under way
and its request is in use), and that children and sockets left behind belong to ends that
will neither connect nor fork again (`LeftBehind`, `Settled`). Then both children of a
tunnel serve sockets of the same single generation of its CLIENT end; there are `Allowed`
of these, and a complete child serves that many, so it serves all of them (`ServesAll`).
For `ForkedLeavesNothing`, the ready sockets of the end are all it opened and have left
the pool, and so has its host; an AGENT end registers its host only. These proofs do not
use `MaxGen`: the bound of the runs is never met.

`OutboundProofs` proves, for any finite set of connections and any sizes:

* `StripesOutbound`: `Spec => OutboundStriping`, with every environment event
* `NothingLeftBehind`: `Spec => []AllSentAtExit`, where
  `EnvEvents \subseteq {"host close"}`

`StripesOutbound` is a refinement: initial states map to initial states, and each
step is a step of StripedSender or leaves what it sees alone (`Seen`). The send loop
is `Put`; a new chunk on a working connection is `Take`, on a broken one `Lose`;
the head of the loop closes the set of connections with nothing pending (`Close`).
Every step that ends the child is `Die`, with the chunk it had just numbered or without:
the kernel closes all connections, healthy ones inside packets too (`UpEnded`), which
OutboundStriping sees because `up` there is `IsUp`.
Besides `TypeInv` it needs `HostBound`: what is numbered has been written by the
host, so the bound on chunks bounds the numbers.

`AllSentAtExit` has its assumption because it is false without: a packet is given
up with its connection, and a peer that closes first lets the child leave. Its
invariant says that nothing is broken (`Unbroken`) and in which order things are
closed (`ClosedLast`): the host is left once all it wrote is read, connections after
the host and with nothing pending.

`InboundProofs` proves, for any finite set of connections, any number of slots, any
sizes and with every environment event:

* `DeliversInOrder`: `Spec => InOrderDelivery`
* `BlockedIsKept`: `Spec => []BlockedPacketKept`
* `NoneStranded`: `Spec => []NothingStranded`

The peer and the network are not known step by step, so the invariant, `OrderInv`,
says what is still to come. `Striped` orders the units on one connection, and the one
the peer puts there next (`NextUnit`): two of them are of one packet and as far apart
as in it, or the rest of the first one's packet is in between (`Follows`). A
connection may be cut anywhere without breaking this. `Apart` says that no packet is
on two connections. Together they form `WireInv`, which reading (`ConsumeWire`) and
every step of a StripedSender (`PeerWire`) keep.

The child's own part is that the next unit of a connection is the one it expects
(`Aligned`), so that the last unit of a packet ends it (`WholePacket`): nothing of
that packet is then still to come anywhere, which makes it safe to advance `recv_seq`.
`Ahead` and `TableOK` put what is to come and what waits in the table at or after
`recv_seq`; `HostOK` says how much of the next packet the host has, for the packet in
`send_data_host()` and for the one remembered. Steps that leave the stream alone are
treated at once (`Beside`, `QuietStream`); each way out of `read_agent_send_host()`
and each step of `send_data_host()` has a lemma of its own.

`SlotProofs` proves, with the same constants and events:

* `SlotsAreCounted`: `Spec => []SlotAccounting`
* `UnreadWhenFull`: `Spec => []PausedIffFull`
* `OneOwnerEach`: `Spec => []OneOwner`
* `HeadOfLineIsRead`: `Spec => []HeadOfLineReadable`

The invariant, `SlotInv`, keeps three books on top of `OrderInv`. `Balanced` is the
account of a served connection: slots in use, `queue_count`, the slot being read and
the EPOLLIN bit, which change at different places of `read_agent_send_host()` and
`send_data_host()`. `KeptOK` says of every packet that has been read that none of it is
still to come and that what its connection brings next is later (`Past`), and that two
slots hold different packets. `Owned` says that such a packet is in the table or on its
way to the host.

`HeadOfLineReadable` is why the tunnel cannot block itself, for any number of slots. A
connection that is not read has its slots full of packets that have been read
(`AllTaken`); all of them come before what it brings next, and none before `recv_seq`;
so it does not bring packet `recv_seq`. This uses that the numbers on one connection
increase, which is what StripedSender promises and `StripesOutbound` proves of the
other end.

`AbortProofs` proves:

* `AlwaysRoom`: `Spec => []NeverCornered`, with every environment event
* `OrderlyEnd`: `Spec => []NoInternalAbort`, where nothing ends the tunnel, or only
  the host and the peer sends nothing, or only the peer and the host writes nothing

`AlwaysRoom` follows from the account of the slots: a connection that is read and
between two packets has a slot not in use. `OrderlyEnd` has its assumptions because it
is false without: when a host closes while the rest of a packet is still to be sent,
the child goes on, and a packet that then comes for the host meets a host that has left
the event pool (`"host not pollable"`: the code prints " AIHLKJKj"). Where the host ends
the tunnel its invariant is `LeavingInv` with `HostFirst` (connections are closed after the host,
and a child that waits after it has a packet to send on each that is left); where the
peer does it is `IdleInv`, which says that the outbound half is never called.

`TunnelProofs` proves of the two children of a tunnel, for any number of connections,
any sizes and any amount of data each way, with sockets that other children inherit:

* `NothingTooLate`: `Spec => []NoLateData`
* `DoneIsDelivered`: `Spec => []DoneMeansDelivered`
* `BothPoll`: `Spec => []BothKeepPolling`
* `NeitherAborts`: `Spec => [](A!NoInternalAbort /\ B!NoInternalAbort)`
* `TwoStreams`: `Spec => ActsAsStreams`

They rest on the TunnelAssumption of TunnelEnds, the assumptions of one child for both.

The argument is by rely and guarantee. `EndProofs` is about one end and extends the
proofs of one child; `TunnelProofs` instantiates it for both. The peer of an end is no
longer any StripedSender with any fault: it reads, sends and closes as `Beyond` says.
The invariant of an end, `EndInv`, is kept by its own steps (`EndKeeps`) and by steps of
the other (`BeyondKeeps`), and a step of one end is such a step for the other
(`EndGives`, then `SeenByA` and `SeenByB`). `SameStepA` and `SameStepB` tie the actions
of TunnelEnds to those `EndProofs` is about.

`EndInv` adds to the invariants of one child the order in which things end (`InTurn`).
A host closes when its exchange is over (`EofLast`), connections are closed after the
host and with nothing pending, or read to their end after the peer has closed them
(`ClosedInOrder`), and a child whose peer closed first has given its host everything the
peer put on a connection (`DoneLast`). A child sees connections close and counts
nothing, so `NoneLost` must say where the stream is while it is under way: every packet
below the peer's next number that the host has not had is on a connection or about to
be, in a slot, or on its way to the host (`Coming`, `Here`). `InboundProofs` shows that
nothing is delivered twice or out of order; this is the other half, that nothing is
dropped, and it is what makes `recv_seq` reach the peer's last number.

An end keeps all that only if the other does not close connections early
(`PeerLeavesLast`). Each end's promise depends on the other's, and `FirstCloses` breaks
the circle: the first to close anything is an end whose host has closed, and a host
closes when it has had everything, so at that moment nothing is under way in either
direction.

Only model-checked: liveness under fairness (`PauseEnds`, `EverythingDelivered`,
`EndsAfterPeer`, `Arrives`, `BothEnd`, `Settles`), which these provers do not treat. Every
invariant and every action property of a passing run is proved.

## Not modelled

* Discovery: one datagram when the parent idles, which changes nothing here.
  Argument parsing, once at the start. Statistics, on which no decision depends.
  The vendored hash table, used as a finite set (of requests: as a bag). The jars.
* The Java port. Most of its handlers are empty (`Agent.handleHostConnection` adds a
  client to a table), it carries no data, and nothing reads the table of requests
  that its REST controller fills, so no behaviour follows from what the tables hold.
  One hazard of it is listed.
* Parsing of the controller's datagram, and datagrams that say something false.
* Descriptor numbers: a reused descriptor, and `close(0)` for a host socket that
  was never set (poll.c:130); in the parent the late event of a host socket given up
  (`DanglingEvent`) can so deregister another socket.
* Failures of system calls that the actions do not name, `fork()` among them, and
  resource limits of the parent.

Hazards of the code that no property covers are listed in PROJECT.json with the
reason.

## What could come next

Descriptors as numbers, for the two hazards that need reuse. What of `SameConnections` and
`ForkedLeavesNothing` is left at a parent that serves several tunnels: which of the
sockets a child serves belong to the generation the other end knows.
