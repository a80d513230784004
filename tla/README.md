# Formal models of inetmanet-2.0

inetmanet-2.0 is the INET framework for the OMNeT++ discrete event simulator with
the MANET extensions and the BATMobile routing protocol: about 370,000 lines of
C++ that simulate hosts, routers and radios. This directory holds TLA+ modules that
model the stack every simulated host runs (ARP, IPv4 output and fragmentation, TCP), the
operations that start, stop and crash nodes, DHCP, and two routing protocols (RIP and
AODV); TLC instances that check them; and TLAPS proofs of what holds for every topology,
every length and every number of nodes.

`PROJECT.json` relates every definition to the lines it was translated from, every
run to its properties, and every property to a mutant of the code that breaks it.

## 1. The system

### How the parts interact

A node is a tree of simple modules. A module runs only while it handles an event
(a message, a self-message that is a timer, a direct call of another module, a
signal), and an event is handled to its end before the next one begins. There are
no threads, so **one handler is one action** in the models. What can be
interleaved is everything between two events: packets of several nodes, timers,
commands of applications, and the lifecycle operations that stop, crash and
restart a node. Four ways of interaction matter:

- messages through gates (packets up and down the stack, commands to a protocol);
- direct method calls (IPv4 asks ARP for an address);
- signals, delivered synchronously inside the emitter's handler (ARP tells IPv4
  that a resolution has ended);
- lifecycle operations, which walk over all modules of a node stage by stage, and
  in which a module may finish its stage later.

### Inventory

| Component | State | Operations | What is hard, and what makes it correct |
| --- | --- | --- | --- |
| ARP (`networklayer/arp`) | cache: address to entry (pending, MAC, retries, last update), one timer per pending entry | look up, start a resolution, process a packet, request timeout, start, stop | replies racing timeouts and restarts; no timer without a resolution and no resolution without a timer; an entry holds a right MAC address |
| IPv4 output (`networklayer/ipv4/IPv4.cc`) | a queue of datagrams for each next hop under resolution | send, resolution completed, resolution failed, stop | two paths to the interface, direct and by signal: no reordering, no loss other than a failed resolution, nothing waits for ever |
| IPv4 fragmentation and reassembly | regions per (source, destination, id) with a time stamp | fragment (again), add a fragment, purge | order, loss, duplicates, fragments of fragments: a datagram comes out exactly when all of it came in |
| IPv4 routing and netfilter hooks | routing table, queued datagrams of hooks | route, forward, reinject | a queued datagram outlives the state it was checked in |
| TCP connection, flavours and queues (`transport/tcp`) | state machine, sequence variables, queues, five timers | OPEN, SEND, CLOSE, ABORT, segment, timeouts | loss, reordering, retransmissions, simultaneous open and close, wrap of sequence numbers: a reliable stream, timers that match the state, termination |
| TCP main module | connections, ports | dispatch, ephemeral ports, reset on shutdown | a table at its limit, crash with live connections |
| Lifecycle (`base`, `status`) | pending callbacks of an operation, node status | initiate, module done, next stage | modules that finish a stage later, crash during a shutdown: every operation ends, its initiator learns of it once, no layer stops under one that still works |
| RIP (`networklayer/routing/rip`) | vector of routes with metric, neighbour and age; update timers | request, response, regular and triggered update, expiry and purge, interface events, start, shutdown, crash | updates racing timers and interface events, count to infinity, lost packets: metrics never too small, convergence after the last fault |
| AODV (`networklayer/routing/aodv`) | routes with sequence numbers, pending discoveries, datagrams kept by the hook, blacklist | datagram without route, RREQ, RREP, RREP-ACK, RERR, link break, timeouts, expiry, reboot | loop freedom while nodes move and replies are late; a datagram put aside is sent in the end |
| DYMO, BATMAN, OLSR and the ported agents | routes, neighbour windows | as AODV, or periodic | as AODV |
| OSPF, BGP, LDP, RSVP-TE | neighbour and session machines, databases | hello and adjacency events | state machines over unreliable sessions |
| STP, RSTP, Ethernet | port roles and timers, address table | BPDUs, expiry | convergence, temporary loops |
| IEEE 802.11 | MAC state machine, association | frames, backoff, authentication and association | continuous time in the MAC; handshake timeouts in the management |
| IGMP, IPv6 ND | group and neighbour states with timers | reports, queries, solicitations | suppression of reports, reachability states |
| DHCP (`applications/dhcp`) | client state, lease and timers; the server's table | discover to acknowledge, renew, rebind, reboot, association, start, stop | late and lost answers, timeouts, restarts: no address twice, no client stuck, no change of address under way |
| UDP, SCTP, RTP, applications | sockets, associations | send, receive | SCTP is of the size of TCP |
| Mobility, radio, energy, world models | positions, powers | numerical updates | continuous quantities; no state machine |

The hazards in this code, each at its line and with the properties that would
catch it, are listed in `PROJECT.json`.

## 2. The modules

```
NextHopQueue  <=  IPv4Output  ==>  ARP             (refines, uses)
                      ^
            IPv4_proofs, MCIPv4Output

IPv4Reassembly ==> IPv4Fragmentation, ReassemblyBuffer
                      ^
            IPv4_proofs, MCIPv4Reassembly

ReliableStream <=  TCPPair ==> TCPConnection ==> TCPSequence
                      ^
            TCPPair_proofs <== TCPStream_proofs, MCTCPSetup, MCTCPTransfer, MCTCPClose, MCTCPLive

Lifecycle ==> NodeModules              DHCP
    ^                                    ^
Lifecycle_proofs, MCLifecycle          DHCP_proofs, MCDHCP

DistanceVector <=  RIP                 AODV
    ^               ^                    ^
DistanceVector_proofs <== RIP_proofs   MCAODV
                    ^
                  MCRIP

Walks_proofs  (induction, used by RIP_proofs, IPv4_proofs, TCPPair_proofs)
```

A definition whose comment begins with "Mutant" is a wrong variant of the one below it
and is used by no specification; `PROJECT.json` says which property it breaks.

### ARP, IPv4Output, NextHopQueue

`ARP` has the cache, the timers and the up/down flag of every host of one LAN, and
the ARP packets on it. An entry is the C++ `ARPCacheEntry`; `lastUpdate` is
reduced to whether it is younger than `cacheTimeout`, and becomes old by an action
of its own (`EntryExpires`). The timer of an entry is a *count* of scheduled
self-messages, so that a timer that is scheduled twice, or cancelled without being
scheduled, shows. A broadcast request is one element of `lan` per receiver; the LAN
loses and reorders packets. Remote addresses have no host on the LAN and are
answered by proxies (`respondToProxyARP`).

`IPv4Output` adds `sendDatagramToOutput` and the queue of datagrams. ARP emits its
signals while it handles an event, so an ARP handler and what IPv4 does in
`receiveSignal` are one action: `ArpPacketArrives` is `processARPPacket` conjoined
with `arpResolutionCompleted`, `ArpTimeout` is `requestTimedOut` with
`arpResolutionTimedOut`. `NodeStop` stands for the NETWORK_LAYER stage of a
shutdown and for a crash, in which both modules stop.

`NextHopQueue` says what the network layer promises without ARP: datagrams for a
next hop are numbered in the order in which they are handed over; each waits or is
sent at once, but only past an empty queue; all that waits is released, in order
and to a right MAC address, or all of it is dropped.

Left out here: `globalARP = true` (a cache shared by all nodes), several interfaces
per host, and routing before the output step.

### IPv4Fragmentation, ReassemblyBuffer, IPv4Reassembly

`IPv4Fragmentation` translates `fragmentAndSend` as an operator: what one datagram
becomes on an interface with a given MTU (0 is infinite), the fragment loop, the
exhausted hop counter and the don't-fragment bit included. The MTU arithmetic is
kept, with the header length and the block of 8 bytes as parameters. The source
has two variants of the loop; the one modelled (`NEWFRAGMENT`) is compiled.

`ReassemblyBuffer` translates `merge` and `mergeFragments`: a main region and
regions that wait for the gap before them. The vector of regions is a set, which is
sound because all regions are pieces of one partition of the payload, and a region
that is there twice is removed by the containment test. `mergeNext` takes one region that
connects out of the vector, and `mergeFragments` repeats that once for every
region there is, which is as often as the `do` loop can find something; `MergeFragments`
in `IPv4_proofs` shows that nothing that connects is left.

`IPv4Reassembly` puts a source, a router that may fragment again, and a receiver
together. A datagram on the last link may arrive any number of times or never. Time
is reduced to "this buffer is older than `fragmentTimeout`" and "10 s have passed
since the last purge". A history variable holds the bytes that arrived since a
buffer was made, and the properties compare the buffer with it. Its
initial and next-state predicates are named `ReassemblyInit` and `ReassemblyNext`, so that
`IPv4_proofs` can extend it together with `IPv4Output`.

Assumptions: no identification is used twice (the code's key has 16 bits and its
counter more), payloads are below 64 KiB, and fragments overlap only as duplicates,
because the router forwards each of them once.

### TCPSequence, TCPConnection, TCPPair, ReliableStream

`TCPSequence` has the comparisons of `TCPSegment.h` modulo `2 * Half`; `Half` is
`1UL << 31` in the code.

In `TCPConnection` a connection is a record, and every handler of the C++ class is an
operator from a record to the record it leaves behind. `process_RCV_SEGMENT` follows the
steps of the code in their order: acceptance test, RST, SYN, ACK (with duplicate ACKs
and fast retransmit), data, FIN, then the state transition and the deferred FIN.
`performStateTransition` is a table, `stateEntered` cancels timers and tells the
application. What the handler sends goes to the field `out`, indications to `ind`.
A failing `ASSERT` and a `cRuntimeError` set `failed`, which stops the
simulation.

`TCPPair` has two ends, their applications and the network. The network loses and
reorders; duplicates come from retransmission. Which application opens how, and in
which states it sends, closes and aborts, are constants, so that each instance asks
one question. A timer may fire at any moment after it was set, unless its name is in
`Patient`: then it is longer than the delay of the network and fires only when
nothing is in flight. (Without that a 2MSL timer that is shorter than the delay
of a segment would produce behaviours the parameters of TCP are there to exclude.)

`OrderlySetup` names what the code needs of the constants to behave: one end opens actively
and the other passively, no application sends or closes in SYN_RCVD, and the timers of
connection setup are patient. Section 5 has what happens without each of the three. It is a
hypothesis of the theorems across the ends; `tcp_transfer`, `tcp_close` and `tcp_live` check it of their constants,
and `tcp_setup` asks what holds when setup timers expire at any moment.

`ReliableStream` is the promise to the applications: in each direction the items come out in
the order in which they went in, each once, and the end of the stream is seen
only after all of them.

Abstractions: one unit of data is one full-sized segment; the receive window is constant;
the usable window, `min(snd_wnd, snd_cwnd)`, is a parameter `win` chosen from
`Windows` at every step that may send, which covers the arithmetic of the flavours
without modelling it. Not modelled: SACK, timestamps, window scaling, delayed ACKs,
limited transmit (all off by default), zero windows with the PERSIST timer, Nagle's
algorithm, forking of a listening connection, and reopening after CLOSED.

### NodeModules, Lifecycle

`NodeModules` has the stages of the three node operations and, for each kind of module
modelled, the stage of a start and of a shutdown in which its `handleOperationStage`
acts, its layer, and whether it finishes the stage later (RIP does).

`Lifecycle` is `LifecycleController` with the `NodeStatus` of each node.
`initiateOperation` runs stage after stage until a module has to be waited for
(`resumeOperation`, which is also called when the last of these has invoked its callback).
A module that acts is added to or removed from `operational`; `timer` holds
the modules with a pending self-message that will invoke a callback. Operations that
`NodeStatus` refuses stop the simulation and are not steps. The module operations
themselves are in the other modules: `NodeStop` of `IPv4Output` is the stage NETWORK_LAYER,
`NodeShutdown` and `shutdownTimeout` of `RIP` the stage ROUTING_PROTOCOLS and the callback.

### DHCP

`DHCP` has any number of clients and one server, and the set of messages between them, which
are lost, delayed and reordered at will. A client is the state machine of
`DHCPClient` with its lease, the address of its interface and its timers; the server
is `DHCPServer` with its table. Transaction ids are random 32-bit numbers and taken to be
unique, so a message only has to tell whose it is and whether its client has drawn
another id since (`latest`). Stopping a client cancels timers and removes the address but
keeps state and lease; stopping the server clears its table (`forgot` remembers that a
lease was lost that way). The size of the pool is chosen in the initial state.

The length of leases is reduced to the order of the timers T1, T2 and lease. ARP probes
do not exist in the code. `Associated` is the layer 2 signal after roaming, which the code
handles as a restart of the negotiation.

### RIP, DistanceVector

`RIP` has the routers of a network, each with its vector of routes, interfaces that go up and
down, and a queue of packets for each pair of neighbours on a network. `sendRoutes` walks
the vector and expires and purges routes as it goes, as the code does, skipped entries
included. The part of the IPv4 routing table that RIP uses is the field `route` of an
entry: the IPv4 route it stands for. A routing table that deletes and adds its interface
routes (`IPv4ConfigChanged`) does so inside the handler, with the signals RIP gets.

Where the code runs into undefined behaviour (an iterator moved past the end of the
vector after a purge) `aborted` is set and the model stops.

`sendOnAll` is the loop over the interfaces in `processUpdate` and `NodeShutdown`: a walk
over the table for each interface in turn, each on the table that the walk before has
left. `ripInterfaces` are those whose mode is not `NO_RIP`.

`DistanceVector` says what any such protocol promises: a router believes in a metric
because it originates the destination, because a neighbour said so (plus the
interface's cost), or it is infinite, and it announces only what it believes.

Abstractions: a table fits into one packet; the age of a route is fresh, expired or
purgeable, and it gets older only while no neighbour refreshes it; a unicast answer needs the
interface route of its network. With `MaxInFlight = 0` packets arrive, in any order of the
channels, before the next timer or fault: the delay of a link is far below the 30 s of an
update. Interfaces that are created and deleted at run time and routes changed by
others (`NF_IPv4_ROUTE_CHANGED`) are not modelled, nor is RIPng.

### AODV

In `AODV` a node is a record, as in `TCPConnection`, and handlers are operators on it. What
IPv4 does with a datagram that the hook of AODV accepts, keeps or reinjects is part of the
handler: a reply is a datagram, is routed like one and waits for a route if there is
none. A packet in `net` is on its way to one neighbour; a broadcast is one packet per
neighbour that hears it. A unicast frame that cannot be received is reported to its sender
(`LinkBreak`: the MAC has given up), a broadcast is just lost. `Move` changes who hears
whom. A reply that is forwarded is sent with jitter (`AODVRouting.cc:1264`): until it comes
to the IPv4 module of its own node it is a packet with `from = at`, and only then
(`JitterEnds`) the hook asks for a route. A packet of another node without a route makes IPv4
send an ICMP message to its source (`Unroutable`), which may need a discovery itself. An
assertion that fails stops the model, as it stops the simulation.

Two fields of a node are history: `mistaken` has the originators whose requests were dropped as
duplicates of another node's, `restarted` tells whether the node has ever stopped.

Abstractions: lifetimes are not counted, any route may expire at any time (each expiry is
one of `MaxFaults`); of the precursors of a route only whether there are any; the jitter
of broadcasts is left out since packets are delivered in any order anyway; two identical packets
between the same two nodes are one. Hello messages
are off by default and not modelled; local repair is not implemented. The expanding ring, rate limits and
gratuitous replies are in the model, but the instances are too small to need them.

`MaxInFlight` bounds two things. The timer of a discovery fires when at most that many of the
discovery's own requests and replies are on their way: `RING_TRAVERSAL_TIME` (`AODVRouting.cc:321`)
is a multiple of the time they need. It does not wait for the packets of other nodes. The
timers of the rate limits, of acknowledgements and of the blacklist fire when at most that many packets
of any kind are in flight (`Calm`); that is a bound, the code gives no such order. Applications,
expiry, moves, stops and starts come at any time.

## 3. The runs

| Run | Question | States |
| --- | --- | --- |
| `ipv4_output` | Do ARP and the queue stay consistent, implement `NextHopQueue`, and does waiting always end? | 126,756 |
| `ipv4_reassembly` | Is exactly what arrived put together? | 14,878 |
| `tcp_transfer` | Is the stream reliable with two segments in flight? | 258,371 |
| `tcp_close` | Do timers, assertions and indications survive every way to close? | 249,468 |
| `tcp_setup` | Do setups with early timeouts, refusals and aborts end without a wrong reset or a failing assertion? | 75,787 |
| `tcp_live` | Does an ordinary connection end? | 53,645 |
| `lifecycle` | Do operations end, in order, with one notification, on nodes with modules that wait? | 216 |
| `dhcp` | Are addresses unique and stable, and is no client stuck? | 251,741 |
| `rip` | Is the table consistent, is RIP a distance vector protocol, and does it converge? | 83,559 |
| `aodv` | Are routes free of loops, do searches at the same time deliver, and do they end? | 594,718 |
| `ipv4_payload_length`, `aodv_loop` | Two claims that do not hold, see section 5 | |

`ipv4_output`: two hosts that resolve each other at the same time, and a remote address
that one of them answers for. Two datagrams from `h1` to `h2`, one to the remote address
and one back are enough for one that is sent and one that waits, and for a second
resolution of an address that has expired. With `retryCount = 2` a resolution retries once and
then fails. Losses, expiry and restarts are not bounded. Group addresses and longer
flows are left to the proofs.
`OneTimerPerResolution` is what keeps `requestTimedOut` from running on a freed
entry; `WaitingMeansPending` contains the ASSERT2 of `sendDatagramToOutput`;
`PerNextHopFifo` says that the two paths to the interface do not overtake each
other; `WaitingEnds` that every queue is emptied in the end.

`ipv4_reassembly`: payloads of 2 and 7 bytes with a block of 2 and MTUs that make
up to two fragments at the source, some of which the router divides again. Two
sources show that their buffers are not mixed; they are symmetric, which is sound
because no property or initial value tells them apart.
`ReassemblyExact` equates a buffer with the bytes that arrived; it fails if a
merge stops one region early. `DeliveredComplete` says that only whole datagrams
come out, with no bytes of another life of the buffer.

TCP: sequence numbers are modulo 64. The client's wrap during the exchange, the server's do
not, because segments without ACK bit have `ackNo = 0` as in the code, which an initial
number near 0 would meet far more often than in a space of 2^32. `RcvWnd = 3`
is more than what is in flight and far less than `Half`.
`DUPTHRESH = 1` (3 in the code) makes fast retransmit happen with two
segments; `MAX_REXMIT_COUNT` and the number of losses are 1 or 2, so that both
a repaired loss and giving up are reached. `tcp_transfer` lets REXMIT fire at any
moment, `tcp_setup` the two setup timers.

`lifecycle`: three nodes, each with the modules of a wired router with RIP and RIPng, so
that two modules are waited for in one stage and nodes overlap in all ways. The state is small because a
stage that nobody waits in is one step; there is no bound.

`dhcp`: two clients and pools of none, one or two addresses, so that a pool is empty, has to be
shared, or suffices. At most three messages are in flight, one after the server has lost
its table (most properties then say nothing). The clients are symmetric: no
property or initial value tells them apart. `NoDuplicateAddress` and `AddressStable` hold
only until the server forgets its table, see section 5; `OneLeasePerClient`,
`TimersMatchState` and `BoundHasAddress` hold always.

`rip`: two routers that share two networks, with different costs and modes on each, so
that every destination has two ways and split horizon, poisoned reverse and neither occur. A
static route is originated by one of them. Infinity is 4, one more than the longest
path, so that counting to infinity takes several rounds. Two faults (a lost packet, an interface
event, a shutdown or a crash) happen at any time. `RouteInstalled` contains the
assertions of `updateRoute`. `Convergence` says that from some time on the metrics
solve the Bellman equations of what is up, unless a purge has moved the iterator.

`aodv`: three nodes in a row. The ends send to each other at any time, so that both search at
once, with the same request ids. One fault happens at any time: a missed broadcast, an expiry, a
forgotten request id, a move or a stop. With `rreqRetries = 1` both a retry that succeeds and the limit are
reached; no node makes more than `MaxRreq = 4` requests even when it may. With `MaxInFlight = 0` a discovery
retries when its own packets have come to an end.
`LoopFree` relates the routes of all nodes. `NumbersNotAhead` is what freedom from loops rests on: no node
believes in a number that the destination has not reached yet; it fails as soon as the number of an
originator is taken for that of the neighbour that forwards its request. `DataDelivered` says that a missed
broadcast is made up for while two searches overlap. It excepts by name the request that
some node takes for another's: a search may then fail without any fault, see section 5. With one
retry less it is violated. `DiscoveriesEnd` says that no discovery retries for ever.

`aodv_loop` has the same nodes, one fault too, and other traffic: C looks for B while A
looks for C. It finds a loop although no discovery times out while its own packets travel.

Deadlock is not checked where a system may really stop: applications that have sent all they
have, connections that are closed, an ARP cache with nothing to do. In `dhcp`, where some
timer or message is always there, it is checked.

### Fairness

A scheduled self-message is in the future event set of the simulator and is executed; a
frame that is not lost arrives. Everything below is an instance of that.

`ipv4_output` assumes weak fairness of `ArpTimeout` only. Nothing is assumed of the LAN,
which may lose every packet.

`tcp_live` assumes that a segment in the network and not lost arrives, that a timer
that is set fires, and that the applications open and close. For the
events this is written as `[]<>~Due \/ []<><<Action>>_vars`, weak fairness with
the guard in place of ENABLED. Fewer segments are lost than the ends are ready to
retransmit; otherwise a connection is aborted, which the safety runs cover.

`lifecycle` assumes weak fairness of the self-message that invokes a callback.

`rip` assumes weak fairness of the arrival of packets, and strong fairness of regular
updates, startup and expiry. Strong, because the bound `MaxInFlight` disables them for
as long as packets are on their way, which the simulator's clock does not. No fairness is
assumed of triggered updates, purges and faults.

`aodv` assumes that packets go on leaving the network as long as there are any, that an
application whose node stays up sends what it has to send, and that timers of discoveries go on firing as
long as one can. The last is stated by its effect on `wait`, again with guards written out instead of
ENABLED. No fairness is assumed of faults and of the timers of the blacklist, counters and expiry.

## 4. The proofs

The first part of `IPv4_proofs` proves, for any set of hosts, any proxies, any `retryCount` and
any number of datagrams:

- `TypeCorrect`: `TypeOK` always holds; no timer count is negative, that is, no timer is
  cancelled that was not scheduled;
- `ArpSafe`, `StoppedIsQuiet`, `ResolvedRight`, `RetriesBounded`: `OneTimerPerResolution`,
  `QuietWhenDown`, `MacIsRight`, `RequestsBounded`;
- `NothingStranded`: `WaitingMeansPending`;
- `FifoPerNextHop`: `PerNextHopFifo`;
- `Refinement`: the specification implements `NextHopQueue`.

The assumptions are those of the constants (`ArpAssumption`, `OutputAssumption`):
hosts and remote addresses are different, group addresses are neither.

The invariants are not inductive alone. `MacIsRight` needs to know that packets
on the LAN tell the truth, in requests as well as in replies made by swapping the
fields of a request (`LanHonest`). `OneTimerPerResolution` needs
`QuietWhenDown`, since a stop removes both. `ArpInv` is their
conjunction, and one lemma for each ARP operation shows that it is kept. For the queue,
`IInv` adds `WaitingMeansPending` and the numbering of each flow: what was sent is
increasing, what waits is increasing and larger, and nothing is larger than the
number handed over. `FlowEnqueue`, `FlowSend`, `FlowRelease` and `FlowDrop` are the
four things that happen to a flow. `WaitingMeansPending` is also what makes the
direct path safe: an address that resolves is not pending, so nothing waits for it.
`StepSimulation` maps each step to a step of `NextHopQueue` or a stutter and uses
`MacIsRight` and `WaitingMeansPending` for `Send`.

`DHCP_proofs` proves, for any set of clients and any pool (`DHCPAssumption`: its size is a
natural number) `TypeCorrect`, `AddressesUnique`, `TableOneToOne`, `TimersRight`,
`BoundConfigured` and `AddressKept`: all the properties of the run, with no bound on the
messages in flight. The invariant is `DhcpInv`. `NoDuplicateAddress`
compares two clients that know nothing of each other, so the argument goes through the
server: an interface has the address of the client's lease (`UsesOwnLease`), a lease is
a row of the table (`LeasesKnown`), and the table is one to one. A lease comes
from an offer that may be arbitrarily late, so what is offered must still be in the table
(`OffersKnown`): it is, because the code never deletes a row. That, too, is why the property
stops at a restart of the server.

`Lifecycle_proofs` proves, for any number of nodes and any set of modules, several of which
may wait in any stage of a shutdown, `TypeCorrect`, `CallbacksRight`, `StatusRight`
and `ToldOnce`. `Underway` is the strengthening: a node between two states is being
shut down, waits for some modules of its stage, and runs exactly these and the modules of
later stages. `LayersRight` (`LayersConsistent`) has the hypothesis `Mirrored`: a module
acts in an earlier stage of a shutdown than the ones below it. It holds for the modules of a wired router;
`Radio` and `Ieee80211MgmtBase` do not satisfy it, see section 5.

`DistanceVector_proofs` proves `MetricsSound`: in any topology a protocol that
is a distance vector protocol never believes in nor announces a metric below the length of the
shortest path, for any `dist` that satisfies `DistanceAssumption`.

`Walks_proofs` has what the next two need for the loops of the code. The loops are
recursive functions along `0 .. n`; the theorem of the library on such definitions takes an
operator and cannot be used here, so induction is stated for a *set* of naturals, which follows
from the least element alone: `WalkDefined` says that a function with the recursion exists
(so the `CHOOSE` behind a recursive definition satisfies it), `WalkStays` that what is in a set at
the start and is kept by each step is in it at the end.

`RIP_proofs` proves, for every topology, costs, modes and static routes
(`RIPAssumption`: costs are in `1 .. Infinity - 1`) and with no bound on faults or on packets in
flight:

- `TypeCorrect`, and `RoutesInstalled` (`RouteInstalled`), `StoppedIsQuiet` (`QuietWhenStopped`);
- `RefinesDistanceVector` (`ImplementsDistanceVector`) and, with `MetricsSound`,
  `NoMetricTooShort`: no route of RIP and no announcement on its way is better than the shortest path.

The handlers walk over tables and over interfaces, so the argument has two levels. `Tables(r, S)`
is the set of tables of router `r` whose routes agree with the IPv4 routing table and have
metrics that the set `S` accounts for; a lemma for each operator (`invalidateRoutes`, `processResponse`,
`updateNetmaskRoutes`, `sendRoutes`, `sendOnAll`, ...) says that it leads from such tables to
such tables and that what is sent was in `S`. Then a lemma for each action says that one router
`Moves`: its new metrics have `Reasons` (its old beliefs, what it originates, what it has
heard), and it announces only what it believed. `RIPInv` and the simulation follow from `Moves`
alone. The refinement and `NoMetricTooShort` have the hypothesis `EvenCosts`: the costs of a router's interfaces
differ by at most 1, as in the default configuration, where all are 1. It is needed (section 5), and used for
one thing: an interface route leads to the network of its interface (`Own`). The runs check it as an
assumption. `NoMetricTooShort` instantiates `DistanceVector_proofs` with `ShortestPaths`, the result of
`Infinity` rounds of Bellman and Ford, and so also proves that these satisfy `DistanceAssumption`.

The second part of `IPv4_proofs` proves, for every payload, header and block length, every MTU that can carry a
fragment (`ReassemblyAssumption`), any number of sources, and any order, loss and
duplication on the last link, `BuffersExact` (`ReassemblyExact`) and `CompleteDelivery`
(`DeliveredComplete`). About the buffer alone: if all regions are pieces of one payload of which two are
equal or disjoint (`Pieces`), a merge keeps the main region a prefix of the payload that cuts no piece
(`Buffers`), adds exactly the bytes of the new region to what the buffer stands for (`Cover`), and
leaves no region that the main one reaches (`Settled`). About fragmentation alone: the fragments of a
datagram are such pieces, their blocks are multiples of `Block` and the last one ends with it; and so
are the fragments of those. `LinksInv` says that all that is on the two links is of this kind: a fragment the
router has forwarded is apart from all it has not. `BufferFine` relates a buffer to the bytes that
arrived. That the merge loop ends with a settled buffer is the induction over its rounds: each that
changes something removes a region.

`TCPPair_proofs` is about the two ends of a connection for every width of the sequence numbers, every
receive window below half of it, every window the flavour may have, every limit of the
retransmissions, and any applications, loss and reordering (`ConnectionAssumption`,
`PairAssumption`). `ComparisonsRight` is about `TCPSegment.h` alone: the five comparisons order two numbers
that are less than half of the range apart, wherever the range wraps. The others follow from one
inductive invariant, `IInv` (`PairInvariance`):

- `TypeCorrect` (`TypeOK`): a count of retransmissions above the limit never survives its handler, and
  what is in flight carries an item that may have been sent.
- `OnlyWhatWasSent`: everything delivered, waiting in a receive queue, in flight or waiting to be sent is
  an item the application at its source has sent.
- `ReceiveQueueInWindow`: in SYN_RCVD and ESTABLISHED what waits in the receive queue is behind a gap and
  inside the window, so that nothing that is next in sequence is held back; after our FIN it is
  still inside the window.
- `TimersExpected`: the first conjunct of `TimersMatchState`, and that REXMIT stops with the connection.
- `PeerClosedAfterEstablished`: the second half of `IndicationsWellFormed`.

A handler is an operator on records, so the proof follows the calls: each operator that only sends stays
in `Sender`, each that takes text in `Receiver`, and one lemma per command, timer and state of an
arriving segment shows that `Good`, the invariant of one end, holds after
`performStateTransition`. The strengthening that matters is `Window`. `insertBytesFromSegment` counts how many
items are in sequence, and such a number exists only if the queue does not fill the range of sequence numbers: everything
in it must stay inside the window. A FIN moves `rcv_nxt` by one, which keeps that only because the queue was
behind a gap; this is true in SYN_RCVD and ESTABLISHED, and in FIN_WAIT_1 and FIN_WAIT_2 a consumed
FIN leads to a state that takes no more text.

The rest (`TCPStream_proofs`, on lemmas at the end of `TCPPair_proofs`) is across the ends, with the hypothesis `OrderlySetup`: an inductive invariant `Paired`
(`PairedInvariance`) and from it

- `NoneFails` (`NoAssertionFails`), `TimerRunsForUnacknowledged` (`RexmitTimerExact`),
  `TimersOnlyWhereExpected` (`TimersMatchState`), `IndicationsRight` (`IndicationsWellFormed`),
- `SequenceInOrder` (`SequenceOrder`), `FinIsLast` (`FinAfterAllData`), `NoItemLost` (`NothingLost`),
  `ResetOnlyWithCause` (`ResetHasCause`),
- `StreamImplemented` (`ImplementsReliableStream`): the two connections and the network are a reliable stream in
  both directions.

`Paired` is needed because none of these is inductive for one end: an ACK of the SYN's own number in SYN_RCVD would
break `SequenceOrder`, a second FIN in CLOSING the 2MSL half of `TimersMatchState`, a SYN in TIME_WAIT
whose unset `ackNo` looks like an ACK the order of the indications. That no such segment is in flight is a
fact about everything the peer ever sent. The invariant counts in offsets, so that the wrap of sequence
numbers appears in one place (`Offsets`, from `ComparisonsRight`): offset 0 of a stream is the SYN,
offset i item i, the one after the last item the FIN. A `View` of an end has the items it has sent, those its
peer has sent, where the two streams begin, and how far the peer has sent and received.

- `Flow` puts the variables of a connection in a view: `snd_una`, `snd_nxt`, `snd_max` and the send queue in
  order, `toApp` the items before `rcv_nxt`, the receive queue pieces of what the peer has sent,
  and `snd_una` at most where the peer has received and `snd_max` at least. `Piece` says the same of a segment: its text lies
  below what its sender has reached, its `ackNo` at most where its sender has received. A FIN in flight
  has the offset after the last item. Both survive whatever the peer does later, because sent and received only
  grow (`PeerGrows`).
- One lemma per operator of `TCPConnection` follows the calls once more, now for `Flow` and `TimerExact`; `Control` ties the
  states to the two FINs, `EndOk` is what is left between two events in any state.
- `SetupOk` is the handshake: which of the two SYNs may still be in flight in which pair of states, and that a
  connection that is established knows the initial number of its peer. It is where `OrderlySetup` is used.
- A reset is in flight only from an end that has no connection any more (`InFlight`), which is `ResetHasCause`.

`StepPaired` has one lemma per event of the client and of the server. Each also says that the end it concerns advances:
offsets received never go back. That is the refinement: with `Recalls` (indications are appended to, never
taken back) a step delivers the items between the old and the new `rcv_nxt`, and the end of the stream
when the offset passes the FIN (`Delivering`, `EventDelivers`); SEND and CLOSE are steps of their own, silent at the other end.

### Only model-checked

- Liveness (`EventuallyClosed` and the other temporal properties under fairness): beyond the prover.
- Of TCP, what `OrderlySetup` leaves out: `tcp_setup` checks `NoAssertionFails` and `ResetHasCause` with setup
  timers that expire while segments are in flight. `ResetHasCause` is not true of every instance of that (section 5: it depends on
  where the initial sequence numbers are); the run shows it for its initial numbers, one lost segment and one
  repeated SYN.
- Everything about AODV. `LoopFree` and `NumbersNotAhead` hold in the instance of `MCAODV`; the first is not
  true in general: `aodv_loop` refutes it with other traffic.

## 5. Where code and claims differ

Two of these are runs that TLC ends with a counterexample.

1. *Fragments of fragments lose the length of the packet* (`ipv4_payload_length`,
   `DeliveredLength`). A second `fragmentAndSend` overwrites `totalPayloadLength` with the
   length of the fragment; the receiver cuts the packet to it.
   `tests/module/IPv4_refragmentation.test` expects the full 5000 bytes.
2. *AODV routes can form a loop* (`aodv_loop`, `LoopFree`). A sends to C along A-B-C. While
   the reply of B is on its way to A, C moves next to A and looks for B itself; A learns a newer route to
   C from C's request, and B learns from A's copy of it that C is behind A. Then the old reply arrives at A.
   `handleRREP` compares sequence numbers and leaves the route alone, but as A still
   waits for a reply it updates the route once more without comparison
   (`AODVRouting.cc:683`). A now routes to C through B, and B through A.

The others were met while modelling and are visible in the code; the models contain the
behaviour, or leave out the configuration in which it happens as section 2 says.

**TCP.**
- A simultaneous open fails: the peer's SYN+ACK passes the acceptance test in SYN_RCVD, and its
  SYN bit resets the connection (`TCPConnectionRcvSegment.cc:284`). `TCP.ned:128` and the
  switched-off `tests/module/tcp_syn_2.test.off` describe the expected path.
- A deferred CLOSE forgets the peer's FIN: one segment that acknowledges the last data and
  carries a FIN yields two events, and the second overwrites the first
  (`TCPConnectionRcvSegment.cc:755`); the end waits in FIN_WAIT_2 for a FIN it has consumed.
- A SYN that was repeated and comes late can reset the connection that the first one opened. The acceptance test lets a
  segment without text in when its `ackNo` acknowledges something (`TCPConnectionUtil.cc:453`), and does not ask
  whether the ACK bit is set. A SYN's `ackNo` is 0: when `snd_una` is before the wrap and `snd_nxt` after
  it, the SYN is taken to be in the window. The client's connection is then alone (`ResetHasCause` is
  violated: TLC shows it in seven states of the `tcp_setup` instance once the server's SYN has the sequence
  number `SeqMod - 1`). It takes a SYN-REXMIT timer that fires before the SYN+ACK arrives; this was met when
  `Paired` was to be proved without patient setup timers.
- TIME_WAIT need not end: every acceptable segment is answered and restarts the timer
  (`:435`), so after a simultaneous close two ends can go on acknowledging each other.
- CLOSE in SYN_RCVD followed by a loss trips an assertion: the FIN is sent while the SYN is not
  acknowledged (`TCPConnectionEventProc.cc:192`), and REXMIT then reads the send queue before its
  beginning (`TCPVirtualDataSendQueue.cc:68`).
- `finWait2Timer` is created, cancelled and dispatched but never scheduled
  (`TCPConnectionBase.cc:317`). `established()` sends queued data only at the active end
  (`TCPBaseAlg.cc:196`). A persist probe can carry the deferred FIN in CLOSE_WAIT, and no event then
  leads to LAST_ACK (`TCPConnectionUtil.cc:795`). The search for an ephemeral port stops the
  simulation when all are in use (`TCP.cc:356`).

**Lifecycle.**
- `Radio` and `Ieee80211MgmtBase` compare the stage of a shutdown with a stage number of the
  start operation (`Radio.cc:237`, `Ieee80211MgmtBase.cc:254`), so the radio is off before
  RIP sends its last updates, for which it delays the operation (`RIPRouting.cc:428`).
  `NodeOperations.h:62` says that stages are organized top-down. With `handler <- WirelessRouter`
  TLC violates `LayersConsistent`.
- `LifecycleController.cc:145` reads a callback that `vector_delete_element` has deleted. A
  crash while a shutdown waits for a module is an error of `NodeStatus`, though
  `LifecycleController.h:56` says that operations can be nested.

**DHCP.**
- T2 cancels the timer of the lease, so `LEASE_TIMEOUT` (`DHCPClient.cc:284`) is never
  reached: a client in REBINDING keeps its address past the end of its lease until some server answers.
- A server that restarts has an empty table and gives out addresses that are in use; nobody
  probes an address before it uses it.
- Requests after a reboot and for a renewal are answered by looking up the requested
  address, whoever's lease it is (`DHCPServer.cc:262`).

**RIP.**
- A route that is purged is erased from the vector that `sendRoutes` is walking
  (`RIPRouting.cc:667`, `:1064`): the next route is skipped, or the iterator passes the end.
- `checkRouteIsExpired` returns NULL for a route that has just expired or is invalid, so
  it is not announced, against the comment at `:1027` ("so the neighbors are notified about the
  broken route in the next update").
- An interface that goes down deletes its route and does not get it back when it comes up
  again.
- An INTERFACE route that a better offer of a neighbour overwrites keeps its type (the assertion on the
  type, `:940`, is commented out). When the routing table then adds the route of that interface again,
  `:358` finds the route by type and interface and gives it the metric of the interface, whatever its
  destination is now. With uneven costs RIP thus claims paths that do not exist: two routers
  on two networks, costs 3 and 1 at one of them and 1 and 1 at the other, are enough, in ten steps. This was
  met when `ImplementsDistanceVector` was to be proved without `EvenCosts`.
- RIPng drops every response (`:831`, `if (!false)`). The farewell also goes out on interfaces that
  do not speak RIP. `handleMessage` deletes a packet that arrives when the module is down and goes
  on using it (`:513`).

**AODV.**
- `RREQIdentifierCompare` compares only `rreqID`, not the originator (`AODVRouting.h:61`), though `:45` says that an
  identifier is "unique ... in the network". Two nodes that look for routes at the same
  time drop each other's requests. Both count from 1 and wait equally long, so ids of retries are
  equal again: when A and C send at the same moment, no datagram is delivered without
  a single fault. TLC shows that when `DataDelivered` is stated without its exception `mistaken`, with `MaxFaults = 0`.
- The assertion of `forwardRREP` (`AODVRouting.cc:669`) that the next hop towards the destination is known can
  fail. A route to a neighbour (3 s) may expire and be deleted before a route through it (6 s), which
  stays, inactive, with a number. A destination that has restarted with number 0 answers by another
  way; the reply does not update that route, whose next hop is gone. TLC shows it with five nodes and
  losses, expiries, a move and a restart; not with the three nodes of `aodv`. `handleRREPACK` is in the model and
  reached by no run: no acknowledgement is ever sent (next item).
- An acknowledgement is asked for only when the next hop of a reply is the
  originator, who does not send one: each one-hop reply ends with the neighbour on the blacklist.
  `clearState` cancels the timer of the blacklist but does not clear it.
- At the retry limit the entry of the discovery stays, and `cancelRouteDiscovery` is
  called by nobody: later datagrams to that destination wait for ever. The same happens
  when the rate limit suppresses a request. `clearState` forgets datagrams that wait.
- `startRouteDiscovery` ignores its `timeToLive`; `expungeRoutes` skips the route after one
  it deletes; the route to the previous hop gets the sequence number of the
  originator; `handleMessage` goes on with a deleted message as in RIP.

**IPv4, ARP.** With `globalARP` two interfaces that are given the same address fail an
assertion (`ARP.cc:652`). The key of a reassembly buffer has 16 bits of an identification whose
counter has more (`IPv4FragBuf.cc:54`). A datagram queued by a netfilter hook outlives the
interface it was queued with (`IPv4.cc:1046`).

## 6. Plan

Done: ARP with IPv4 output, DHCP, the lifecycle, RIP with its refinement, fragmentation and
reassembly, TCP between two ends with its refinement (all checked and proved), AODV (checked).

Next, in this order:

1. **Proofs about AODV.** Destination sequence numbers of a node never decrease in its own
   routes except where the code overwrites them; `NumbersNotAhead`.
2. **Larger instances.** RIP with three routers in a ring, AODV with four or five nodes (the assertion
  of section 5) and hello messages.
3. **More protocols.** DYMO (which shares the structure of AODV), STP and RSTP roles on a small
   ring, the neighbour machine of OSPF, IGMP report suppression, 802.11 association.
4. **TCP again.** PERSIST and zero windows, forking, many connections and ephemeral ports,
   SACK; **ARP** with the global cache.

### Not modelled

- Mobility, radio propagation, energy and world models are numerical code over continuous
  quantities, without a state machine whose interleavings could go wrong. The MAC layers
  (802.11, 802.15.4, CSMA/CD) depend on continuous time: which of two events comes first is
  decided by sums of real delays, and a model with arbitrary order would show behaviour
  the code excludes.
- lwIP, NSC, aodv-uu, dsr-uu, dymoum and the OLSR variants are other projects' code with
  glue; traffic generators have no protocol state.
- SCTP, OSPF, BGP, LDP, RSVP-TE, IPv6 neighbour discovery, mobile IPv6, PASER and BATMAN could be
  modelled the same way. Each is of the size of what is here; the plan takes
  the ones that are closest to a MANET node first.
