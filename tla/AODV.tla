-------------------------------- MODULE AODV --------------------------------
(***************************************************************************)
(* The AODV routers of an ad hoc network: AODVRouting.cc, with what IPv4   *)
(* does with the datagrams it shows to the hooks of AODV.  A node looks    *)
(* for a route when it has a datagram for a destination: it broadcasts     *)
(* requests (RREQ) and keeps the datagram until a reply (RREP) comes.      *)
(*                                                                         *)
(* A node is a record, and every handler is an operator from a record to   *)
(* the record it leaves behind; what it sends is in the field out.  IPv4   *)
(* treats what AODV sends like any datagram: a reply is routed, and waits  *)
(* for a route if there is none.  There are no routes but those of AODV.   *)
(***************************************************************************)
EXTENDS Integers, FiniteSets, TLC

CONSTANTS
    Node,
    Links,          \* pairs of nodes that may hear each other
    InitialLinks,   \* those that do at first
    Traffic,        \* triples <<source, destination, id>>: the datagrams of applications
    rreqRetries, ttlStart, ttlIncrement, ttlThreshold, netDiameter, rreqRatelimit,
    rerrRatelimit, askGratuitousRREP,
    MaxRreq,        \* bound: requests of a node
    MaxInFlight,    \* bound: packets in flight when a timer fires (of its discovery, or any)
    MaxFaults       \* bound: broadcasts a neighbour misses, expiries, moves and stops

VARIABLES
    node,       \* node -> the state of its AODVRouting and its routes
    net,        \* packets in flight
    links,      \* pairs of nodes that hear each other now
    todo,       \* datagrams that applications have not sent yet
    delivered,  \* history: datagrams that have arrived
    losses, faults

vars == <<node, net, links, todo, delivered, losses, faults>>

All  == "255.255.255.255"
Data(i) == [type |-> "DATA", id |-> i]

\* A packet: from its IP source to its IP destination, now on the way from one
\* node to a neighbour, or (from = at) still on its way to the IPv4 module of its node.
Packet(src, dst, from, at, body) ==
    [src |-> src, dst |-> dst, from |-> from, at |-> at, body |-> body]

Larger(a, b) == IF a > b THEN a ELSE b

\* The state after initialize and clearState; the blacklist is not cleared.  History: mistaken
\* has the originators of requests that were taken for those of another node, and restarted
\* tells whether the node has ever stopped.
Cleared(n, black) ==
    [addr |-> n, up |-> TRUE, rebooting |-> FALSE, sequenceNum |-> 0, rreqId |-> 0,
     rreqCount |-> 0, rerrCount |-> 0, routes |-> <<>>, wait |-> <<>>, delayed |-> {}, seen |-> {},
     blacklist |-> black, blacklistTimer |-> FALSE, rrepAckTimer |-> FALSE,
     failedNextHop |-> n, mistaken |-> {}, restarted |-> FALSE, out |-> {},
     assertion |-> TRUE]

Init ==
    /\ node = [n \in Node |-> Cleared(n, {})]
    /\ net = {}
    /\ links = InitialLinks
    /\ todo = Traffic
    /\ delivered = {}
    /\ losses = 0 /\ faults = 0

---------------------------------------------------------------------------
(* Routes *)

Known(s, d) == d \in DOMAIN s.routes

Active(s, d) == Known(s, d) /\ s.routes[d].active

\* createRoute and updateRoutingTable: the route becomes active; a new one has no
\* precursors.  Of the precursors only whether there are any is used.
updateRoutingTable(s, d, next, hops, valid, seq) ==
    [s EXCEPT !.routes =
        d :> [next |-> next, metric |-> hops, valid |-> valid, seq |-> seq, active |-> TRUE,
              precursors |-> Known(s, d) /\ s.routes[d].precursors] @@ @]

addPrecursor(s, d) == [s EXCEPT !.routes[d].precursors = TRUE]

hasOngoingRouteDiscovery(s, d) == d \in DOMAIN s.wait

---------------------------------------------------------------------------
(* Sending *)

\* A broadcast to the neighbours; ttl is what is left of it on arrival.
Broadcast(s, body) == [s EXCEPT !.out = @ \union {Packet(s.addr, All, s.addr, All, body)}]

\* IPv4 sends a unicast packet along the route, active or not.
Transmit(s, p) ==
    [s EXCEPT !.out = @ \union {[p EXCEPT !.from = s.addr, !.at = s.routes[p.dst].next]}]

\* createRREQ, for target t.
createRREQ(s, t) ==
    LET sure == Known(s, t) /\ s.routes[t].valid
    IN  [type |-> "RREQ", orig |-> s.addr, origSeq |-> s.sequenceNum + 1, dest |-> t,
         destSeq |-> IF sure THEN s.routes[t].seq ELSE 0, unknown |-> ~sure,
         id |-> s.rreqId + 1, hops |-> 0, ttl |-> 0]

\* The time to live of the next request of a discovery: an expanding ring.
NextTTL(s, t) ==
    IF ~hasOngoingRouteDiscovery(s, t) THEN ttlStart
    ELSE IF s.wait[t].lastTTL + ttlIncrement < ttlThreshold THEN s.wait[t].lastTTL + ttlIncrement
    ELSE netDiameter

\* createRREQ and sendRREQ.  When the limit of requests in a second is reached nothing is
\* sent and no timer is set.  The time to live that startRouteDiscovery asks for after a
\* route was lost is overwritten with ttlStart.
sendRREQ(s, t, retries) ==
    LET rreq == createRREQ(s, t)
        ttl  == NextTTL(s, t)
        made == [s EXCEPT !.sequenceNum = @ + 1, !.rreqId = @ + 1, !.seen = @ \union {<<s.addr, rreq.id>>}]
    IN  IF s.rreqCount >= rreqRatelimit THEN made
        ELSE Broadcast([made EXCEPT !.rreqCount = @ + 1,
                            !.wait = t :> [lastTTL |-> ttl, retries |-> retries, timer |-> TRUE] @@ @],
                       [rreq EXCEPT !.ttl = ttl - 1])

\* ensureRouteForDatagram, in the hooks for datagrams that are sent and that arrive: a
\* datagram of this node without an active route waits for a discovery.
ensureRouteForDatagram(s, p) ==
    IF Active(s, p.dst) \/ p.src # s.addr THEN Transmit(s, p)
    ELSE LET kept == [s EXCEPT !.delayed = @ \union {p}]
         IN  IF hasOngoingRouteDiscovery(s, p.dst) THEN kept ELSE sendRREQ(kept, p.dst, 0)

Own(s, dst, body) == Packet(s.addr, dst, s.addr, s.addr, body)

Unicast(s, dst, body) == ensureRouteForDatagram(s, Own(s, dst, body))

\* A packet that is sent with jitter comes to IPv4, and to the hook, later.
UnicastWithJitter(s, dst, body) == [s EXCEPT !.out = @ \union {Own(s, dst, body)}]

\* sendRREP to the originator of a request: a neighbour is asked for an acknowledgement.
sendRREP(s, rrep) ==
    LET r == s.routes[rrep.orig]
        t == addPrecursor(s, rrep.orig)
    IN  IF r.metric = 1
        THEN Unicast([t EXCEPT !.failedNextHop = r.next, !.rrepAckTimer = TRUE], r.next,
                     [rrep EXCEPT !.ack = TRUE])
        ELSE Unicast(t, r.next, rrep)

RREP(orig, origSeq, dest, destSeq, hops) ==
    [type |-> "RREP", orig |-> orig, origSeq |-> origSeq, dest |-> dest, destSeq |-> destSeq,
     hops |-> hops, ack |-> FALSE]

\* An error to the neighbours, unless RERR_RATELIMIT of them were sent this second.
sendRERR(s, unreachable) ==
    IF s.rerrCount >= rerrRatelimit THEN s
    ELSE Broadcast([s EXCEPT !.rerrCount = @ + 1], [type |-> "RERR", unreachable |-> unreachable])

---------------------------------------------------------------------------
(* Packets *)

\* Whether the reverse route to the originator of request q is (re)written.
ReverseRouteUpdated(s, q) ==
    \/ ~Known(s, q.orig)
    \/ q.origSeq > s.routes[q.orig].seq
    \/ q.origSeq = s.routes[q.orig].seq /\ q.hops + 1 < s.routes[q.orig].metric
    \/ q.unknown

\* The destination answers; its sequence number may catch up with the request.
AnswerAsDestination(s, q) ==
    LET t == IF ~q.unknown /\ s.sequenceNum + 1 = q.destSeq
             THEN [s EXCEPT !.sequenceNum = @ + 1] ELSE s
    IN  sendRREP(t, RREP(q.orig, q.origSeq, q.dest, t.sequenceNum, 0))

\* A node with a fresh enough route answers for the destination.
AnswerAsIntermediate(s, q) ==
    LET r == s.routes[q.dest]
        t == sendRREP(addPrecursor(addPrecursor(s, q.dest), q.orig),
                      RREP(q.orig, q.origSeq, q.dest, r.seq, r.metric))
    IN  IF askGratuitousRREP
        THEN Unicast(t, r.next, RREP(q.dest, 0, q.orig, q.origSeq, t.routes[q.orig].metric))
        ELSE t

forwardRREQ(s, q) ==
    Broadcast(s, [q EXCEPT !.hops = @ + 1, !.ttl = @ - 1, !.unknown = FALSE,
                           !.destSeq = IF Known(s, q.dest) THEN Larger(s.routes[q.dest].seq, @) ELSE @])

\* The request is new to the node, as far as its id tells.
ProcessRREQ(s, q, src) ==
    LET t == IF ReverseRouteUpdated(s, q)
             THEN updateRoutingTable(s, q.orig, src, q.hops + 1, TRUE,
                      IF Known(s, q.orig) THEN Larger(s.routes[q.orig].seq, q.origSeq) ELSE q.origSeq)
             ELSE s
    IN  IF q.dest = s.addr THEN AnswerAsDestination(t, q)
        ELSE IF Active(t, q.dest) /\ t.routes[q.dest].valid /\ t.routes[q.dest].seq >= q.destSeq
             THEN IF t.routes[q.dest].next = src THEN t ELSE AnswerAsIntermediate(t, q)
        ELSE IF q.ttl > 0 /\ ~s.rebooting THEN forwardRREQ(t, q)
        ELSE t

\* Mutant of handleRREQ: requests that were seen before are processed again.
handleRREQTwice(s, q, src) ==
    IF src \in s.blacklist THEN s
    ELSE ProcessRREQ(updateRoutingTable(s, src, src, 1, FALSE, q.origSeq), q, src)

\* Mutant of handleRREQ: the number of the originator counts as that of the previous hop.
handleRREQNeighbourValid(s, q, src) ==
    IF src \in s.blacklist THEN s
    ELSE LET t == updateRoutingTable(s, src, src, 1, TRUE, q.origSeq)
         IN  IF \E i \in t.seen : i[2] = q.id THEN t
             ELSE ProcessRREQ([t EXCEPT !.seen = @ \union {<<q.orig, q.id>>}], q, src)

\* RREQIdentifierCompare orders requests by their id alone: a request of another
\* originator with the same id counts as a duplicate.
handleRREQ(s, q, src) ==
    IF src \in s.blacklist THEN s
    ELSE LET t == updateRoutingTable(s, src, src, 1, FALSE, q.origSeq)
             me == <<q.orig, q.id>>
         IN  IF \E i \in t.seen : i[2] = q.id
             THEN IF me \in t.seen THEN t ELSE [t EXCEPT !.mistaken = @ \union {q.orig}]
             ELSE ProcessRREQ([t EXCEPT !.seen = @ \union {me}], q, src)

\* Whether the forward route to the destination of reply q is (re)written.
ForwardRouteUpdated(s, q) ==
    \/ ~Known(s, q.dest)
    \/ ~s.routes[q.dest].valid
    \/ q.destSeq > s.routes[q.dest].seq
    \/ /\ q.destSeq = s.routes[q.dest].seq
       /\ ~s.routes[q.dest].active \/ q.hops + 1 < s.routes[q.dest].metric

\* The reply goes on to the originator.  An assertion demands a route to the next hop
\* towards the destination.
forwardRREP(s, q, src) ==
    LET t == IF q.ack THEN Unicast(s, src, [type |-> "RREPACK"]) ELSE s
        u == addPrecursor(t, q.dest)
        g == u.routes[q.dest].next
    IN  IF ~Known(u, g) THEN [u EXCEPT !.assertion = FALSE]
        ELSE UnicastWithJitter(addPrecursor(u, g), u.routes[q.orig].next,
                               [q EXCEPT !.hops = @ + 1, !.ack = FALSE])

\* completeRouteDiscovery: the datagrams that waited are reinjected behind the hook.
completeRouteDiscovery(s, t) ==
    LET kept == {p \in s.delayed : p.dst # t}
    IN  [s EXCEPT !.out = @ \union {[p EXCEPT !.from = s.addr, !.at = s.routes[t].next] : p \in s.delayed \ kept},
                  !.delayed = kept,
                  !.wait = [d \in DOMAIN @ \ {t} |-> @[d]]]

\* A reply to a request of this node is taken whatever its sequence number.
handleRREP(s, q, src) ==
    LET t == updateRoutingTable(s, src, src, 1, FALSE, q.origSeq)
        forward(x) == updateRoutingTable(x, q.dest, src, q.hops + 1, TRUE, q.destSeq)
        u == IF ForwardRouteUpdated(t, q) THEN forward(t) ELSE t
    IN  IF s.addr # q.orig
        THEN IF Known(u, q.orig) /\ ~s.rebooting THEN forwardRREP(u, q, src) ELSE u
        ELSE IF hasOngoingRouteDiscovery(u, q.dest)
             THEN completeRouteDiscovery(forward(u), q.dest)
        ELSE u

handleRREPACK(s, src) ==
    IF ~s.rrepAckTimer THEN [s EXCEPT !.assertion = FALSE]
    ELSE IF Known(s, src) THEN [s EXCEPT !.routes[src].active = TRUE, !.rrepAckTimer = FALSE]
    ELSE s

\* Routes through the sender of the error to what it cannot reach are inactive, with the
\* sequence number of the error.  The error goes on for those with precursors.
handleRERR(s, q, src) ==
    LET broken == {d \in DOMAIN s.routes : s.routes[d].next = src /\ d \in DOMAIN q.unreachable}
        t == [s EXCEPT !.routes =
                [d \in DOMAIN @ |-> IF d \in broken
                                    THEN [@[d] EXCEPT !.seq = q.unreachable[d], !.active = FALSE]
                                    ELSE @[d]]]
        tell == {d \in broken : s.routes[d].precursors}
    IN  IF tell # {} /\ ~s.rebooting
        THEN sendRERR(t, [d \in tell |-> q.unreachable[d]]) ELSE t

\* IPv4 has no route for a packet of another node: ICMP tells the source, but does not
\* answer an error with an error.  The ICMP message may need a discovery itself.
Unroutable(s, p) ==
    IF p.body.type = "ICMP" THEN s ELSE Unicast(s, p.src, [type |-> "ICMP"])

\* A packet of another node passes through.  datagramForwardHook complains of a route
\* that is not active, and the packet is sent along it all the same.
ForwardPacket(s, p) ==
    LET d == p.dst
        stale == Known(s, d) /\ ~s.routes[d].active
        seq == IF s.routes[d].valid THEN s.routes[d].seq + 1 ELSE 0
        t == IF s.routes[d].valid THEN [s EXCEPT !.routes[d].seq = @ + 1] ELSE s
    IN  IF p.src = s.addr /\ ~Active(s, d) THEN ensureRouteForDatagram(s, p)
        ELSE IF ~Known(s, d) THEN Unroutable(s, p)
        ELSE IF stale THEN Transmit(sendRERR(t, d :> seq), p)
        ELSE Transmit(s, p)

handlePacket(s, p) ==
    CASE p.dst \notin {s.addr, All} -> ForwardPacket(s, p)
      [] OTHER ->
        CASE p.body.type = "RREQ"    -> handleRREQ(s, p.body, p.src)
          [] p.body.type = "RREP"    -> handleRREP(s, p.body, p.src)
          [] p.body.type = "RERR"    -> handleRERR(s, p.body, p.src)
          [] p.body.type = "RREPACK" -> handleRREPACK(s, p.src)
          [] p.body.type \in {"DATA", "ICMP"} -> s

\* handleLinkBreakSendRERR for the next hop of the packet that could not be sent.
handleLinkBreak(s, p) ==
    IF ~Known(s, p.dst) \/ ~Known(s, s.routes[p.dst].next) THEN s
    ELSE LET g == s.routes[p.dst].next
             broken == {d \in DOMAIN s.routes : s.routes[d].next = g}
             t == [s EXCEPT !.routes =
                     [d \in DOMAIN @ |-> IF d \in broken
                         THEN [@[d] EXCEPT !.active = FALSE, !.seq = IF s.routes[d].valid THEN @ + 1 ELSE @]
                         ELSE @[d]]]
         IN  sendRERR(t, [d \in broken \union {g} |-> t.routes[d].seq])

---------------------------------------------------------------------------
(* Actions *)

Neighbours(n) == {m \in Node : {n, m} \in links}

\* The packets in out as they leave node n: a broadcast reaches every neighbour.
Sent(n, out) ==
    UNION {IF p.dst = All THEN {[p EXCEPT !.at = m] : m \in Neighbours(n)} ELSE {p} : p \in out}

\* The result of a handler is the new state of node n; rest is what is left of the network.
Becomes(n, result, rest) ==
    \E s \in {result} :
        /\ s.rreqId <= MaxRreq
        /\ node' = [node EXCEPT ![n] = [s EXCEPT !.out = {}]]
        /\ net' = rest \union Sent(n, s.out)

\* Bound: the timers of counters, acknowledgements and the blacklist fire only then.
Calm == Cardinality(net) <= MaxInFlight

Fault == losses + faults < MaxFaults /\ faults' = faults + 1

\* An application hands a datagram to IPv4.
SendData(t) ==
    /\ t \in todo /\ node[t[1]].up
    /\ todo' = todo \ {t}
    /\ Becomes(t[1], Unicast(node[t[1]], t[2], Data(t[3])), net)
    /\ UNCHANGED <<links, delivered, losses, faults>>

Jittered(p) == p.from = p.at

\* A frame can be received: sender and receiver hear each other, and the receiver is up.
Receivable(p) == {p.from, p.at} \in links /\ node[p.at].up

\* The jitter is over: the packet comes to IPv4, which drops it if the node is down.
JitterEnds(p) ==
    /\ p \in net /\ Jittered(p)
    /\ IF node[p.at].up THEN Becomes(p.at, ensureRouteForDatagram(node[p.at], p), net \ {p})
       ELSE net' = net \ {p} /\ UNCHANGED node
    /\ UNCHANGED <<links, todo, delivered, losses, faults>>

Receive(p) ==
    /\ p \in net /\ Receivable(p)
    /\ Becomes(p.at, handlePacket(node[p.at], p), net \ {p})
    /\ delivered' = IF p.body.type = "DATA" /\ p.dst = p.at
                    THEN delivered \union {<<p.src, p.dst, p.body.id>>} ELSE delivered
    /\ UNCHANGED <<links, todo, losses, faults>>

\* The MAC gives up on a unicast frame: NF_LINK_BREAK.
LinkBreak(p) ==
    /\ p \in net /\ ~Jittered(p) /\ p.dst # All /\ ~Receivable(p) /\ node[p.from].up
    /\ Becomes(p.from, handleLinkBreak(node[p.from], p), net \ {p})
    /\ UNCHANGED <<links, todo, delivered, losses, faults>>

\* A broadcast that is not received, or a frame of a node that has gone, is lost.
Vanish(p) ==
    /\ p \in net /\ ~Jittered(p) /\ ~Receivable(p) /\ (p.dst = All \/ ~node[p.from].up)
    /\ net' = net \ {p}
    /\ UNCHANGED <<node, links, todo, delivered, losses, faults>>

Lose(p) ==
    /\ losses + faults < MaxFaults /\ losses' = losses + 1
    /\ p \in net /\ Receivable(p) /\ p.dst = All
    /\ net' = net \ {p}
    /\ UNCHANGED <<node, links, todo, delivered, faults>>

\* With the maximal time to live reached, the next request counts as a retry.
NextRetries(w) == IF w.lastTTL = netDiameter THEN w.retries + 1 ELSE w.retries

Retry(s, t, retries) ==
    sendRREQ([s EXCEPT !.wait[t].timer = FALSE, !.wait[t].retries = retries], t, retries)

\* Mutant of handleWaitForRREP: at the limit the retries start over.
handleWaitForRREPRearmed(s, t) ==
    LET w == s.wait[t]
    IN  IF w.retries = rreqRetries THEN [s EXCEPT !.wait[t].retries = 0]
        ELSE Retry(s, t, NextRetries(w))

\* Mutant of handleWaitForRREP: one retry too few.
handleWaitForRREPOffByOne(s, t) ==
    LET w == s.wait[t]
    IN  IF w.retries + 1 = rreqRetries THEN [s EXCEPT !.wait[t].timer = FALSE]
        ELSE Retry(s, t, NextRetries(w))

\* No reply in time: another request, at most rreqRetries times with the maximal time to
\* live.  At the limit the entry stays, without a timer: later datagrams to the
\* destination wait for a discovery that has ended.
handleWaitForRREP(s, t) ==
    LET w == s.wait[t]
    IN  IF w.retries = rreqRetries THEN [s EXCEPT !.wait[t].timer = FALSE]
        ELSE Retry(s, t, NextRetries(w))

\* The requests and replies of the discovery of n for t that are on their way.
Underway(n, t) ==
    {p \in net : p.body.type \in {"RREQ", "RREP"} /\ p.body.orig = n /\ p.body.dest = t}

\* The time to wait, RING_TRAVERSAL_TIME, is long enough for the packets of this discovery
\* (all but MaxInFlight of them); what other nodes do does not matter.
TimerCanFire(n, t) ==
    /\ hasOngoingRouteDiscovery(node[n], t) /\ node[n].wait[t].timer
    /\ Cardinality(Underway(n, t)) <= MaxInFlight
    /\ node[n].rreqId < MaxRreq \/ node[n].wait[t].retries = rreqRetries

WaitTimeout(n, t) ==
    /\ TimerCanFire(n, t)
    /\ Becomes(n, handleWaitForRREP(node[n], t), net)
    /\ UNCHANGED <<links, todo, delivered, losses, faults>>

Update(n, s) == node' = [node EXCEPT ![n] = s] /\ UNCHANGED <<net, links, todo, delivered, losses>>

CounterTimeout(n) ==
    /\ Calm /\ node[n].up /\ node[n].rreqCount + node[n].rerrCount > 0
    /\ Update(n, [node[n] EXCEPT !.rreqCount = 0, !.rerrCount = 0])
    /\ UNCHANGED faults

\* handleRREPACKTimer: the neighbour is blacklisted.
RrepAckTimeout(n) ==
    /\ Calm /\ node[n].rrepAckTimer
    /\ Update(n, [node[n] EXCEPT !.rrepAckTimer = FALSE, !.blacklistTimer = TRUE,
                                 !.blacklist = @ \union {node[n].failedNextHop}])
    /\ UNCHANGED faults

\* handleBlackListTimer: those whose time is over are removed.
BlacklistTimeout(n) ==
    /\ Calm /\ node[n].blacklistTimer
    /\ \E keep \in SUBSET node[n].blacklist :
        Update(n, [node[n] EXCEPT !.blacklist = keep, !.blacklistTimer = keep # {}])
    /\ UNCHANGED faults

\* expungeRoutes: a route whose lifetime is over becomes inactive, an inactive one that
\* is not being looked for is deleted.
RouteExpires(n, d) ==
    /\ Fault /\ Known(node[n], d)
    /\ node[n].routes[d].active \/ ~hasOngoingRouteDiscovery(node[n], d)
    /\ Update(n, IF node[n].routes[d].active THEN [node[n] EXCEPT !.routes[d].active = FALSE]
                 ELSE [node[n] EXCEPT !.routes = [e \in DOMAIN @ \ {d} |-> @[e]]])

\* PATH_DISCOVERY_TIME after a request its id may be used again.
RreqForgotten(n, i) ==
    /\ Fault /\ \E k \in node[n].seen : k[2] = i
    /\ \A p \in net : p.body.type = "RREQ" => p.body.id # i
    /\ Update(n, [node[n] EXCEPT !.seen = {k \in @ : k[2] # i}])

\* Shutdown and crash: clearState, and the routing table is emptied.  The datagrams that
\* wait are forgotten.
NodeStop(n) ==
    /\ Fault /\ node[n].up
    /\ Update(n, [Cleared(n, node[n].blacklist) EXCEPT !.up = FALSE, !.restarted = TRUE])

NodeStart(n) ==
    /\ ~node[n].up
    /\ Update(n, [node[n] EXCEPT !.up = TRUE, !.rebooting = TRUE])
    /\ UNCHANGED faults

\* DELETE_PERIOD after the start the node takes part in routing again.
RebootEnds(n) ==
    /\ node[n].rebooting /\ node[n].up
    /\ Update(n, [node[n] EXCEPT !.rebooting = FALSE])
    /\ UNCHANGED faults

\* A node moves: other nodes hear it.
Move(n) ==
    /\ Fault
    /\ \E near \in SUBSET {l \in Links : n \in l} :
        links' = {l \in links : n \notin l} \union near
    /\ links' # links
    /\ UNCHANGED <<node, net, todo, delivered, losses>>

Step ==
    \/ \E t \in todo : SendData(t)
    \/ \E p \in net : Receive(p)
    \/ \E p \in net : JitterEnds(p)
    \/ \E p \in net : LinkBreak(p)
    \/ \E p \in net : Vanish(p)
    \/ \E p \in net : Lose(p)
    \/ \E n \in Node :
        \/ \E t \in Node : WaitTimeout(n, t) \/ RouteExpires(n, t)
        \/ \E i \in 1 .. MaxRreq : RreqForgotten(n, i)
        \/ CounterTimeout(n) \/ RrepAckTimeout(n) \/ BlacklistTimeout(n)
        \/ NodeStop(n) \/ NodeStart(n) \/ RebootEnds(n) \/ Move(n)

\* An assertion that fails stops the simulation.
Next == (\A n \in Node : node[n].assertion) /\ Step

Spec == Init /\ [][Next]_vars

\* Packets go on leaving the network, received, lost or reported as broken links, as long
\* as there are any; a source that stays up sends what it has to send; timers of discoveries
\* go on firing as long as one can.  Nothing is assumed of faults and of the other timers.
FairSpec ==
    /\ Spec
    /\ []<>(net = {}) \/ []<><<~(net \subseteq net')>>_vars
    /\ []<>(\A t \in todo : ~node[t[1]].up)
    /\ \/ []<>(\A n, t \in Node : ~TimerCanFire(n, t))
       \/ []<><<\E n \in Node : node'[n].wait # node[n].wait>>_vars

---------------------------------------------------------------------------
(* Properties *)

NextHop(n, d) == node[n].routes[d].next

\* The next hops of the active routes to a destination never lead in a circle (AODVRouting.h,
\* sequenceNum: "it helps to prevent loops in the routes").  It takes routes of several
\* nodes, learned from different requests and replies, to violate it.
LoopFree ==
    \A d \in Node : \A S \in SUBSET (Node \ {d}) :
        S # {} => \E n \in S : Active(node[n], d) => NextHop(n, d) \notin S

\* No node takes an active route for newer than the destination can have made it: a number
\* marked valid is not ahead of the destination's own (AODVRouting.h, sequenceNum), although
\* routes to neighbours get the number of an originator or of nobody, requests are forwarded
\* with the larger of two numbers, and broken routes have theirs incremented.  A destination
\* that has restarted begins again at zero.
NumbersNotAhead ==
    \A n, d \in Node :
        Active(node[n], d) /\ node[n].routes[d].valid /\ ~node[d].restarted =>
            node[n].routes[d].seq <= node[d].sequenceNum

\* A datagram is delivered although other nodes search at the same time and one of the
\* broadcasts is missed: the retries and the datagrams put aside make up for it.  The
\* exceptions are a fault other than a loss (a route expires, a node moves or stops), and a
\* request of the source that a node drops as a duplicate of one of another node.
DataDelivered ==
    \A t \in Traffic :
        <>(t \in delivered \/ faults > 0 \/ \E n \in Node : t[1] \in node[n].mistaken)

\* No discovery retries for ever, whatever happens to nodes and links: in the end no
\* WaitForRREP timer is running.
DiscoveriesEnd ==
    <>[](\A n \in Node : \A t \in DOMAIN node[n].wait : ~node[n].wait[t].timer)

=============================================================================
