-------------------------------- MODULE RIP --------------------------------
(***************************************************************************)
(* The RIPv2 routers of a network: RIPRouting.cc, with the part of the     *)
(* IPv4 routing table it works on.  A router keeps a vector of routes,     *)
(* announces them to its neighbours, and learns routes from what they      *)
(* announce.  Routes that are not refreshed expire and are purged; both    *)
(* happen while the vector is walked to announce it.                       *)
(***************************************************************************)
EXTENDS Integers, Sequences, SequencesExt, FiniteSets

CONSTANTS
    Router,
    Net,           \* the networks that connect them
    Dest,          \* the destinations: the networks, and what static routes lead to
    ifaces,        \* router -> its interfaces in the order of the interface table
    cost,          \* router -> network -> metric of the RIPInterfaceEntry
    mode,          \* router -> network -> mode of the RIPInterfaceEntry
    static,        \* router -> its static routes: <<destination, interface>>
    Infinity,      \* RIP_INFINITE_METRIC
    MaxQueue,      \* bound: packets on their way from one router to another on a network
    MaxInFlight,   \* bound: channels in use when a timer fires or something else happens
    MaxFaults      \* bound: crashes, shutdowns, lost messages and interface events

Attached(r) == Range(ifaces[r])

None == "none"

ASSUME RIPAssumption ==
    /\ Infinity \in Nat /\ Net \subseteq Dest /\ None \notin Net \union Router
    /\ MaxQueue \in Nat /\ MaxFaults \in Nat
    /\ \A r \in Router :
        /\ ifaces[r] \in Seq(Net)
        /\ \A n \in Attached(r) :
            /\ cost[r][n] \in 1 .. Infinity - 1
            /\ mode[r][n] \in {"NO_RIP", "NO_SPLIT_HORIZON", "SPLIT_HORIZON",
                               "SPLIT_HORIZON_POISONED_REVERSE"}
        /\ static[r] \in Seq(Dest \X Attached(r))

\* A pair of routers on a network: what the first sends there, the second receives.
Channel == {c \in Router \X Router \X Net :
               c[1] # c[2] /\ c[3] \in Attached(c[1]) \cap Attached(c[2])}

\* The element of a singleton: {F(x) : x \in {e}} evaluates e once, however often F
\* mentions x.
Only(S) == CHOOSE x \in S : TRUE

VARIABLES
    status,        \* router -> off, or starting, running, stopping (startupTimer,
                   \*           updateTimer or shutdownTimer is scheduled)
    ripRoutes,     \* router -> the routes, in the order of the vector
    triggered,     \* router -> triggeredUpdateTimer is scheduled
    ifUp,          \* router -> network -> the interface is up
    chan,          \* channel -> the packets on their way
    aborted,       \* the simulation has run into undefined behaviour
    faults         \* how many faults have happened

vars == <<status, ripRoutes, triggered, ifUp, chan, aborted, faults>>

Route ==
    [dest : Dest, type : {"INTERFACE", "STATIC", "RTE"}, metric : 1 .. Infinity,
     ie : Net, from : Router \union {None}, changed : BOOLEAN,
     route : Net \union {"static", "rip", None},    \* the IPv4 route it stands for
     age : {"fresh", "expired", "purgeable"}]       \* now - lastUpdateTime

Entry == [dest : Dest, metric : 1 .. Infinity]

Packet == [command : {"REQUEST", "RESPONSE"}, entries : Seq(Entry)]

TypeOK ==
    /\ status \in [Router -> {"off", "starting", "running", "stopping"}]
    /\ ripRoutes \in [Router -> Seq(Route)]
    /\ triggered \in [Router -> BOOLEAN]
    /\ DOMAIN ifUp = Router
    /\ \A r \in Router : ifUp[r] \in [Attached(r) -> BOOLEAN]
    /\ chan \in [Channel -> Seq(Packet)]
    /\ \A c \in Channel : Len(chan[c]) <= MaxQueue
    /\ aborted \in BOOLEAN
    /\ faults \in 0 .. MaxFaults

Init ==
    /\ status = [r \in Router |-> "starting"]
    /\ ripRoutes = [r \in Router |-> <<>>]
    /\ triggered = [r \in Router |-> FALSE]
    /\ ifUp = [r \in Router |-> [n \in Attached(r) |-> TRUE]]
    /\ chan = [c \in Channel |-> <<>>]
    /\ aborted = FALSE
    /\ faults = 0

---------------------------------------------------------------------------
(* Routes *)

importRoute(d, t, n, m, p) ==
    [dest |-> d, type |-> t, metric |-> m, ie |-> n, from |-> None,
     changed |-> FALSE, route |-> p, age |-> "fresh"]

configureInitialRoutes(r) ==
    [i \in DOMAIN ifaces[r] |->
        LET n == ifaces[r][i] IN importRoute(n, "INTERFACE", n, cost[r][n], n)]
    \o [i \in DOMAIN static[r] |->
        importRoute(static[r][i][1], "STATIC", static[r][i][2], 1, "static")]

\* Mutant: the IPv4 route stays.
invalidateRouteKeepsRoute(x) == [x EXCEPT !.metric = Infinity, !.changed = TRUE]

\* The IPv4 route goes, the RIP route stays with metric 16.
invalidateRoute(x) == [x EXCEPT !.route = None, !.metric = Infinity, !.changed = TRUE]

invalidateRoutes(tab, n) ==
    [i \in DOMAIN tab |-> IF tab[i].ie = n THEN invalidateRoute(tab[i]) ELSE tab[i]]

\* addRoute: a destination that is heard of for the first time.
addRoute(d, n, m, q) ==
    [dest |-> d, type |-> "RTE", metric |-> m, ie |-> n, from |-> q,
     changed |-> TRUE, route |-> "rip", age |-> "fresh"]

\* updateRoute: neighbour q on network n announces the destination with metric m.
updateRoute(x, n, m, q) ==
    [x EXCEPT !.ie = n, !.metric = m, !.from = q, !.changed = TRUE,
              !.type = IF x.metric = Infinity /\ m < Infinity THEN "RTE" ELSE @,
              !.route = IF m < Infinity THEN "rip" ELSE None,
              !.age = IF m = Infinity /\ x.metric # Infinity THEN @ ELSE "fresh"]

\* findRoute: the first route to d.
findRoute(tab, d) == SelectInSeq(tab, LAMBDA x : x.dest = d)

\* Mutant: the interface costs nothing.
HeardFree(r, n, e) == e.metric

\* The metric of a destination that a neighbour on network n announces with entry e.
Heard(r, n, e) ==
    IF e.metric + cost[r][n] < Infinity THEN e.metric + cost[r][n] ELSE Infinity

\* Route x is updated by metric m: any other metric of the router it came from, only a
\* better one of the others.
Adopts(x, same, m) == (same /\ x.metric # m) \/ m < x.metric

\* One entry of a response of q that arrives on network n of router r, and whether it
\* asks for a triggered update.
processEntry(r, q, n, w, e) ==
    LET m    == Heard(r, n, e)
        i    == findRoute(w.tab, e.dest)
        x    == w.tab[i]
        same == x.from = q /\ x.ie = n
        y    == IF same THEN [x EXCEPT !.age = "fresh"] ELSE x
    IN  CASE i = 0 /\ m = Infinity -> w
          [] i = 0 /\ m # Infinity ->
                [tab |-> Append(w.tab, addRoute(e.dest, n, m, q)), news |-> TRUE]
          [] i # 0 /\ x.type = "STATIC" /\ x.metric # Infinity -> w
          [] OTHER ->
                IF Adopts(x, same, m)
                THEN [tab |-> [w.tab EXCEPT ![i] = updateRoute(y, n, m, q)], news |-> TRUE]
                ELSE [w EXCEPT !.tab[i] = y]

\* The entries of a response are applied one after the other.
processResponse(r, q, n, tab, entries) ==
    LET after[i \in 0 .. Len(entries)] ==
            IF i = 0 THEN [tab |-> tab, news |-> FALSE]
                     ELSE Only({processEntry(r, q, n, w, entries[i]) : w \in {after[i - 1]}})
    IN  after[Len(entries)]

\* findRoute by interface: the first interface route of the interface to n.
findInterfaceRoute(tab, n) == SelectInSeq(tab, LAMBDA x : x.type = "INTERFACE" /\ x.ie = n)

\* An interface route appears in the IPv4 routing table.
interfaceRouteAdded(r, tab, n) ==
    LET i == findInterfaceRoute(tab, n)
    IN  IF i = 0 THEN Append(tab, importRoute(n, "INTERFACE", n, cost[r][n], n))
        ELSE [tab EXCEPT ![i].route = n, ![i].metric = cost[r][n], ![i].changed = TRUE]

\* updateNetmaskRoutes of the routing table: the interface routes are deleted, then
\* added again; RIP hears of each of them.
updateNetmaskRoutes(r, tab) ==
    LET deleted == [i \in DOMAIN tab |->
                       IF tab[i].route \in Net THEN invalidateRoute(tab[i]) ELSE tab[i]]
        after[i \in 0 .. Len(ifaces[r])] ==
            IF i = 0 THEN deleted
                     ELSE Only({interfaceRouteAdded(r, t, ifaces[r][i]) : t \in {after[i - 1]}})
    IN  after[Len(ifaces[r])]

---------------------------------------------------------------------------
(* Announcing routes *)

\* What the entry for route x says on the interface to n: nothing in split horizon
\* mode when x was learned there.
Announced(r, n, x) ==
    LET back == x.ie = n
    IN  IF back /\ mode[r][n] = "SPLIT_HORIZON" THEN <<>>
        ELSE << [dest |-> x.dest,
                 metric |-> IF back /\ mode[r][n] = "SPLIT_HORIZON_POISONED_REVERSE"
                            THEN Infinity ELSE x.metric] >>

\* Mutant: regular updates leave out routes that have not changed, too.
VisitChangedOnly(r, n, w, x, changedOnly) ==
    IF w.skip THEN [w EXCEPT !.tab = Append(@, x), !.skip = FALSE]
    ELSE IF x.type = "RTE" /\ x.age = "purgeable" THEN [w EXCEPT !.skip = TRUE]
    ELSE IF x.type = "RTE" /\ x.age = "expired"
         THEN [w EXCEPT !.tab = Append(@, invalidateRoute(x)), !.expired = TRUE]
    ELSE [w EXCEPT !.tab = Append(@, x),
                   !.out = IF ~x.changed THEN @ ELSE @ \o Announced(r, n, x)]

\* The walk of sendRoutes over the vector.  checkRouteIsExpired may erase the route
\* under the iterator, which then stands on the next one: the loop steps over it.
\* skip at the end of the walk: the iterator has passed the end of the vector.
Visit(r, n, w, x, changedOnly) ==
    IF w.skip THEN [w EXCEPT !.tab = Append(@, x), !.skip = FALSE]
    ELSE IF x.type = "RTE" /\ x.age = "purgeable" THEN [w EXCEPT !.skip = TRUE]
    ELSE IF x.type = "RTE" /\ x.age = "expired"
         THEN [w EXCEPT !.tab = Append(@, invalidateRoute(x)), !.expired = TRUE]
    ELSE [w EXCEPT !.tab = Append(@, x),
                   !.out = IF changedOnly /\ ~x.changed THEN @ ELSE @ \o Announced(r, n, x)]

sendRoutes(r, n, tab, changedOnly) ==
    LET walk[i \in 0 .. Len(tab)] ==
            IF i = 0 THEN [tab |-> <<>>, out |-> <<>>, skip |-> FALSE, expired |-> FALSE]
                     ELSE Only({Visit(r, n, w, tab[i], changedOnly) : w \in {walk[i - 1]}})
    IN  walk[Len(tab)]

\* sendRoutes on each of the interfaces on in turn: the table that is left, what goes
\* out on each, whether a route has expired, and whether a walk passed the end.
sendOnAll(r, on, tab, changedOnly) ==
    LET join(w, n, s) ==
            [tab |-> s.tab, out |-> [w.out EXCEPT ![n] = s.out],
             expired |-> w.expired \/ s.expired, overrun |-> w.overrun \/ s.skip]
        send(w, n) ==
            IF n \notin on THEN w
            ELSE Only({join(w, n, s) : s \in {sendRoutes(r, n, w.tab, changedOnly)}})
        after[i \in 0 .. Len(ifaces[r])] ==
            IF i = 0 THEN [tab |-> tab, out |-> [n \in Net |-> <<>>],
                           expired |-> FALSE, overrun |-> FALSE]
                     ELSE Only({send(w, ifaces[r][i]) : w \in {after[i - 1]}})
    IN  after[Len(ifaces[r])]

RIPRequest == [command |-> "REQUEST", entries |-> <<>>]

RIPResponse(out) == [command |-> "RESPONSE", entries |-> out]

\* Packet k enters channel c, or is lost in a full queue.
Put(ch, c, k) == IF Len(ch[c]) < MaxQueue THEN Append(ch[c], k) ELSE ch[c]

\* The routers that have joined the multicast group on n.
Listens(r, n) == mode[r][n] # "NO_RIP"

\* Router r sends out[n] to the group on the network of each interface that is up.
Multicast(r, out) ==
    [c \in Channel |-> IF /\ c[1] = r /\ ifUp[r][c[3]] /\ out[c[3]] # <<>>
                         /\ Listens(c[2], c[3])
                      THEN Put(chan, c, RIPResponse(out[c[3]])) ELSE chan[c]]

sendRIPRequest(r, ns) ==
    [c \in Channel |-> IF /\ c[1] = r /\ c[3] \in ns /\ mode[r][c[3]] # "NO_RIP"
                         /\ Listens(c[2], c[3])
                      THEN Put(chan, c, RIPRequest) ELSE chan[c]]

\* The interfaces that updates are sent on.
ripInterfaces(r) == {n \in Attached(r) : mode[r][n] # "NO_RIP"}

\* triggerUpdate, if there is news: the timer is set unless a regular update is due
\* before it would fire.
triggerUpdate(r, news) ==
    \/ news /\ triggered' = [triggered EXCEPT ![r] = TRUE]
    \/ UNCHANGED triggered

---------------------------------------------------------------------------
(* Timers *)

startRIPRouting(r) ==
    /\ status[r] = "starting"
    /\ status' = [status EXCEPT ![r] = "running"]
    /\ ripRoutes' = [ripRoutes EXCEPT ![r] = configureInitialRoutes(r)]
    /\ chan' = sendRIPRequest(r, {n \in Attached(r) : ifUp[r][n]})
    /\ UNCHANGED <<triggered, ifUp, aborted, faults>>

\* A regular update, or the triggered one.  A route that expires now asks for a
\* triggered update; the flags of all routes are cleared.
processUpdate(r, changedOnly) ==
    /\ status[r] = "running"
    /\ changedOnly => triggered[r]
    /\ \E s \in {sendOnAll(r, ripInterfaces(r), ripRoutes[r], changedOnly)} :
        /\ ripRoutes' = [ripRoutes EXCEPT ![r] =
                            [i \in DOMAIN s.tab |-> [s.tab[i] EXCEPT !.changed = FALSE]]]
        /\ chan' = Multicast(r, s.out)
        /\ aborted' = s.overrun
        /\ \E b \in {TRUE, FALSE} :
            /\ ~changedOnly => b = (triggered[r] \/ s.expired)
            /\ b /\ changedOnly => s.expired
            /\ triggered' = [triggered EXCEPT ![r] = b]
    /\ UNCHANGED <<status, ifUp, faults>>

shutdownTimeout(r) ==
    /\ status[r] = "stopping"
    /\ status' = [status EXCEPT ![r] = "off"]
    /\ UNCHANGED <<ripRoutes, triggered, ifUp, chan, aborted, faults>>

---------------------------------------------------------------------------
(* Packets *)

\* A packet arrives; a router whose socket is closed, or whose interface is down, does
\* not see it.  A request is answered with the whole table, by unicast: the answer
\* needs the route to the network.
handleMessage(c) ==
    LET q == c[1]  r == c[2]  n == c[3]
        k == Head(chan[c])
        taken == [chan EXCEPT ![c] = Tail(@)]
    IN  /\ chan[c] # <<>>
        /\ \/ /\ status[r] # "running" \/ ~ifUp[r][n]
              /\ chan' = taken
              /\ UNCHANGED <<ripRoutes, triggered, aborted>>
           \/ /\ status[r] = "running" /\ ifUp[r][n] /\ k.command = "REQUEST"
              /\ \E s \in {sendRoutes(r, n, ripRoutes[r], FALSE)} :
                 LET back == <<r, q, n>>
                     reachable == \E x \in Range(ripRoutes[r]) :
                                     x.dest = n /\ x.ie = n /\ x.route # None
                 IN  /\ ripRoutes' = [ripRoutes EXCEPT ![r] = s.tab]
                     /\ chan' = IF s.out # <<>> /\ reachable
                                THEN [taken EXCEPT ![back] = Put(chan, back, RIPResponse(s.out))]
                                ELSE taken
                     /\ aborted' = s.skip
                     /\ triggerUpdate(r, s.expired)
           \/ /\ status[r] = "running" /\ ifUp[r][n] /\ k.command = "RESPONSE"
              /\ \E w \in {processResponse(r, q, n, ripRoutes[r], k.entries)} :
                    /\ ripRoutes' = [ripRoutes EXCEPT ![r] = w.tab]
                    /\ triggerUpdate(r, w.news)
              /\ chan' = taken
              /\ UNCHANGED aborted
        /\ UNCHANGED <<status, ifUp, faults>>

---------------------------------------------------------------------------
(* Notifications and operations on the node *)

Fault == faults < MaxFaults /\ faults' = faults + 1

InterfaceDown(r, n) ==
    /\ Fault /\ ifUp[r][n]
    /\ ifUp' = [ifUp EXCEPT ![r][n] = FALSE]
    /\ ripRoutes' = [ripRoutes EXCEPT ![r] = invalidateRoutes(@, n)]
    /\ triggerUpdate(r, \E i \in DOMAIN ripRoutes[r] : ripRoutes[r][i].ie = n)
    /\ UNCHANGED <<status, chan, aborted>>

InterfaceUp(r, n) ==
    /\ ~ifUp[r][n]
    /\ ifUp' = [ifUp EXCEPT ![r][n] = TRUE]
    /\ chan' = IF status[r] = "running" THEN sendRIPRequest(r, {n}) ELSE chan
    /\ UNCHANGED <<status, ripRoutes, triggered, aborted, faults>>

\* The IPv4 configuration of an interface changes.
IPv4ConfigChanged(r) ==
    /\ Fault /\ status[r] = "running"
    /\ ripRoutes' = [ripRoutes EXCEPT ![r] = updateNetmaskRoutes(r, @)]
    /\ triggerUpdate(r, TRUE)
    /\ UNCHANGED <<status, ifUp, chan, aborted>>

\* All routes are announced as broken on every interface before the router stops.
NodeShutdown(r) ==
    LET tab == [i \in DOMAIN ripRoutes[r] |-> invalidateRoute(ripRoutes[r][i])]
        ripIfs == IF status[r] = "running" THEN Attached(r) ELSE {}
    IN  /\ Fault /\ status[r] \in {"starting", "running"}
        /\ status' = [status EXCEPT ![r] = "stopping"]
        /\ ripRoutes' = [ripRoutes EXCEPT ![r] = <<>>]
        /\ triggered' = [triggered EXCEPT ![r] = FALSE]
        /\ \E s \in {sendOnAll(r, ripIfs, tab, FALSE)} :
            chan' = Multicast(r, s.out) /\ aborted' = s.overrun
        /\ UNCHANGED ifUp

\* Mutant: the triggered update is not cancelled.
NodeCrashKeepsTimer(r) ==
    /\ Fault /\ status[r] \in {"starting", "running"}
    /\ status' = [status EXCEPT ![r] = "off"]
    /\ ripRoutes' = [ripRoutes EXCEPT ![r] = <<>>]
    /\ UNCHANGED <<triggered, ifUp, chan, aborted>>

NodeCrash(r) ==
    /\ Fault /\ status[r] \in {"starting", "running"}
    /\ status' = [status EXCEPT ![r] = "off"]
    /\ ripRoutes' = [ripRoutes EXCEPT ![r] = <<>>]
    /\ triggered' = [triggered EXCEPT ![r] = FALSE]
    /\ UNCHANGED <<ifUp, chan, aborted>>

NodeStart(r) ==
    /\ status[r] = "off"
    /\ status' = [status EXCEPT ![r] = "starting"]
    /\ UNCHANGED <<ripRoutes, triggered, ifUp, chan, aborted, faults>>

---------------------------------------------------------------------------
(* The network and time *)

Lose(c) ==
    /\ Fault /\ chan[c] # <<>>
    /\ chan' = [chan EXCEPT ![c] = Tail(@)]
    /\ UNCHANGED <<status, ripRoutes, triggered, ifUp, aborted>>

\* The neighbour a route was learned from goes on announcing the destination.
Refreshed(r, x) ==
    /\ status[x.from] = "running" /\ ifUp[x.from][x.ie] /\ ifUp[r][x.ie]
    /\ \E i \in DOMAIN ripRoutes[x.from] :
        LET y == ripRoutes[x.from][i]
        IN  /\ y.dest = x.dest
            /\ ~(y.type = "RTE" /\ y.age # "fresh")
            /\ Announced(x.from, x.ie, y) # <<>>

\* A route that nobody refreshes gets older.
Ages(r, i) ==
    LET x == ripRoutes[r][i]
    IN  /\ x.type = "RTE" /\ x.age # "purgeable" /\ ~Refreshed(r, x)
        /\ ripRoutes' = [ripRoutes EXCEPT ![r][i].age =
                            IF @ = "fresh" THEN "expired" ELSE "purgeable"]
        /\ UNCHANGED <<status, triggered, ifUp, chan, aborted, faults>>

Idle == ~aborted /\ Cardinality({c \in Channel : chan[c] # <<>>}) <= MaxInFlight

Next ==
    /\ ~aborted
    /\ \/ /\ Idle
          /\ \E r \in Router :
            \/ startRIPRouting(r) \/ shutdownTimeout(r)
            \/ processUpdate(r, FALSE) \/ processUpdate(r, TRUE)
            \/ IPv4ConfigChanged(r)
            \/ NodeShutdown(r) \/ NodeCrash(r) \/ NodeStart(r)
            \/ \E n \in Attached(r) : InterfaceDown(r, n) \/ InterfaceUp(r, n)
            \/ \E i \in DOMAIN ripRoutes[r] : Ages(r, i)
       \/ \E c \in Channel : handleMessage(c) \/ Lose(c)

Spec == Init /\ [][Next]_vars

\* Timers fire, packets arrive, and a route that is no longer refreshed expires.  An
\* update waits for the channels only because of MaxInFlight: hence strong fairness.
FairSpec ==
    /\ Spec
    /\ \A r \in Router :
        /\ SF_vars(Idle /\ processUpdate(r, FALSE))
        /\ SF_vars(Idle /\ startRIPRouting(r))
        /\ SF_vars(Idle /\ \E i \in DOMAIN ripRoutes[r] :
                               ripRoutes[r][i].age = "fresh" /\ Ages(r, i))
    /\ \A c \in Channel : WF_vars(~aborted /\ handleMessage(c))

---------------------------------------------------------------------------
(* Properties *)

\* A route has a finite metric exactly as long as an IPv4 route stands for it in the
\* routing table (the assertions in updateRoute): through updates, expiry, interfaces
\* that go down and routes the routing table deletes and adds by itself.
RouteInstalled ==
    \A r \in Router : \A x \in Range(ripRoutes[r]) :
        x.metric < Infinity <=> x.route # None

\* A router that does not run has no routes and no timer for an update: handleMessage
\* stops the simulation when a timer fires after isOperational was cleared.
QuietWhenStopped ==
    \A r \in Router :
        status[r] # "running" => ripRoutes[r] = <<>> /\ ~triggered[r]

\* The metric at which a router originates a destination.
Origin(r, d) ==
    {cost[r][n] : n \in {d} \cap Attached(r)}
    \union {1 : i \in {j \in DOMAIN static[r] : static[r][j][1] = d}}

Cost(r, n) == cost[r][n]

Least(S) == CHOOSE m \in S : \A k \in S : m <= k

\* One round of Bellman and Ford: the best of what a router originates and what its
\* neighbours were at after the round before.
Relax(p) ==
    [r \in Router |-> [d \in Dest |->
        Least({Infinity} \union Origin(r, d)
              \union {p[c[1]][d] + cost[r][c[3]] : c \in {x \in Channel : x[2] = r}})]]

\* The lengths of the shortest paths when everything is up.  Every interface costs at
\* least 1, so that after Infinity rounds nothing gets better.
ShortestPaths ==
    LET paths[k \in 0 .. Infinity] ==
            IF k = 0 THEN [r \in Router |-> [d \in Dest |-> Infinity]]
                     ELSE Relax(paths[k - 1])
    IN  paths[Infinity]

DV == INSTANCE DistanceVector WITH
        dist <- ShortestPaths,
        belief <- [r \in Router |-> {<<x.dest, x.metric>> : x \in Range(ripRoutes[r])}],
        said <- UNION {UNION {{[from |-> c[1], to |-> c[2], net |-> c[3],
                                dest |-> e.dest, metric |-> e.metric] :
                                  e \in Range(chan[c][i].entries)} :
                               i \in DOMAIN chan[c]} : c \in Channel}

\* No interface of a router is so expensive that a neighbour beyond another one offers
\* its network at a better metric; so it is with the default metric 1.  Otherwise
\* updateRoute takes such an offer without changing the type of the interface route,
\* and the routing table's next notification for the other interface gives that route,
\* found by type and interface, the metric of the wrong network.
EvenCosts ==
    \A r \in Router : \A n, k \in Attached(r) : cost[r][n] <= cost[r][k] + 1

\* RIP is, when EvenCosts, a distance vector protocol: with poisoned reverse, expiry, crashes, lost and
\* repeated packets, a router holds a finite metric only for a network it is attached
\* to, a static route or a neighbour's announcement, and so never one that is too short.
ImplementsDistanceVector == DV!DVSpec

\* The metric of a router's best route to d, and of the one it owes to no neighbour.
Known(r, d) ==
    Least({Infinity} \union {x.metric : x \in {y \in Range(ripRoutes[r]) : y.dest = d}})

Originates(r, d) ==
    {x.metric : x \in {y \in Range(ripRoutes[r]) :
                          y.dest = d /\ y.route \in Net \union {"static"}}}

\* What router r would learn of d from the next update of the router at the other end
\* of channel c.
Offers(c, d) ==
    {e.metric + cost[c[2]][c[3]] :
        e \in UNION {Range(Announced(c[1], c[3], y)) : y \in {x \in Range(ripRoutes[c[1]]) : x.dest = d}}}

\* The metrics of the running routers solve the Bellman equations over the interfaces
\* that are up, for the networks and static routes that still are in a routing table:
\* as all costs are positive, they are the lengths of the shortest paths along which
\* split horizon lets the destination be announced.
Converged ==
    \A r \in {x \in Router : status[x] = "running"}, d \in Dest :
        LET into == {c \in Channel : /\ c[2] = r /\ status[c[1]] = "running"
                                    /\ ifUp[c[1]][c[3]] /\ ifUp[r][c[3]]
                                    /\ Listens(c[1], c[3]) /\ Listens(r, c[3])}
        IN  Known(r, d) = Least({Infinity} \union Originates(r, d)
                                \union UNION {Offers(c, d) : c \in into})

\* When no more faults happen, the routers agree on the shortest paths and stay there:
\* broken routes are counted to infinity or expire, however updates and packets
\* interleave.
Convergence == <>aborted \/ <>[]Converged

=============================================================================
