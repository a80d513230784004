--------------------------- MODULE DistanceVector ---------------------------
(***************************************************************************)
(* What a distance vector protocol promises, whatever its timers, faults   *)
(* and losses are: a router believes in a destination at a metric because  *)
(* it originates it, or because a neighbour announced it one interface     *)
(* cost closer; it announces only what it believes, or infinity.           *)
(***************************************************************************)
EXTENDS Integers

CONSTANTS
    Router, Net, Dest,
    Infinity,
    Attached(_),        \* the networks of a router
    Cost(_, _),         \* the metric of a router's interface to a network
    Origin(_, _),       \* the metrics at which a router originates a destination
    dist                \* router -> destination -> length of the shortest path

\* dist is a lower bound for what a router originates, and for every way to go on from
\* a neighbour.
DistanceAssumption ==
    /\ Infinity \in Nat
    /\ dist \in [Router -> [Dest -> 0 .. Infinity]]
    /\ \A r \in Router : \A n \in Attached(r) : Cost(r, n) \in Nat
    /\ \A r \in Router, d \in Dest :
        /\ Origin(r, d) \subseteq Nat
        /\ \A m \in Origin(r, d) : dist[r][d] <= m
        /\ \A q \in Router \ {r} : \A n \in Attached(r) \cap Attached(q) :
            dist[r][d] <= dist[q][d] + Cost(r, n)

VARIABLES
    belief,     \* router -> set of <<destination, metric>>
    said        \* set of announcements on their way

dvars == <<belief, said>>

Announcement == [from : Router, to : Router, net : Net, dest : Dest, metric : 0 .. Infinity]

DVInit ==
    /\ belief = [r \in Router |-> {}]
    /\ said = {}

\* The metric of a destination that was announced with m on network n of router r.
Plus(r, n, m) == IF m + Cost(r, n) < Infinity THEN m + Cost(r, n) ELSE Infinity

\* Why router r may believe that d is at metric m.
Reason(r, d, m) ==
    \/ <<d, m>> \in belief[r]
    \/ m = Infinity
    \/ m \in Origin(r, d)
    \/ \E a \in said : a.to = r /\ a.dest = d /\ m = Plus(r, a.net, a.metric)

\* Router r changes its mind and speaks; announcements are taken or lost.
Step(r) ==
    /\ belief' \in [Router -> SUBSET (Dest \X (0 .. Infinity))]
    /\ \A q \in Router \ {r} : belief'[q] = belief[q]
    /\ \A b \in belief'[r] : Reason(r, b[1], b[2])
    /\ said' \subseteq Announcement
    /\ \A a \in said' \ said :
        /\ a.from = r /\ a.to # r
        /\ a.net \in Attached(r) \cap Attached(a.to)
        /\ a.metric = Infinity \/ <<a.dest, a.metric>> \in belief[r]

DVNext == \E r \in Router : Step(r)

DVSpec == DVInit /\ [][DVNext]_dvars

---------------------------------------------------------------------------
\* No router believes in, and no announcement carries, a metric below the length of
\* the shortest path.
NeverTooShort ==
    /\ \A r \in Router : \A b \in belief[r] : dist[r][b[1]] <= b[2]
    /\ \A a \in said : dist[a.from][a.dest] <= a.metric

=============================================================================
