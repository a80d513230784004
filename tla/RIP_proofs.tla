----------------------------- MODULE RIP_proofs -----------------------------
(***************************************************************************)
(* What is proved about RIP for every network, every cost, every length of *)
(* the channels and every number of faults.                                *)
(*                                                                         *)
(* First the operators that walk a routing table or a list of interfaces:  *)
(* a table keeps the property that the metric of a route is finite exactly *)
(* when the route is in the IPv4 routing table, and contains no metric     *)
(* that is neither old, nor that of an interface of the router, nor heard  *)
(* from a neighbour.  Then one lemma per action says that some router      *)
(* moves: its table changes within these limits, and what it announces it  *)
(* believed before.  The invariant and the refinement of DistanceVector    *)
(* follow from that alone.                                                 *)
(***************************************************************************)
EXTENDS RIP, Walks_proofs

\* Only, which names an intermediate value, gives that value.
LEMMA OnlyOne == \A e : Only({e}) = e
BY DEF Only

\* The first element that passes a test: an index, or 0 when there is none.
LEMMA FindRoute ==
    ASSUME NEW tab \in Seq(Route), NEW d
    PROVE  /\ findRoute(tab, d) \in 0 .. Len(tab)
           /\ findRoute(tab, d) # 0 => tab[findRoute(tab, d)].dest = d
<1> DEFINE I == {i \in 1 .. Len(tab) : tab[i].dest = d}
<1>1. findRoute(tab, d) = IF I # {} THEN Min(I) ELSE 0
  BY DEF findRoute, SelectInSeq
<1>2. I # {} => Min(I) \in I
  <2> SUFFICES ASSUME I # {} PROVE Min(I) \in I
    OBVIOUS
  <2>1. I \in SUBSET Nat
    OBVIOUS
  <2> HIDE DEF I
  <2>2. PICK m \in I : \A k \in I : m <= k
    BY <2>1, LeastNatural
  <2> QED BY <2>2 DEF Min
<1> QED
  BY <1>1, <1>2

\* The interface route that findRoute(ie, INTERFACE) returns is one of ie.
LEMMA FindInterfaceRoute ==
    ASSUME NEW tab \in Seq(Route), NEW n
    PROVE  LET k == findInterfaceRoute(tab, n)
           IN  /\ k \in 0 .. Len(tab)
               /\ k # 0 => tab[k].type = "INTERFACE" /\ tab[k].ie = n
<1> DEFINE I == {i \in 1 .. Len(tab) : tab[i].type = "INTERFACE" /\ tab[i].ie = n}
<1>1. findInterfaceRoute(tab, n) = IF I # {} THEN Min(I) ELSE 0
  BY DEF findInterfaceRoute, SelectInSeq
<1>2. I # {} => Min(I) \in I
  <2> SUFFICES ASSUME I # {} PROVE Min(I) \in I
    OBVIOUS
  <2>1. I \in SUBSET Nat
    OBVIOUS
  <2> HIDE DEF I
  <2>2. PICK m \in I : \A j \in I : m <= j
    BY <2>1, LeastNatural
  <2> QED BY <2>2 DEF Min
<1> QED
  BY <1>1, <1>2

---------------------------------------------------------------------------
(* Routes and tables *)

\* An interface route leads to the network of its interface, at its cost or not at all.
Own(r, x) ==
    x.type = "INTERFACE" =>
        /\ x.dest = x.ie /\ x.from = None /\ x.ie \in Attached(r)
        /\ x.metric \in {cost[r][x.ie], Infinity}

\* A route agrees with the IPv4 routing table, and its metric is infinite or one that
\* the set S of destinations with metrics accounts for.
Fine(r, x, S) ==
    /\ x \in Route
    /\ x.metric < Infinity <=> x.route # None
    /\ x.metric = Infinity \/ <<x.dest, x.metric>> \in S
    /\ EvenCosts => Own(r, x)

\* The tables of r whose metrics S accounts for.
Tables(r, S) == {tab \in Seq(Route) : \A i \in 1 .. Len(tab) : Fine(r, tab[i], S)}

\* The lists of entries whose metrics S accounts for.
Entries(S) ==
    {es \in Seq(Entry) : \A i \in 1 .. Len(es) :
        es[i].metric = Infinity \/ <<es[i].dest, es[i].metric>> \in S}

\* What router r originates, and what it believes.
Origins(r) == {b \in Dest \X (1 .. Infinity) : b[2] \in Origin(r, b[1])}

\* The destinations and metrics in a table.
Beliefs(tab) == {<<x.dest, x.metric>> : x \in Range(tab)}

\* The infinite metric is a number.
LEMMA InfinityType == Infinity \in Nat
BY RIPAssumption DEF RIPAssumption

\* An attached network is a destination, and its cost is finite.
LEMMA AttachedFacts ==
    ASSUME NEW r \in Router, NEW n \in Attached(r)
    PROVE  n \in Net /\ n \in Dest /\ n # None /\ cost[r][n] \in 1 .. Infinity - 1
<1>1. ifaces[r] \in Seq(Net) /\ cost[r][n] \in 1 .. Infinity - 1
  BY RIPAssumption DEF RIPAssumption
<1>2. n \in Net
  BY <1>1 DEF Attached, Range
<1> QED
  BY <1>1, <1>2, RIPAssumption DEF RIPAssumption

\* The metric of an entry and the cost of the interface never exceed the limit.
LEMMA HeardType ==
    ASSUME NEW r \in Router, NEW n \in Attached(r), NEW e \in Entry
    PROVE  Heard(r, n, e) \in 1 .. Infinity
<1>1. cost[r][n] \in 1 .. Infinity - 1
  BY AttachedFacts
<1>2. e.metric \in 1 .. Infinity
  BY DEF Entry
<1> QED
  BY <1>1, <1>2, InfinityType DEF Heard

\* importRoute makes a route that is in the routing table.
LEMMA ImportFine ==
    ASSUME NEW r \in Router, NEW d \in Dest, NEW t \in {"INTERFACE", "STATIC"},
           NEW n \in Net, NEW m \in 1 .. Infinity - 1, NEW p \in Net \union {"static"},
           NEW S, <<d, m>> \in S,
           t = "INTERFACE" => n \in Attached(r) /\ d = n /\ m = cost[r][n]
    PROVE  Fine(r, importRoute(d, t, n, m, p), S)
<1>1. importRoute(d, t, n, m, p) \in Route
  BY InfinityType DEF importRoute, Route
<1>2. p # None
  <2>1. None \notin Net
    BY RIPAssumption DEF RIPAssumption
  <2>2. "static" # None
    BY DEF None
  <2> QED
    BY <2>1, <2>2
<1>3. Own(r, importRoute(d, t, n, m, p))
  BY DEF Own, importRoute
<1> QED
  BY <1>1, <1>2, <1>3, InfinityType DEF importRoute, Fine

\* invalidateRoute takes the route out of the routing table with its metric.
LEMMA InvalidateFine ==
    ASSUME NEW S, NEW r, NEW x, Fine(r, x, S), NEW T
    PROVE  Fine(r, invalidateRoute(x), T) /\ invalidateRoute(x).metric = Infinity
<1>0. Infinity \in 1 .. Infinity
  <2>1. x.metric \in 1 .. Infinity
    BY DEF Route, Fine
  <2> QED
    BY <2>1, InfinityType
<1>1. invalidateRoute(x) \in Route
  BY <1>0 DEF invalidateRoute, Route, Fine
<1>2. Own(r, x) => Own(r, invalidateRoute(x))
  BY DEF invalidateRoute, Fine, Own, Route
<1>3. invalidateRoute(x).metric = Infinity /\ invalidateRoute(x).route = None
  BY DEF invalidateRoute, Fine, Route
<1> QED
  BY <1>1, <1>2, <1>3, InfinityType DEF Fine

\* addRoute makes a route that is in the routing table.
LEMMA AddFine ==
    ASSUME NEW d \in Dest, NEW n \in Net, NEW m \in 1 .. Infinity - 1,
           NEW q \in Router, NEW S, <<d, m>> \in S, NEW r
    PROVE  Fine(r, addRoute(d, n, m, q), S)
<1>1. addRoute(d, n, m, q) \in Route
  BY InfinityType DEF addRoute, Route
<1> QED
  BY <1>1, InfinityType DEF addRoute, Fine, None, Own

\* An interface route is only updated after it was invalidated, and then is one no more.
LEMMA UpdateFine ==
    ASSUME NEW S, NEW r \in Router, NEW x, Fine(r, x, S), NEW n \in Attached(r),
           NEW e \in Entry, NEW q \in Router,
           LET m == Heard(r, n, e)
           IN  /\ m = Infinity \/ <<x.dest, m>> \in S
               /\ Adopts(x, x.from = q /\ x.ie = n, m)
    PROVE  Fine(r, updateRoute(x, n, Heard(r, n, e), q), S)
<1> DEFINE m == Heard(r, n, e)
           u == updateRoute(x, n, m, q)
<1>0. m \in 1 .. Infinity /\ n \in Net /\ cost[r][n] \in Nat
  BY HeardType, AttachedFacts
<1>1. u \in Route
  BY <1>0, InfinityType DEF updateRoute, Route, Fine
<1>2. /\ u.metric = m /\ u.dest = x.dest
      /\ u.route = IF m < Infinity THEN "rip" ELSE None
      /\ u.type = IF x.metric = Infinity /\ m < Infinity THEN "RTE" ELSE x.type
  BY DEF updateRoute, Fine, Route
<1>3. EvenCosts => Own(r, u)
  <2> SUFFICES ASSUME EvenCosts, u.type = "INTERFACE" PROVE FALSE
    BY DEF Own
  <2>1. x.type = "INTERFACE" /\ ~(x.metric = Infinity /\ m < Infinity)
    BY <1>2
  <2>2. /\ x.from = None /\ x.ie \in Attached(r)
        /\ x.metric \in {cost[r][x.ie], Infinity}
    BY <2>1 DEF Fine, Own
  <2>3. x.from # q
    BY <2>2, RIPAssumption DEF RIPAssumption
  <2>4. m < x.metric
    BY <2>3 DEF Adopts
  <2>5. x.metric = cost[r][x.ie] /\ m < Infinity /\ cost[r][x.ie] \in 1 .. Infinity - 1
    BY <2>1, <2>2, <2>4, <1>0, InfinityType, AttachedFacts
  <2>6. m = e.metric + cost[r][n] /\ e.metric \in 1 .. Infinity
    BY <2>5, InfinityType DEF Heard, Entry
  <2>7. cost[r][x.ie] <= cost[r][n] + 1
    BY <2>2 DEF EvenCosts
  <2> QED
    BY <1>0, <2>4, <2>5, <2>6, <2>7, InfinityType
<1> QED
  BY <1>0, <1>1, <1>2, <1>3, InfinityType DEF Fine, None

\* Setting the age or the flag of a route.
LEMMA TouchFine ==
    ASSUME NEW S, NEW r, NEW x, Fine(r, x, S)
    PROVE  /\ \A a \in {"fresh", "expired", "purgeable"} : Fine(r, [x EXCEPT !.age = a], S)
           /\ \A b \in BOOLEAN : Fine(r, [x EXCEPT !.changed = b], S)
<1>1. \A a \in {"fresh", "expired", "purgeable"} : [x EXCEPT !.age = a] \in Route
  BY DEF Fine, Route
<1>2. \A b \in BOOLEAN : [x EXCEPT !.changed = b] \in Route
  BY DEF Fine, Route
<1>3. Own(r, x) => \A a \in {"fresh", "expired", "purgeable"} : Own(r, [x EXCEPT !.age = a])
  BY DEF Fine, Route, Own
<1>4. Own(r, x) => \A b \in BOOLEAN : Own(r, [x EXCEPT !.changed = b])
  BY DEF Fine, Route, Own
<1> QED
  BY <1>1, <1>2, <1>3, <1>4 DEF Fine, Route

\* The operations on sequences that the model uses keep a table a table.
LEMMA TableOps ==
    ASSUME NEW r, NEW S, NEW tab \in Tables(r, S)
    PROVE  /\ Len(tab) \in Nat /\ DOMAIN tab = 1 .. Len(tab) /\ tab \in Seq(Route)
           /\ \A i \in 1 .. Len(tab) : Fine(r, tab[i], S)
           /\ \A x : Fine(r, x, S) => Append(tab, x) \in Tables(r, S)
           /\ \A i \in 1 .. Len(tab) : \A x :
                Fine(r, x, S) => [tab EXCEPT ![i] = x] \in Tables(r, S)
<1>1. /\ Len(tab) \in Nat /\ DOMAIN tab = 1 .. Len(tab) /\ tab \in Seq(Route)
      /\ \A i \in 1 .. Len(tab) : Fine(r, tab[i], S)
  BY DEF Tables
<1>2. ASSUME NEW x, Fine(r, x, S) PROVE Append(tab, x) \in Tables(r, S)
  <2>0. x \in Route
    BY <1>2 DEF Fine
  <2>1. /\ Append(tab, x) \in Seq(Route)
        /\ Len(Append(tab, x)) = Len(tab) + 1
        /\ \A i \in 1 .. Len(tab) + 1 :
             Append(tab, x)[i] = IF i = Len(tab) + 1 THEN x ELSE tab[i]
    BY <1>1, <2>0
  <2>2. \A i \in 1 .. Len(Append(tab, x)) : Fine(r, Append(tab, x)[i], S)
    BY <1>1, <1>2, <2>1
  <2> QED
    BY <2>1, <2>2 DEF Tables
<1>3. ASSUME NEW i \in 1 .. Len(tab), NEW x, Fine(r, x, S)
      PROVE  [tab EXCEPT ![i] = x] \in Tables(r, S)
  <2>0. x \in Route
    BY <1>3 DEF Fine
  <2> DEFINE t == [tab EXCEPT ![i] = x]
  <2>1. /\ t \in Seq(Route) /\ Len(t) = Len(tab)
        /\ \A j \in 1 .. Len(tab) : t[j] = IF j = i THEN x ELSE tab[j]
    BY <1>1, <2>0
  <2>2. \A j \in 1 .. Len(t) : Fine(r, t[j], S)
    <3> HIDE DEF t
    <3> QED BY <1>1, <1>3, <2>1
  <2> HIDE DEF t
  <2>3. t \in Tables(r, S)
    BY <2>1, <2>2 DEF Tables
  <2> QED
    BY <2>3 DEF t
<1> QED
  BY <1>1, <1>2, <1>3

\* A table stays one when more is accounted for.
LEMMA TablesMonotone ==
    ASSUME NEW r, NEW S, NEW T, S \subseteq T
    PROVE  Tables(r, S) \subseteq Tables(r, T)
BY DEF Tables, Fine

\* A table that is built route by route over the indices of another.
LEMMA MapTable ==
    ASSUME NEW r, NEW S, NEW n \in Nat, NEW t, t = [i \in 1 .. n |-> t[i]],
           \A i \in 1 .. n : Fine(r, t[i], S)
    PROVE  t \in Tables(r, S)
<1>1. \A i \in 1 .. n : t[i] \in Route
  BY DEF Fine
<1>2. t \in Seq(Route) /\ Len(t) = n
  BY <1>1
<1> QED
  BY <1>2 DEF Tables

---------------------------------------------------------------------------
(* A response *)

\* The state of processResponse between two entries.
Response(r, S) == [tab : Tables(r, S), news : BOOLEAN]

\* An entry adds or changes at most one route, to the metric that was heard.
LEMMA ProcessEntry ==
    ASSUME NEW r \in Router, NEW q \in Router, NEW n \in Attached(r), NEW e \in Entry,
           NEW S, <<e.dest, Heard(r, n, e)>> \in S, NEW w \in Response(r, S)
    PROVE  processEntry(r, q, n, w, e) \in Response(r, S)
<1> DEFINE m    == Heard(r, n, e)
           i    == findRoute(w.tab, e.dest)
           x    == w.tab[i]
           same == x.from = q /\ x.ie = n
           y    == IF same THEN [x EXCEPT !.age = "fresh"] ELSE x
           p    == processEntry(r, q, n, w, e)
<1>1. m \in 1 .. Infinity /\ n \in Net /\ e.dest \in Dest
  BY HeardType, AttachedFacts DEF Entry
<1>2. w = [tab |-> w.tab, news |-> w.news] /\ w.tab \in Tables(r, S) /\ w.news \in BOOLEAN
  BY DEF Response
<1>3. i \in 0 .. Len(w.tab) /\ (i # 0 => x.dest = e.dest)
  BY <1>2, TableOps, FindRoute
<1>4. CASE i = 0 /\ m = Infinity
  BY <1>4 DEF processEntry
<1>5. CASE i = 0 /\ m # Infinity
  <2>1. m \in 1 .. Infinity - 1
    BY <1>1, <1>5, InfinityType
  <2>2. Fine(r, addRoute(e.dest, n, m, q), S)
    BY <1>1, <2>1, AddFine
  <2>3. p = [tab |-> Append(w.tab, addRoute(e.dest, n, m, q)), news |-> TRUE]
    BY <1>5 DEF processEntry
  <2>4. Append(w.tab, addRoute(e.dest, n, m, q)) \in Tables(r, S)
    BY <1>2, <2>2, TableOps
  <2> QED
    BY <2>3, <2>4 DEF Response
<1>6. CASE i # 0 /\ x.type = "STATIC" /\ x.metric # Infinity
  BY <1>6 DEF processEntry
<1>7. CASE i # 0 /\ ~(x.type = "STATIC" /\ x.metric # Infinity)
  <2>1. i \in 1 .. Len(w.tab) /\ DOMAIN w.tab = 1 .. Len(w.tab) /\ Fine(r, x, S)
    <3>1. i \in 1 .. Len(w.tab)
      <4> HIDE DEF i
      <4>1. Len(w.tab) \in Nat
        BY <1>2, TableOps
      <4> QED BY <1>3, <1>7, <4>1
    <3> QED BY <1>2, <3>1, TableOps
  <2>2. Fine(r, y, S) /\ y.dest = e.dest
    <3>1. x \in Route /\ x.dest = e.dest
      BY <2>1, <1>3, <1>7 DEF Fine
    <3>2. Fine(r, [x EXCEPT !.age = "fresh"], S)
      BY <2>1, TouchFine
    <3>3. [x EXCEPT !.age = "fresh"].dest = x.dest
      BY <3>1 DEF Route
    <3> HIDE DEF x
    <3> QED BY <2>1, <3>1, <3>2, <3>3
  <2>3. Adopts(x, same, m) => Fine(r, updateRoute(y, n, m, q), S)
    <3>1. y.from = x.from /\ y.ie = x.ie /\ y.metric = x.metric
      BY <2>1 DEF Fine, Route
    <3>2. Adopts(x, same, m) => Adopts(y, y.from = q /\ y.ie = n, m)
      BY <3>1 DEF Adopts
    <3> HIDE DEF y, x, same
    <3> QED BY <2>2, <3>2, UpdateFine
  <2>4. p = IF Adopts(x, same, m)
            THEN [tab |-> [w.tab EXCEPT ![i] = updateRoute(y, n, m, q)], news |-> TRUE]
            ELSE [w EXCEPT !.tab[i] = y]
    BY <1>7 DEF processEntry
  <2>5. /\ Adopts(x, same, m) => [w.tab EXCEPT ![i] = updateRoute(y, n, m, q)] \in Tables(r, S)
        /\ [w.tab EXCEPT ![i] = y] \in Tables(r, S)
    <3> HIDE DEF m, y, i, x, same
    <3> QED BY <1>2, <2>1, <2>2, <2>3, TableOps
  <2>6. [w EXCEPT !.tab[i] = y] = [tab |-> [w.tab EXCEPT ![i] = y], news |-> w.news]
    <3> HIDE DEF i, y
    <3> QED BY <1>2
  <2> HIDE DEF m, y, i, p, x, same
  <2> QED
    BY <1>2, <2>4, <2>5, <2>6 DEF Response, p
<1> QED
  BY <1>4, <1>5, <1>6, <1>7

\* A response leaves routes that were there before, or that one of its entries
\* accounts for.
LEMMA ProcessResponse ==
    ASSUME NEW r \in Router, NEW q \in Router, NEW n \in Attached(r),
           NEW entries \in Seq(Entry), NEW S, NEW tab \in Tables(r, S),
           \A i \in 1 .. Len(entries) : <<entries[i].dest, Heard(r, n, entries[i])>> \in S
    PROVE  processResponse(r, q, n, tab, entries) \in Response(r, S)
<1> DEFINE N == Len(entries)
           A == Response(r, S)
           b == [tab |-> tab, news |-> FALSE]
           Step(w, i) == processEntry(r, q, n, w, entries[i])
           g == [p \in (1 .. N) \X A |-> Step(p[2], p[1])]
           Walk(f) == [i \in 0 .. Len(entries) |->
                         IF i = 0 THEN [tab |-> tab, news |-> FALSE]
                         ELSE Only({processEntry(r, q, n, w, entries[i]) : w \in {f[i - 1]}})]
           after == CHOOSE f : f = Walk(f)
<1>1. N \in Nat /\ b \in A /\ \A i \in 1 .. N, w \in A : Step(w, i) \in A
  <2>1. N \in Nat /\ \A i \in 1 .. N : entries[i] \in Entry
    OBVIOUS
  <2>2. b \in A
    BY DEF Response
  <2>3. ASSUME NEW i \in 1 .. N, NEW w \in A PROVE Step(w, i) \in A
    BY <2>1, ProcessEntry
  <2> QED BY <2>1, <2>2, <2>3
<1>2. ASSUME NEW f PROVE Walk(f) = [i \in 0 .. N |-> IF i = 0 THEN b ELSE Step(f[i - 1], i)]
  <2>1. ASSUME NEW i
        PROVE  Only({processEntry(r, q, n, w, entries[i]) : w \in {f[i - 1]}}) = Step(f[i - 1], i)
    <3>1. {processEntry(r, q, n, w, entries[i]) : w \in {f[i - 1]}} = {Step(f[i - 1], i)}
      OBVIOUS
    <3> QED BY <3>1, OnlyOne
  <2> QED BY <2>1, Zenon
<1> HIDE DEF N, A, b, Step, Walk
<1>3. PICK f \in [0 .. N -> A] : IsWalk(f, N, b, g)
  <2>1. g \in [(1 .. N) \X A -> A]
    BY <1>1
  <2> HIDE DEF g
  <2> QED BY <1>1, <2>1, WalkDefined
<1>4. f = Walk(f)
  <2>1. \A i \in 1 .. N : g[<<i, f[i - 1]>>] = Step(f[i - 1], i)
    BY <1>1
  <2> HIDE DEF g
  <2>2. ASSUME NEW i \in 0 .. N PROVE f[i] = IF i = 0 THEN b ELSE Step(f[i - 1], i)
    <3>1. CASE i = 0
      BY <1>3, <3>1 DEF IsWalk
    <3>2. CASE i # 0
      <4>1. i \in 1 .. N
        BY <1>1, <3>2
      <4> QED BY <1>3, <2>1, <3>2, <4>1 DEF IsWalk
    <3> QED BY <3>1, <3>2
  <2>3. f = [i \in 0 .. N |-> IF i = 0 THEN b ELSE Step(f[i - 1], i)]
    BY <2>2
  <2> QED BY <2>3, <1>2
<1>5. after = Walk(after)
  BY <1>4
<1>6. processResponse(r, q, n, tab, entries) = after[N]
  BY DEF processResponse, N, Walk
<1> HIDE DEF after
<1>7. after = [i \in 0 .. N |-> IF i = 0 THEN b ELSE Step(after[i - 1], i)]
  BY <1>2, <1>5
<1>8. \A i \in 0 .. N : after[i] \in A
  <2>1. after[0] = b
    BY <1>1, <1>7
  <2>2. ASSUME NEW i \in 1 .. N, after[i - 1] \in A PROVE after[i] \in A
    BY <1>1, <1>7, <2>2
  <2> QED BY <1>1, <2>1, <2>2, WalkStays
<1> QED
  BY <1>1, <1>6, <1>8 DEF A

---------------------------------------------------------------------------
(* Interface routes *)

\* What a table may contain after interface routes were added to it.
Covers(r, S) == (EvenCosts /\ Origins(r) \subseteq S) \/ Dest \X (1 .. Infinity) \subseteq S

\* The cost of an attached network is accounted for.
LEMMA OwnOrigin ==
    ASSUME NEW r \in Router, NEW n \in Attached(r), NEW S, Covers(r, S)
    PROVE  <<n, cost[r][n]>> \in S
<1>1. n \in Dest /\ cost[r][n] \in 1 .. Infinity
  BY AttachedFacts, InfinityType
<1>2. cost[r][n] \in Origin(r, n)
  BY DEF Origin
<1> QED
  BY <1>1, <1>2 DEF Covers, Origins

\* A route-added notification gives a route the cost of its interface.
LEMMA InterfaceRouteAdded ==
    ASSUME NEW r \in Router, NEW n \in Attached(r), NEW S, Covers(r, S),
           NEW tab \in Tables(r, S)
    PROVE  interfaceRouteAdded(r, tab, n) \in Tables(r, S)
<1> DEFINE i == findInterfaceRoute(tab, n)
           x == importRoute(n, "INTERFACE", n, cost[r][n], n)
           y == [tab[i] EXCEPT !.route = n, !.metric = cost[r][n], !.changed = TRUE]
<1>1. n \in Net /\ n \in Dest /\ n # None /\ cost[r][n] \in 1 .. Infinity - 1
  BY AttachedFacts
<1>2. tab \in Seq(Route) /\ DOMAIN tab = 1 .. Len(tab) /\ Len(tab) \in Nat
  BY TableOps
<1>3. i \in 0 .. Len(tab)
  BY <1>2, FindInterfaceRoute
<1>4. CASE i = 0
  <2>1. interfaceRouteAdded(r, tab, n) = Append(tab, x)
    BY <1>4 DEF interfaceRouteAdded
  <2>2. Fine(r, x, S)
    BY <1>1, OwnOrigin, ImportFine
  <2> HIDE DEF x
  <2> QED BY <2>1, <2>2, TableOps
<1>5. CASE i # 0
  <2>1. interfaceRouteAdded(r, tab, n) =
           [tab EXCEPT ![i].route = n, ![i].metric = cost[r][n], ![i].changed = TRUE]
    BY <1>5 DEF interfaceRouteAdded
  <2>2. i \in 1 .. Len(tab)
    <3> HIDE DEF i
    <3> QED BY <1>2, <1>3, <1>5
  <2>3. tab[i].type = "INTERFACE" /\ tab[i].ie = n
    BY <1>2, <1>5, FindInterfaceRoute
  <2> HIDE DEF i
  <2>4. [tab EXCEPT ![i].route = n, ![i].metric = cost[r][n], ![i].changed = TRUE]
          = [tab EXCEPT ![i] = y]
    BY <1>2, <2>2
  <2>5. Fine(r, tab[i], S)
    BY <2>2, TableOps
  <2>6. /\ y \in Route /\ y.metric = cost[r][n] /\ y.route = n /\ y.dest = tab[i].dest
        /\ y.type = "INTERFACE" /\ y.ie = n /\ y.from = tab[i].from
    <3> DEFINE z == tab[i]
    <3>1. z \in Route
      BY <2>5 DEF Fine
    <3> HIDE DEF z
    <3>2. cost[r][n] \in 1 .. Infinity
      BY <1>1, InfinityType
    <3> DEFINE v == [z EXCEPT !.route = n, !.metric = cost[r][n], !.changed = TRUE]
    <3>3. v \in Route
      BY <3>1, <3>2, <1>1 DEF Route
    <3>4. /\ v.metric = cost[r][n] /\ v.route = n /\ v.dest = z.dest
          /\ v.type = z.type /\ v.ie = z.ie /\ v.from = z.from
      BY <3>1 DEF Route
    <3>5. v = y
      BY DEF z
    <3> HIDE DEF v, y
    <3> QED BY <2>3, <3>3, <3>4, <3>5 DEF z
  <2>7. <<tab[i].dest, cost[r][n]>> \in S
    <3>1. CASE EvenCosts
      <4>1. tab[i].dest = n
        BY <2>3, <2>5, <3>1 DEF Fine, Own
      <4> QED BY <4>1, OwnOrigin
    <3>2. CASE ~EvenCosts
      BY <3>2, <2>5, <1>1, InfinityType DEF Covers, Fine, Route
    <3> QED BY <3>1, <3>2
  <2>8. EvenCosts => Own(r, y)
    BY <2>3, <2>5, <2>6 DEF Fine, Own
  <2> HIDE DEF y
  <2>9. Fine(r, y, S)
    BY <1>1, <2>6, <2>7, <2>8, InfinityType DEF Fine
  <2>10. [tab EXCEPT ![i] = y] \in Tables(r, S)
    BY <2>2, <2>9, TableOps
  <2> QED BY <2>1, <2>4, <2>10
<1> QED BY <1>4, <1>5

\* So do all of those a change of the configuration causes, one after the other.
LEMMA UpdateNetmaskRoutes ==
    ASSUME NEW r \in Router, NEW S, Covers(r, S), NEW tab \in Tables(r, S)
    PROVE  updateNetmaskRoutes(r, tab) \in Tables(r, S)
<1> DEFINE N == Len(ifaces[r])
           A == Tables(r, S)
           b == [i \in DOMAIN tab |->
                    IF tab[i].route \in Net THEN invalidateRoute(tab[i]) ELSE tab[i]]
           Step(t, i) == interfaceRouteAdded(r, t, ifaces[r][i])
           g == [p \in (1 .. N) \X A |-> Step(p[2], p[1])]
           Walk(f) == [i \in 0 .. Len(ifaces[r]) |->
                         IF i = 0
                         THEN [k \in DOMAIN tab |->
                                  IF tab[k].route \in Net THEN invalidateRoute(tab[k]) ELSE tab[k]]
                         ELSE Only({interfaceRouteAdded(r, t, ifaces[r][i]) : t \in {f[i - 1]}})]
           after == CHOOSE f : f = Walk(f)
<1>1. N \in Nat /\ b \in A /\ \A i \in 1 .. N, w \in A : Step(w, i) \in A
  <2>1. N \in Nat /\ \A i \in 1 .. N : ifaces[r][i] \in Attached(r)
    BY RIPAssumption DEF RIPAssumption, Attached, Range
  <2>2. b \in A
    <3>1. Len(tab) \in Nat /\ DOMAIN tab = 1 .. Len(tab)
      BY TableOps
    <3>2. \A i \in 1 .. Len(tab) : Fine(r, b[i], S)
      BY <3>1, TableOps, InvalidateFine
    <3> QED BY <3>1, <3>2, MapTable
  <2>3. ASSUME NEW i \in 1 .. N, NEW w \in A PROVE Step(w, i) \in A
    BY <2>1, InterfaceRouteAdded
  <2> QED BY <2>1, <2>2, <2>3
<1>2. ASSUME NEW f PROVE Walk(f) = [i \in 0 .. N |-> IF i = 0 THEN b ELSE Step(f[i - 1], i)]
  <2>1. ASSUME NEW i
        PROVE  Only({interfaceRouteAdded(r, t, ifaces[r][i]) : t \in {f[i - 1]}}) = Step(f[i - 1], i)
    <3>1. {interfaceRouteAdded(r, t, ifaces[r][i]) : t \in {f[i - 1]}} = {Step(f[i - 1], i)}
      OBVIOUS
    <3> QED BY <3>1, OnlyOne
  <2> QED BY <2>1, Zenon
<1> HIDE DEF N, A, b, Step, Walk
<1>3. PICK f \in [0 .. N -> A] : IsWalk(f, N, b, g)
  <2>1. g \in [(1 .. N) \X A -> A]
    BY <1>1
  <2> HIDE DEF g
  <2> QED BY <1>1, <2>1, WalkDefined
<1>4. f = Walk(f)
  <2>1. \A i \in 1 .. N : g[<<i, f[i - 1]>>] = Step(f[i - 1], i)
    BY <1>1
  <2> HIDE DEF g
  <2>2. ASSUME NEW i \in 0 .. N PROVE f[i] = IF i = 0 THEN b ELSE Step(f[i - 1], i)
    <3>1. CASE i = 0
      BY <1>3, <3>1 DEF IsWalk
    <3>2. CASE i # 0
      <4>1. i \in 1 .. N
        BY <1>1, <3>2
      <4> QED BY <1>3, <2>1, <3>2, <4>1 DEF IsWalk
    <3> QED BY <3>1, <3>2
  <2>3. f = [i \in 0 .. N |-> IF i = 0 THEN b ELSE Step(f[i - 1], i)]
    BY <2>2
  <2> QED BY <2>3, <1>2
<1>5. after = Walk(after)
  BY <1>4
<1>6. updateNetmaskRoutes(r, tab) = after[N]
  BY DEF updateNetmaskRoutes, N, Walk
<1> HIDE DEF after
<1>7. after = [i \in 0 .. N |-> IF i = 0 THEN b ELSE Step(after[i - 1], i)]
  BY <1>2, <1>5
<1>8. \A i \in 0 .. N : after[i] \in A
  <2>1. after[0] = b
    BY <1>1, <1>7
  <2>2. ASSUME NEW i \in 1 .. N, after[i - 1] \in A PROVE after[i] \in A
    BY <1>1, <1>7, <2>2
  <2> QED BY <1>1, <2>1, <2>2, WalkStays
<1> QED
  BY <1>1, <1>6, <1>8 DEF A

---------------------------------------------------------------------------
(* Announcements *)

\* Appending and joining lists of entries.
LEMMA EntriesOps ==
    ASSUME NEW S, NEW es \in Entries(S), NEW fs \in Entries(S)
    PROVE  es \o fs \in Entries(S)
<1>1. /\ es \in Seq(Entry) /\ fs \in Seq(Entry)
      /\ Len(es) \in Nat /\ Len(fs) \in Nat
  BY DEF Entries
<1>2. /\ es \o fs \in Seq(Entry) /\ Len(es \o fs) = Len(es) + Len(fs)
      /\ \A i \in 1 .. Len(es) + Len(fs) :
           (es \o fs)[i] = IF i <= Len(es) THEN es[i] ELSE fs[i - Len(es)]
  BY <1>1
<1>3. ASSUME NEW i \in 1 .. Len(es) + Len(fs)
      PROVE  LET e == (es \o fs)[i]
             IN  e.metric = Infinity \/ <<e.dest, e.metric>> \in S
  <2>1. CASE i <= Len(es)
    BY <1>1, <1>2, <2>1 DEF Entries
  <2>2. CASE ~(i <= Len(es))
    <3>1. i - Len(es) \in 1 .. Len(fs)
      BY <1>1, <2>2
    <3> QED BY <1>2, <2>2, <3>1 DEF Entries
  <2> QED BY <2>1, <2>2
<1> QED
  BY <1>2, <1>3 DEF Entries

\* Nothing needs no account.
LEMMA EmptyTable == \A r, S : <<>> \in Tables(r, S) /\ <<>> \in Entries(S)
BY DEF Tables, Entries

\* A route is announced at its metric, or as unreachable.
LEMMA AnnouncedSound ==
    ASSUME NEW r, NEW n, NEW S, NEW x, Fine(r, x, S)
    PROVE  Announced(r, n, x) \in Entries(S)
<1>1. /\ x.dest \in Dest /\ x.metric \in 1 .. Infinity /\ Infinity \in 1 .. Infinity
      /\ x.metric = Infinity \/ <<x.dest, x.metric>> \in S
  BY InfinityType DEF Fine, Route
<1>2. ASSUME NEW m \in {x.metric, Infinity}
      PROVE  <<[dest |-> x.dest, metric |-> m]>> \in Entries(S)
  <2>1. [dest |-> x.dest, metric |-> m] \in Entry
    BY <1>1 DEF Entry
  <2> QED BY <1>1, <2>1 DEF Entries
<1>3. \/ Announced(r, n, x) = <<>>
      \/ \E m \in {x.metric, Infinity} : Announced(r, n, x) = <<[dest |-> x.dest, metric |-> m]>>
  BY DEF Announced
<1> QED
  BY <1>2, <1>3, EmptyTable

\* The state of sendRoutes between two routes.
Sent(r, S) == [tab : Tables(r, S), out : Entries(S), skip : BOOLEAN, expired : BOOLEAN]

\* A visit announces nothing but what the route says, or that it is unreachable.
LEMMA VisitSound ==
    ASSUME NEW r, NEW n, NEW S, NEW w \in Sent(r, S), NEW x, Fine(r, x, S),
           NEW changedOnly \in BOOLEAN
    PROVE  Visit(r, n, w, x, changedOnly) \in Sent(r, S)
<1>1. /\ w = [tab |-> w.tab, out |-> w.out, skip |-> w.skip, expired |-> w.expired]
      /\ w.tab \in Tables(r, S) /\ w.out \in Entries(S)
      /\ w.skip \in BOOLEAN /\ w.expired \in BOOLEAN
  BY DEF Sent
<1>2. /\ Append(w.tab, x) \in Tables(r, S)
      /\ Append(w.tab, invalidateRoute(x)) \in Tables(r, S)
  BY <1>1, TableOps, InvalidateFine
<1>3. w.out \o Announced(r, n, x) \in Entries(S)
  BY <1>1, AnnouncedSound, EntriesOps
<1>4. \/ Visit(r, n, w, x, changedOnly) = [w EXCEPT !.tab = Append(@, x), !.skip = FALSE]
      \/ Visit(r, n, w, x, changedOnly) = [w EXCEPT !.skip = TRUE]
      \/ Visit(r, n, w, x, changedOnly) =
           [w EXCEPT !.tab = Append(@, invalidateRoute(x)), !.expired = TRUE]
      \/ Visit(r, n, w, x, changedOnly) = [w EXCEPT !.tab = Append(@, x)]
      \/ Visit(r, n, w, x, changedOnly) =
           [w EXCEPT !.tab = Append(@, x), !.out = @ \o Announced(r, n, x)]
  BY <1>1 DEF Visit
<1> QED
  BY <1>1, <1>2, <1>3, <1>4 DEF Sent

\* sendRoutes leaves the table and announces entries that were accounted for,
\* whatever it purges and skips on its way.
LEMMA SendRoutes ==
    ASSUME NEW r, NEW n, NEW S, NEW tab \in Tables(r, S), NEW changedOnly \in BOOLEAN
    PROVE  sendRoutes(r, n, tab, changedOnly) \in Sent(r, S)
<1> DEFINE N == Len(tab)
           A == Sent(r, S)
           b == [tab |-> <<>>, out |-> <<>>, skip |-> FALSE, expired |-> FALSE]
           Step(w, i) == Visit(r, n, w, tab[i], changedOnly)
           g == [p \in (1 .. N) \X A |-> Step(p[2], p[1])]
           Walk(f) == [i \in 0 .. Len(tab) |->
                         IF i = 0
                         THEN [tab |-> <<>>, out |-> <<>>, skip |-> FALSE, expired |-> FALSE]
                         ELSE Only({Visit(r, n, w, tab[i], changedOnly) : w \in {f[i - 1]}})]
           after == CHOOSE f : f = Walk(f)
<1>1. N \in Nat /\ b \in A /\ \A i \in 1 .. N, w \in A : Step(w, i) \in A
  <2>1. N \in Nat /\ \A i \in 1 .. N : Fine(r, tab[i], S)
    BY TableOps
  <2>2. b \in A
    BY EmptyTable DEF Sent
  <2>3. ASSUME NEW i \in 1 .. N, NEW w \in A PROVE Step(w, i) \in A
    BY <2>1, VisitSound
  <2> QED BY <2>1, <2>2, <2>3
<1>2. ASSUME NEW f PROVE Walk(f) = [i \in 0 .. N |-> IF i = 0 THEN b ELSE Step(f[i - 1], i)]
  <2>1. ASSUME NEW i
        PROVE  Only({Visit(r, n, w, tab[i], changedOnly) : w \in {f[i - 1]}}) = Step(f[i - 1], i)
    <3>1. {Visit(r, n, w, tab[i], changedOnly) : w \in {f[i - 1]}} = {Step(f[i - 1], i)}
      OBVIOUS
    <3> QED BY <3>1, OnlyOne
  <2> QED BY <2>1, Zenon
<1> HIDE DEF N, A, b, Step, Walk
<1>3. PICK f \in [0 .. N -> A] : IsWalk(f, N, b, g)
  <2>1. g \in [(1 .. N) \X A -> A]
    BY <1>1
  <2> HIDE DEF g
  <2> QED BY <1>1, <2>1, WalkDefined
<1>4. f = Walk(f)
  <2>1. \A i \in 1 .. N : g[<<i, f[i - 1]>>] = Step(f[i - 1], i)
    BY <1>1
  <2> HIDE DEF g
  <2>2. ASSUME NEW i \in 0 .. N PROVE f[i] = IF i = 0 THEN b ELSE Step(f[i - 1], i)
    <3>1. CASE i = 0
      BY <1>3, <3>1 DEF IsWalk
    <3>2. CASE i # 0
      <4>1. i \in 1 .. N
        BY <1>1, <3>2
      <4> QED BY <1>3, <2>1, <3>2, <4>1 DEF IsWalk
    <3> QED BY <3>1, <3>2
  <2>3. f = [i \in 0 .. N |-> IF i = 0 THEN b ELSE Step(f[i - 1], i)]
    BY <2>2
  <2> QED BY <2>3, <1>2
<1>5. after = Walk(after)
  BY <1>4
<1>6. sendRoutes(r, n, tab, changedOnly) = after[N]
  BY DEF sendRoutes, N, Walk
<1> HIDE DEF after
<1>7. after = [i \in 0 .. N |-> IF i = 0 THEN b ELSE Step(after[i - 1], i)]
  BY <1>2, <1>5
<1>8. \A i \in 0 .. N : after[i] \in A
  <2>1. after[0] = b
    BY <1>1, <1>7
  <2>2. ASSUME NEW i \in 1 .. N, after[i - 1] \in A PROVE after[i] \in A
    BY <1>1, <1>7, <2>2
  <2> QED BY <1>1, <2>1, <2>2, WalkStays
<1> QED
  BY <1>1, <1>6, <1>8 DEF A

\* The state of the loop over the interfaces.
SentAll(r, S) ==
    [tab : Tables(r, S), out : [Net -> Entries(S)], expired : BOOLEAN, overrun : BOOLEAN]

\* Whatever is announced on the interfaces, one after the other, was believed before.
LEMMA SendOnAll ==
    ASSUME NEW r \in Router, NEW on, NEW S, NEW tab \in Tables(r, S),
           NEW changedOnly \in BOOLEAN
    PROVE  sendOnAll(r, on, tab, changedOnly) \in SentAll(r, S)
<1> DEFINE N == Len(ifaces[r])
           A == SentAll(r, S)
           b == [tab |-> tab, out |-> [n \in Net |-> <<>>], expired |-> FALSE, overrun |-> FALSE]
           join(w, n, s) ==
             [tab |-> s.tab, out |-> [w.out EXCEPT ![n] = s.out],
              expired |-> w.expired \/ s.expired, overrun |-> w.overrun \/ s.skip]
           send(w, n) ==
             IF n \notin on THEN w
             ELSE Only({join(w, n, s) : s \in {sendRoutes(r, n, w.tab, changedOnly)}})
           Step(w, i) == send(w, ifaces[r][i])
           g == [p \in (1 .. N) \X A |-> Step(p[2], p[1])]
           Walk(f) == [i \in 0 .. Len(ifaces[r]) |->
                         IF i = 0
                         THEN [tab |-> tab, out |-> [n \in Net |-> <<>>],
                               expired |-> FALSE, overrun |-> FALSE]
                         ELSE Only({send(w, ifaces[r][i]) : w \in {f[i - 1]}})]
           after == CHOOSE f : f = Walk(f)
<1>1. N \in Nat /\ b \in A /\ \A i \in 1 .. N, w \in A : Step(w, i) \in A
  <2>1. N \in Nat
    BY RIPAssumption DEF RIPAssumption
  <2>2. b \in A
    BY EmptyTable DEF SentAll
  <2>3. ASSUME NEW w \in A, NEW n PROVE send(w, n) \in A
    <3> DEFINE s == sendRoutes(r, n, w.tab, changedOnly)
    <3>1. w.tab \in Tables(r, S) /\ w.out \in [Net -> Entries(S)]
      BY DEF SentAll
    <3>2. s \in Sent(r, S)
      BY <3>1, SendRoutes
    <3> HIDE DEF s
    <3>3. join(w, n, s) \in A
      <4>1. s.tab \in Tables(r, S) /\ s.out \in Entries(S)
        BY <3>2 DEF Sent
      <4>2. [w.out EXCEPT ![n] = s.out] \in [Net -> Entries(S)]
        BY <3>1, <4>1
      <4> QED BY <4>1, <4>2 DEF SentAll
    <3>4. {join(w, n, v) : v \in {s}} = {join(w, n, s)}
      OBVIOUS
    <3>5. Only({join(w, n, v) : v \in {s}}) = join(w, n, s)
      BY <3>4, OnlyOne
    <3>6. send(w, n) = IF n \notin on THEN w ELSE Only({join(w, n, v) : v \in {s}})
      BY DEF s
    <3> HIDE DEF join, send
    <3> QED BY <3>3, <3>5, <3>6
  <2> QED BY <2>1, <2>2, <2>3
<1>2. ASSUME NEW f PROVE Walk(f) = [i \in 0 .. N |-> IF i = 0 THEN b ELSE Step(f[i - 1], i)]
  <2>1. ASSUME NEW i
        PROVE  Only({send(w, ifaces[r][i]) : w \in {f[i - 1]}}) = Step(f[i - 1], i)
    <3> HIDE DEF send
    <3>1. {send(w, ifaces[r][i]) : w \in {f[i - 1]}} = {send(f[i - 1], ifaces[r][i])}
      OBVIOUS
    <3> QED BY <3>1, OnlyOne
  <2> HIDE DEF send
  <2> QED BY <2>1, Zenon
<1> HIDE DEF N, A, b, Step, Walk, send, join
<1>3. PICK f \in [0 .. N -> A] : IsWalk(f, N, b, g)
  <2>1. g \in [(1 .. N) \X A -> A]
    BY <1>1
  <2> HIDE DEF g
  <2> QED BY <1>1, <2>1, WalkDefined
<1>4. f = Walk(f)
  <2>1. \A i \in 1 .. N : g[<<i, f[i - 1]>>] = Step(f[i - 1], i)
    BY <1>1
  <2> HIDE DEF g
  <2>2. ASSUME NEW i \in 0 .. N PROVE f[i] = IF i = 0 THEN b ELSE Step(f[i - 1], i)
    <3>1. CASE i = 0
      BY <1>3, <3>1 DEF IsWalk
    <3>2. CASE i # 0
      <4>1. i \in 1 .. N
        BY <1>1, <3>2
      <4> QED BY <1>3, <2>1, <3>2, <4>1 DEF IsWalk
    <3> QED BY <3>1, <3>2
  <2>3. f = [i \in 0 .. N |-> IF i = 0 THEN b ELSE Step(f[i - 1], i)]
    BY <2>2
  <2> QED BY <2>3, <1>2
<1>5. after = Walk(after)
  BY <1>4
<1>6. sendOnAll(r, on, tab, changedOnly) = after[N]
  BY DEF sendOnAll, N, Walk, send, join
<1> HIDE DEF after
<1>7. after = [i \in 0 .. N |-> IF i = 0 THEN b ELSE Step(after[i - 1], i)]
  BY <1>2, <1>5
<1>8. \A i \in 0 .. N : after[i] \in A
  <2>1. after[0] = b
    BY <1>1, <1>7
  <2>2. ASSUME NEW i \in 1 .. N, after[i - 1] \in A PROVE after[i] \in A
    BY <1>1, <1>7, <2>2
  <2> QED BY <1>1, <2>1, <2>2, WalkStays
<1> QED
  BY <1>1, <1>6, <1>8 DEF A

---------------------------------------------------------------------------
(* Channels *)

\* The packets of ch are those of chan, fewer of them or in fuller queues, and packets
\* of router r whose entries the set S accounts for.
Speaks(r, S, ch) ==
    /\ ch \in [Channel -> Seq(Packet)]
    /\ \A c \in Channel :
        /\ Len(ch[c]) <= MaxQueue
        /\ \A i \in 1 .. Len(ch[c]) :
            \/ \E j \in 1 .. Len(chan[c]) : ch[c][i] = chan[c][j]
            \/ c[1] = r /\ ch[c][i].entries \in Entries(S)

\* A full channel drops the packet, any other appends it.
LEMMA PutSound ==
    ASSUME NEW c \in Channel, chan \in [Channel -> Seq(Packet)], Len(chan[c]) <= MaxQueue,
           NEW k \in Packet
    PROVE  /\ Put(chan, c, k) \in Seq(Packet) /\ Len(Put(chan, c, k)) <= MaxQueue
           /\ \A i \in 1 .. Len(Put(chan, c, k)) :
                \/ \E j \in 1 .. Len(chan[c]) : Put(chan, c, k)[i] = chan[c][j]
                \/ Put(chan, c, k)[i] = k
<1>0. chan[c] \in Seq(Packet) /\ Len(chan[c]) \in Nat /\ MaxQueue \in Nat
  BY RIPAssumption DEF RIPAssumption
<1>1. CASE Len(chan[c]) < MaxQueue
  <2>1. Put(chan, c, k) = Append(chan[c], k)
    BY <1>1 DEF Put
  <2>2. /\ Append(chan[c], k) \in Seq(Packet)
        /\ Len(Append(chan[c], k)) = Len(chan[c]) + 1
        /\ \A i \in 1 .. Len(chan[c]) + 1 :
             Append(chan[c], k)[i] = IF i = Len(chan[c]) + 1 THEN k ELSE chan[c][i]
    BY <1>0
  <2>3. \A i \in 1 .. Len(chan[c]) + 1 : i # Len(chan[c]) + 1 => i \in 1 .. Len(chan[c])
    BY <1>0
  <2> QED BY <1>0, <1>1, <2>1, <2>2, <2>3
<1>2. CASE ~(Len(chan[c]) < MaxQueue)
  BY <1>0, <1>2 DEF Put
<1> QED BY <1>1, <1>2

\* Requests and responses are packets.
LEMMA PacketTypes ==
    /\ RIPRequest \in Packet /\ \A S : RIPRequest.entries \in Entries(S)
    /\ \A S : \A out \in Entries(S) : RIPResponse(out) \in Packet /\ RIPResponse(out).entries = out
BY EmptyTable DEF RIPRequest, RIPResponse, Packet, Entries

\* Each channel keeps its packets, or gets one more from r.
LEMMA SpeaksMap ==
    ASSUME TypeOK, NEW r, NEW S, NEW ch, ch = [c \in Channel |-> ch[c]],
           \A c \in Channel :
              \/ ch[c] = chan[c]
              \/ c[1] = r /\ \E k \in Packet : k.entries \in Entries(S) /\ ch[c] = Put(chan, c, k)
    PROVE  Speaks(r, S, ch)
<1>1. ASSUME NEW c \in Channel
      PROVE  /\ ch[c] \in Seq(Packet) /\ Len(ch[c]) <= MaxQueue
             /\ \A i \in 1 .. Len(ch[c]) :
                  \/ \E j \in 1 .. Len(chan[c]) : ch[c][i] = chan[c][j]
                  \/ c[1] = r /\ ch[c][i].entries \in Entries(S)
  <2>1. chan \in [Channel -> Seq(Packet)] /\ Len(chan[c]) <= MaxQueue
    BY DEF TypeOK
  <2>2. CASE ch[c] = chan[c]
    BY <2>1, <2>2
  <2>3. CASE c[1] = r /\ \E k \in Packet : k.entries \in Entries(S) /\ ch[c] = Put(chan, c, k)
    <3>1. PICK k \in Packet : k.entries \in Entries(S) /\ ch[c] = Put(chan, c, k)
      BY <2>3
    <3>2. /\ Put(chan, c, k) \in Seq(Packet) /\ Len(Put(chan, c, k)) <= MaxQueue
          /\ \A i \in 1 .. Len(Put(chan, c, k)) :
               \/ \E j \in 1 .. Len(chan[c]) : Put(chan, c, k)[i] = chan[c][j]
               \/ Put(chan, c, k)[i] = k
      BY <2>1, PutSound
    <3> QED BY <2>3, <3>1, <3>2
  <2> QED BY <2>2, <2>3
<1>2. ch \in [Channel -> Seq(Packet)]
  BY <1>1
<1> QED BY <1>1, <1>2 DEF Speaks

\* What r multicasts are its own entries, on its own channels.
LEMMA MulticastSound ==
    ASSUME TypeOK, NEW r, NEW S, NEW out \in [Net -> Entries(S)]
    PROVE  Speaks(r, S, Multicast(r, out))
<1> DEFINE ch == Multicast(r, out)
<1>1. ch = [c \in Channel |-> ch[c]]
  BY DEF Multicast
<1>2. ASSUME NEW c \in Channel
      PROVE  \/ ch[c] = chan[c]
             \/ c[1] = r /\ \E k \in Packet : k.entries \in Entries(S) /\ ch[c] = Put(chan, c, k)
  <2>1. c[3] \in Net
    BY DEF Channel
  <2>2. out[c[3]] \in Entries(S)
    BY <2>1
  <2>3. ch[c] = chan[c] \/ (c[1] = r /\ ch[c] = Put(chan, c, RIPResponse(out[c[3]])))
    BY DEF Multicast
  <2> QED BY <2>2, <2>3, PacketTypes
<1> HIDE DEF ch
<1>3. Speaks(r, S, ch)
  BY <1>1, <1>2, SpeaksMap
<1> QED BY <1>3 DEF ch

\* A request says nothing about a destination.
LEMMA RequestSound ==
    ASSUME TypeOK, NEW r, NEW S, NEW ns
    PROVE  Speaks(r, S, sendRIPRequest(r, ns))
<1> DEFINE ch == sendRIPRequest(r, ns)
<1>1. ch = [c \in Channel |-> ch[c]]
  BY DEF sendRIPRequest
<1>2. ASSUME NEW c \in Channel
      PROVE  \/ ch[c] = chan[c]
             \/ c[1] = r /\ \E k \in Packet : k.entries \in Entries(S) /\ ch[c] = Put(chan, c, k)
  <2>1. ch[c] = chan[c] \/ (c[1] = r /\ ch[c] = Put(chan, c, RIPRequest))
    BY DEF sendRIPRequest
  <2> QED BY <2>1, PacketTypes
<1> HIDE DEF ch
<1>3. Speaks(r, S, ch)
  BY <1>1, <1>2, SpeaksMap
<1> QED BY <1>3 DEF ch

\* A packet is taken from channel c, and r may put one into another.
LEMMA TakeSound ==
    ASSUME TypeOK, NEW c \in Channel, chan[c] # <<>>, NEW r, NEW S
    PROVE  /\ Speaks(r, S, [chan EXCEPT ![c] = Tail(@)])
           /\ \A d \in Channel, k \in Packet :
                d[1] = r /\ k.entries \in Entries(S) =>
                  Speaks(r, S, [[chan EXCEPT ![c] = Tail(@)] EXCEPT ![d] = Put(chan, d, k)])
<1>0. /\ chan \in [Channel -> Seq(Packet)] /\ \A d \in Channel : Len(chan[d]) <= MaxQueue
      /\ MaxQueue \in Nat
  BY RIPAssumption DEF TypeOK, RIPAssumption
<1>1. /\ Tail(chan[c]) \in Seq(Packet) /\ Len(Tail(chan[c])) <= MaxQueue
      /\ \A i \in 1 .. Len(Tail(chan[c])) :
           \E j \in 1 .. Len(chan[c]) : Tail(chan[c])[i] = chan[c][j]
  <2>1. /\ chan[c] \in Seq(Packet) /\ Len(chan[c]) \in Nat \ {0}
        /\ Len(Tail(chan[c])) = Len(chan[c]) - 1 /\ Tail(chan[c]) \in Seq(Packet)
        /\ \A i \in 1 .. Len(chan[c]) - 1 : Tail(chan[c])[i] = chan[c][i + 1]
    BY <1>0
  <2>2. \A i \in 1 .. Len(chan[c]) - 1 : i + 1 \in 1 .. Len(chan[c])
    BY <2>1
  <2> QED BY <1>0, <2>1, <2>2
<1>2. Speaks(r, S, [chan EXCEPT ![c] = Tail(@)])
  BY <1>0, <1>1 DEF Speaks
<1>3. ASSUME NEW d \in Channel, NEW k \in Packet, d[1] = r, k.entries \in Entries(S)
      PROVE  Speaks(r, S, [[chan EXCEPT ![c] = Tail(@)] EXCEPT ![d] = Put(chan, d, k)])
  <2>1. /\ Put(chan, d, k) \in Seq(Packet) /\ Len(Put(chan, d, k)) <= MaxQueue
        /\ \A i \in 1 .. Len(Put(chan, d, k)) :
             \/ \E j \in 1 .. Len(chan[d]) : Put(chan, d, k)[i] = chan[d][j]
             \/ Put(chan, d, k)[i].entries \in Entries(S)
    BY <1>0, <1>3, PutSound
  <2> DEFINE ch == [[chan EXCEPT ![c] = Tail(@)] EXCEPT ![d] = Put(chan, d, k)]
  <2>2. /\ ch = [x \in Channel |-> ch[x]] /\ ch[d] = Put(chan, d, k)
        /\ \A x \in Channel \ {d} : ch[x] = IF x = c THEN Tail(chan[c]) ELSE chan[x]
    BY <1>0
  <2> HIDE DEF ch
  <2>3. ASSUME NEW x \in Channel
        PROVE  /\ ch[x] \in Seq(Packet) /\ Len(ch[x]) <= MaxQueue
               /\ \A i \in 1 .. Len(ch[x]) :
                    \/ \E j \in 1 .. Len(chan[x]) : ch[x][i] = chan[x][j]
                    \/ x[1] = r /\ ch[x][i].entries \in Entries(S)
    <3>1. CASE x = d
      BY <1>3, <2>1, <2>2, <3>1
    <3>2. CASE x # d /\ x = c
      BY <1>1, <2>2, <3>2
    <3>3. CASE x # d /\ x # c
      BY <1>0, <2>2, <3>3
    <3> QED BY <3>1, <3>2, <3>3
  <2>4. ch \in [Channel -> Seq(Packet)]
    BY <2>2, <2>3
  <2>5. Speaks(r, S, ch)
    BY <2>3, <2>4 DEF Speaks
  <2> QED BY <2>5 DEF ch
<1> QED BY <1>2, <1>3

---------------------------------------------------------------------------
(* What a step may do to the tables and to the channels *)

\* What the packets on their way tell router r.
Heards(r) ==
    {b \in Dest \X (1 .. Infinity) :
        \E c \in Channel : \E i \in 1 .. Len(chan[c]) :
            \E j \in 1 .. Len(chan[c][i].entries) :
                LET e == chan[c][i].entries[j]
                IN  c[2] = r /\ b = <<e.dest, Heard(r, c[3], e)>>}

\* What a router may believe after a step.  With uneven costs anything: a route to one
\* network can get the metric of the interface to another.
Reasons(r) ==
    IF EvenCosts THEN Beliefs(ripRoutes[r]) \union Origins(r) \union Heards(r)
                 ELSE Dest \X (1 .. Infinity)

\* The inductive invariant: types, stopped routers are quiet, and a route of any
\* table is in the IPv4 routing table exactly when its metric is finite.
RIPInv ==
    /\ TypeOK /\ QuietWhenStopped
    /\ \A r \in Router : ripRoutes[r] \in Tables(r, Beliefs(ripRoutes[r]))

\* Router r moves.
Moves(r) ==
    /\ \E tab \in Tables(r, Reasons(r)) : ripRoutes' = [ripRoutes EXCEPT ![r] = tab]
    /\ Speaks(r, Beliefs(ripRoutes[r]), chan')

\* A table accounts for itself.
LEMMA TablesBeliefs ==
    ASSUME NEW r, NEW S, NEW tab \in Tables(r, S)
    PROVE  tab \in Tables(r, Beliefs(tab))
<1>1. DOMAIN tab = 1 .. Len(tab) /\ tab \in Seq(Route) /\ \A i \in 1 .. Len(tab) : Fine(r, tab[i], S)
  BY TableOps
<1>2. \A i \in 1 .. Len(tab) : <<tab[i].dest, tab[i].metric>> \in Beliefs(tab)
  BY <1>1 DEF Beliefs, Range
<1>3. \A i \in 1 .. Len(tab) : Fine(r, tab[i], Beliefs(tab))
  BY <1>1, <1>2 DEF Fine
<1> QED
  BY <1>1, <1>3 DEF Tables

\* Beliefs are destinations with metrics.
LEMMA BeliefsType ==
    ASSUME NEW tab \in Seq(Route)
    PROVE  Beliefs(tab) \subseteq Dest \X (1 .. Infinity)
<1>1. \A x \in Range(tab) : x \in Route
  BY DEF Range
<1> QED
  BY <1>1 DEF Beliefs, Route

\* In a state of the invariant, the table of a router is accounted for.
LEMMA Start ==
    ASSUME RIPInv, NEW r \in Router
    PROVE  /\ ripRoutes[r] \in Tables(r, Beliefs(ripRoutes[r]))
           /\ Beliefs(ripRoutes[r]) \subseteq Reasons(r)
           /\ ripRoutes[r] \in Tables(r, Reasons(r))
           /\ Covers(r, Reasons(r)) /\ Heards(r) \subseteq Reasons(r)
<1>1. ripRoutes[r] \in Seq(Route)
  BY DEF RIPInv, TypeOK
<1>2. Beliefs(ripRoutes[r]) \subseteq Reasons(r)
  BY <1>1, BeliefsType DEF Reasons
<1>3. ripRoutes[r] \in Tables(r, Beliefs(ripRoutes[r]))
  BY DEF RIPInv
<1>4. ripRoutes[r] \in Tables(r, Reasons(r))
  BY <1>2, <1>3, TablesMonotone
<1>5. Covers(r, Reasons(r)) /\ Heards(r) \subseteq Reasons(r)
  BY DEF Covers, Reasons, Heards
<1> QED
  BY <1>2, <1>3, <1>4, <1>5

\* A router may say nothing.
LEMMA Silent ==
    ASSUME TypeOK, NEW r, NEW S
    PROVE  Speaks(r, S, chan)
BY DEF TypeOK, Speaks

\* configureInitialRoutes imports routes at the costs of their interfaces.
LEMMA ConfigureSound ==
    ASSUME NEW r \in Router, NEW S, Covers(r, S)
    PROVE  configureInitialRoutes(r) \in Tables(r, S)
<1> DEFINE t == [i \in DOMAIN ifaces[r] |->
                    LET n == ifaces[r][i] IN importRoute(n, "INTERFACE", n, cost[r][n], n)]
           u == [i \in DOMAIN static[r] |->
                    importRoute(static[r][i][1], "STATIC", static[r][i][2], 1, "static")]
<1>1. ifaces[r] \in Seq(Net) /\ static[r] \in Seq(Dest \X Attached(r))
  BY RIPAssumption DEF RIPAssumption
<1>2. t \in Tables(r, S)
  <2>1. Len(ifaces[r]) \in Nat /\ DOMAIN ifaces[r] = 1 .. Len(ifaces[r])
    BY <1>1
  <2>2. \A i \in 1 .. Len(ifaces[r]) : ifaces[r][i] \in Attached(r)
    BY <2>1 DEF Attached, Range
  <2>3. ASSUME NEW i \in 1 .. Len(ifaces[r]) PROVE Fine(r, t[i], S)
    <3> DEFINE n == ifaces[r][i]
    <3>1. n \in Attached(r) /\ n \in Net /\ n \in Dest /\ cost[r][n] \in 1 .. Infinity - 1
      BY <2>2, AttachedFacts
    <3>2. <<n, cost[r][n]>> \in S
      BY <3>1, OwnOrigin
    <3>3. t[i] = importRoute(n, "INTERFACE", n, cost[r][n], n)
      BY <2>1
    <3> HIDE DEF n, t
    <3>4. Fine(r, importRoute(n, "INTERFACE", n, cost[r][n], n), S)
      BY <3>1, <3>2, ImportFine
    <3> QED BY <3>3, <3>4
  <2>4. t = [i \in 1 .. Len(ifaces[r]) |-> t[i]]
    BY <2>1
  <2> HIDE DEF t
  <2> QED BY <2>1, <2>3, <2>4, MapTable
<1>3. u \in Tables(r, S)
  <2>1. Len(static[r]) \in Nat /\ DOMAIN static[r] = 1 .. Len(static[r])
    BY <1>1
  <2>3. ASSUME NEW i \in 1 .. Len(static[r]) PROVE Fine(r, u[i], S)
    <3> DEFINE d == static[r][i][1]
               n == static[r][i][2]
    <3>1. d \in Dest /\ n \in Attached(r)
      BY <1>1
    <3>2. n \in Net /\ 1 \in 1 .. Infinity - 1
      BY <3>1, AttachedFacts, InfinityType
    <3>3. 1 \in Origin(r, d)
      BY <2>1 DEF Origin
    <3>4. <<d, 1>> \in S
      <4>1. <<d, 1>> \in Dest \X (1 .. Infinity)
        BY <3>1, <3>2, InfinityType
      <4> QED BY <3>3, <4>1 DEF Covers, Origins
    <3>5. u[i] = importRoute(d, "STATIC", n, 1, "static")
      BY <2>1
    <3> HIDE DEF d, n, u
    <3>6. Fine(r, importRoute(d, "STATIC", n, 1, "static"), S)
      BY <3>1, <3>2, <3>4, ImportFine
    <3> QED BY <3>5, <3>6
  <2>4. u = [i \in 1 .. Len(static[r]) |-> u[i]]
    BY <2>1
  <2> HIDE DEF u
  <2> QED BY <2>1, <2>3, <2>4, MapTable
<1>4. configureInitialRoutes(r) = t \o u
  BY DEF configureInitialRoutes
<1> HIDE DEF t, u
<1>5. t \o u \in Tables(r, S)
  <2>1. /\ t \in Seq(Route) /\ u \in Seq(Route) /\ Len(t) \in Nat /\ Len(u) \in Nat
        /\ \A i \in 1 .. Len(t) : Fine(r, t[i], S)
        /\ \A i \in 1 .. Len(u) : Fine(r, u[i], S)
    BY <1>2, <1>3, TableOps
  <2>2. /\ t \o u \in Seq(Route) /\ Len(t \o u) = Len(t) + Len(u)
        /\ \A i \in 1 .. Len(t) + Len(u) :
             (t \o u)[i] = IF i <= Len(t) THEN t[i] ELSE u[i - Len(t)]
    BY <2>1
  <2>3. ASSUME NEW i \in 1 .. Len(t) + Len(u) PROVE Fine(r, (t \o u)[i], S)
    <3>1. CASE i <= Len(t)
      BY <2>1, <2>2, <3>1
    <3>2. CASE ~(i <= Len(t))
      <4>1. i - Len(t) \in 1 .. Len(u)
        BY <2>1, <3>2
      <4> QED BY <2>1, <2>2, <3>2, <4>1
    <3> QED BY <3>1, <3>2
  <2> QED BY <2>2, <2>3 DEF Tables
<1> QED BY <1>4, <1>5

---------------------------------------------------------------------------
(* One lemma per action: some router moves, and the invariant holds afterwards *)

\* The rest of the state: its type, and routers that do not run are quiet.
RestOK ==
    /\ status \in [Router -> {"off", "starting", "running", "stopping"}]
    /\ triggered \in [Router -> BOOLEAN]
    /\ DOMAIN ifUp = Router
    /\ \A r \in Router : ifUp[r] \in [Attached(r) -> BOOLEAN]
    /\ aborted \in BOOLEAN
    /\ faults \in 0 .. MaxFaults
    /\ QuietWhenStopped

\* A move of one router keeps the invariant.
LEMMA MovesInv ==
    ASSUME RIPInv, NEW r \in Router, Moves(r), RestOK'
    PROVE  RIPInv'
<1>1. PICK tab \in Tables(r, Reasons(r)) : ripRoutes' = [ripRoutes EXCEPT ![r] = tab]
  BY DEF Moves
<1>2. ripRoutes \in [Router -> Seq(Route)]
  BY DEF RIPInv, TypeOK
<1>3. tab \in Seq(Route) /\ tab \in Tables(r, Beliefs(tab))
  BY <1>1, TableOps, TablesBeliefs
<1>4. ripRoutes' \in [Router -> Seq(Route)]
  BY <1>1, <1>2, <1>3
<1>5. ASSUME NEW q \in Router PROVE ripRoutes'[q] \in Tables(q, Beliefs(ripRoutes'[q]))
  <2>1. CASE q = r
    BY <1>1, <1>2, <1>3, <2>1
  <2>2. CASE q # r
    <3>1. ripRoutes'[q] = ripRoutes[q]
      BY <1>1, <1>2, <2>2
    <3> QED BY <3>1 DEF RIPInv
  <2> QED BY <2>1, <2>2
<1>6. /\ chan' \in [Channel -> Seq(Packet)]
      /\ \A c \in Channel : Len(chan'[c]) <= MaxQueue
  BY DEF Moves, Speaks
<1> QED
  BY <1>4, <1>5, <1>6 DEF RIPInv, RestOK, TypeOK

\* A channel joins two routers over a network both are attached to.
LEMMA ChannelFacts ==
    ASSUME NEW c \in Channel
    PROVE  /\ c[1] \in Router /\ c[2] \in Router /\ c[1] # c[2] /\ c[3] \in Net
           /\ c[3] \in Attached(c[1]) /\ c[3] \in Attached(c[2])
           /\ <<c[2], c[1], c[3]>> \in Channel
BY DEF Channel

\* The router starts: initial routes and requests.
LEMMA StartStep ==
    ASSUME RIPInv, NEW r \in Router, startRIPRouting(r)
    PROVE  Moves(r) /\ RIPInv'
<1>1. configureInitialRoutes(r) \in Tables(r, Reasons(r))
  BY Start, ConfigureSound
<1>2. Speaks(r, Beliefs(ripRoutes[r]), chan')
  BY RequestSound DEF startRIPRouting, RIPInv
<1>3. Moves(r)
  BY <1>1, <1>2 DEF startRIPRouting, Moves
<1>4. RestOK'
  BY DEF startRIPRouting, RIPInv, TypeOK, QuietWhenStopped, RestOK
<1> QED BY <1>3, <1>4, MovesInv

\* The update timer and the triggered update: sendRoutes on all interfaces.
LEMMA UpdateStep ==
    ASSUME RIPInv, NEW r \in Router, NEW changedOnly \in BOOLEAN,
           processUpdate(r, changedOnly)
    PROVE  Moves(r) /\ RIPInv'
<1> DEFINE s == sendOnAll(r, ripInterfaces(r), ripRoutes[r], changedOnly)
           tab == [i \in DOMAIN s.tab |-> [s.tab[i] EXCEPT !.changed = FALSE]]
           S == Beliefs(ripRoutes[r])
<1>1. s \in SentAll(r, S)
  BY Start, SendOnAll
<1>2. /\ ripRoutes' = [ripRoutes EXCEPT ![r] = tab]
      /\ chan' = Multicast(r, s.out) /\ aborted' = s.overrun
      /\ \E b \in {TRUE, FALSE} : triggered' = [triggered EXCEPT ![r] = b]
      /\ status[r] = "running" /\ UNCHANGED <<status, ifUp, faults>>
  BY DEF processUpdate
<1> HIDE DEF s
<1>3. s.tab \in Tables(r, S) /\ s.out \in [Net -> Entries(S)] /\ s.overrun \in BOOLEAN
  BY <1>1 DEF SentAll
<1>4. tab \in Tables(r, S)
  <2>1. Len(s.tab) \in Nat /\ DOMAIN s.tab = 1 .. Len(s.tab)
        /\ \A i \in 1 .. Len(s.tab) : Fine(r, s.tab[i], S)
    BY <1>3, TableOps
  <2>2. ASSUME NEW i \in 1 .. Len(s.tab) PROVE Fine(r, tab[i], S)
    <3>1. tab[i] = [s.tab[i] EXCEPT !.changed = FALSE]
      BY <2>1
    <3>2. Fine(r, [s.tab[i] EXCEPT !.changed = FALSE], S)
      BY <2>1, TouchFine
    <3> QED BY <3>1, <3>2
  <2>3. tab = [i \in 1 .. Len(s.tab) |-> tab[i]]
    BY <2>1
  <2> HIDE DEF tab
  <2> QED BY <2>1, <2>2, <2>3, MapTable
<1>5. tab \in Tables(r, Reasons(r))
  BY <1>4, Start, TablesMonotone
<1>6. Speaks(r, S, chan')
  BY <1>2, <1>3, MulticastSound DEF RIPInv
<1> HIDE DEF tab
<1>7. Moves(r)
  BY <1>2, <1>5, <1>6 DEF Moves
<1>8. RestOK'
  BY <1>2, <1>3 DEF RIPInv, TypeOK, QuietWhenStopped, RestOK
<1> QED BY <1>7, <1>8, MovesInv

\* A router may always keep its table and be silent.
LEMMA KeepTable ==
    ASSUME RIPInv, NEW r \in Router, UNCHANGED ripRoutes,
           Speaks(r, Beliefs(ripRoutes[r]), chan')
    PROVE  Moves(r)
<1>1. ripRoutes \in [Router -> Seq(Route)] /\ ripRoutes[r] \in Tables(r, Reasons(r))
  BY Start DEF RIPInv, TypeOK
<1>2. ripRoutes' = [ripRoutes EXCEPT ![r] = ripRoutes[r]]
  BY <1>1
<1> QED BY <1>1, <1>2 DEF Moves

\* The shutdown ends: the table is gone.
LEMMA ShutdownTimeoutStep ==
    ASSUME RIPInv, NEW r \in Router, shutdownTimeout(r)
    PROVE  Moves(r) /\ RIPInv'
<1>1. Moves(r)
  BY KeepTable, Silent DEF shutdownTimeout, RIPInv
<1>2. RestOK'
  BY DEF shutdownTimeout, RIPInv, TypeOK, QuietWhenStopped, RestOK
<1> QED BY <1>1, <1>2, MovesInv

\* The node comes up; RIP waits for its startup timer.
LEMMA NodeStartStep ==
    ASSUME RIPInv, NEW r \in Router, NodeStart(r)
    PROVE  Moves(r) /\ RIPInv'
<1>1. Moves(r)
  BY KeepTable, Silent DEF NodeStart, RIPInv
<1>2. RestOK'
  BY DEF NodeStart, RIPInv, TypeOK, QuietWhenStopped, RestOK
<1> QED BY <1>1, <1>2, MovesInv

\* The faults are counted.
LEMMA FaultType == TypeOK /\ Fault => faults' \in 0 .. MaxFaults
BY RIPAssumption DEF TypeOK, Fault, RIPAssumption

\* The node crashes: the table is gone, packets on their way are not.
LEMMA NodeCrashStep ==
    ASSUME RIPInv, NEW r \in Router, NodeCrash(r)
    PROVE  Moves(r) /\ RIPInv'
<1>1. Moves(r)
  BY EmptyTable, Silent DEF NodeCrash, RIPInv, Moves
<1>2. RestOK'
  BY FaultType DEF NodeCrash, RIPInv, TypeOK, QuietWhenStopped, RestOK
<1> QED BY <1>1, <1>2, MovesInv

\* The node shuts down: all routes are invalidated and announced so.
LEMMA NodeShutdownStep ==
    ASSUME RIPInv, NEW r \in Router, NodeShutdown(r)
    PROVE  Moves(r) /\ RIPInv'
<1> DEFINE tab == [i \in DOMAIN ripRoutes[r] |-> invalidateRoute(ripRoutes[r][i])]
           on == IF status[r] = "running" THEN Attached(r) ELSE {}
           s == sendOnAll(r, on, tab, FALSE)
           S == Beliefs(ripRoutes[r])
<1>1. /\ Fault /\ status' = [status EXCEPT ![r] = "stopping"]
      /\ ripRoutes' = [ripRoutes EXCEPT ![r] = <<>>]
      /\ triggered' = [triggered EXCEPT ![r] = FALSE]
      /\ chan' = Multicast(r, s.out) /\ aborted' = s.overrun /\ UNCHANGED ifUp
  BY DEF NodeShutdown
<1>2. tab \in Tables(r, S)
  <2>1. /\ DOMAIN ripRoutes[r] = 1 .. Len(ripRoutes[r]) /\ Len(ripRoutes[r]) \in Nat
        /\ \A i \in 1 .. Len(ripRoutes[r]) : Fine(r, ripRoutes[r][i], S)
    BY Start, TableOps
  <2>2. \A i \in 1 .. Len(ripRoutes[r]) : Fine(r, tab[i], S)
    BY <2>1, InvalidateFine
  <2>3. tab = [i \in 1 .. Len(ripRoutes[r]) |-> tab[i]]
    BY <2>1
  <2> HIDE DEF tab
  <2> QED BY <2>1, <2>2, <2>3, MapTable
<1> HIDE DEF tab, on
<1>3. s \in SentAll(r, S)
  BY <1>2, SendOnAll
<1> HIDE DEF s
<1>4. s.out \in [Net -> Entries(S)] /\ s.overrun \in BOOLEAN
  BY <1>3 DEF SentAll
<1>5. Speaks(r, S, chan')
  BY <1>1, <1>4, MulticastSound DEF RIPInv
<1>6. Moves(r)
  BY <1>1, <1>5, EmptyTable DEF Moves
<1>7. RestOK'
  BY <1>1, <1>4, FaultType DEF RIPInv, TypeOK, QuietWhenStopped, RestOK
<1> QED BY <1>6, <1>7, MovesInv

\* triggerUpdate touches one timer, and only if there is news.
LEMMA TriggerType ==
    ASSUME TypeOK, NEW r \in Router, NEW news, triggerUpdate(r, news)
    PROVE  /\ triggered' \in [Router -> BOOLEAN]
           /\ \A q \in Router : triggered'[q] => triggered[q] \/ (q = r /\ news)
BY DEF TypeOK, triggerUpdate

\* The configuration changes: interface routes get their costs again.
LEMMA ConfigChangedStep ==
    ASSUME RIPInv, NEW r \in Router, IPv4ConfigChanged(r)
    PROVE  Moves(r) /\ RIPInv'
<1>1. updateNetmaskRoutes(r, ripRoutes[r]) \in Tables(r, Reasons(r))
  BY Start, UpdateNetmaskRoutes
<1>2. Speaks(r, Beliefs(ripRoutes[r]), chan')
  BY Silent DEF IPv4ConfigChanged, RIPInv
<1>3. ripRoutes' = [ripRoutes EXCEPT ![r] = updateNetmaskRoutes(r, ripRoutes[r])]
  BY DEF IPv4ConfigChanged
<1>4. Moves(r)
  BY <1>1, <1>2, <1>3 DEF Moves
<1>5. /\ triggered' \in [Router -> BOOLEAN]
      /\ \A q \in Router : triggered'[q] => triggered[q] \/ q = r
  BY TriggerType DEF IPv4ConfigChanged, RIPInv
<1>6. RestOK'
  BY <1>3, <1>5, FaultType DEF IPv4ConfigChanged, RIPInv, TypeOK, QuietWhenStopped, RestOK
<1> QED BY <1>4, <1>6, MovesInv

\* An interface goes down: the routes over it are invalidated.
LEMMA InterfaceDownStep ==
    ASSUME RIPInv, NEW r \in Router, NEW n \in Attached(r), InterfaceDown(r, n)
    PROVE  Moves(r) /\ RIPInv'
<1> DEFINE tab == invalidateRoutes(ripRoutes[r], n)
           S == Beliefs(ripRoutes[r])
<1>1. /\ Fault /\ ifUp' = [ifUp EXCEPT ![r][n] = FALSE]
      /\ ripRoutes' = [ripRoutes EXCEPT ![r] = tab]
      /\ triggerUpdate(r, \E i \in DOMAIN ripRoutes[r] : ripRoutes[r][i].ie = n)
      /\ UNCHANGED <<status, chan, aborted>>
  BY DEF InterfaceDown
<1>0. /\ DOMAIN ripRoutes[r] = 1 .. Len(ripRoutes[r]) /\ Len(ripRoutes[r]) \in Nat
      /\ \A i \in 1 .. Len(ripRoutes[r]) : Fine(r, ripRoutes[r][i], S)
  BY Start, TableOps
<1>2. tab \in Tables(r, S)
  <2>2. \A i \in 1 .. Len(ripRoutes[r]) : Fine(r, tab[i], S)
    BY <1>0, InvalidateFine DEF invalidateRoutes
  <2>3. tab = [i \in 1 .. Len(ripRoutes[r]) |-> tab[i]]
    BY <1>0 DEF invalidateRoutes
  <2> HIDE DEF tab
  <2> QED BY <1>0, <2>2, <2>3, MapTable
<1>3. tab \in Tables(r, Reasons(r))
  BY <1>2, Start, TablesMonotone
<1>4. Speaks(r, S, chan')
  BY <1>1, Silent DEF RIPInv
<1>5. Moves(r)
  <2> HIDE DEF tab
  <2> QED BY <1>1, <1>3, <1>4 DEF Moves
<1>6. RestOK'
  <2>1. status[r] # "running" => DOMAIN ripRoutes[r] = {} /\ tab = <<>>
    BY DEF RIPInv, QuietWhenStopped, invalidateRoutes
  <2> DEFINE news == \E i \in DOMAIN ripRoutes[r] : ripRoutes[r][i].ie = n
  <2>2. status[r] # "running" => ~news
    BY <2>1
  <2> HIDE DEF tab, news
  <2>3. /\ triggered' \in [Router -> BOOLEAN]
        /\ \A q \in Router : triggered'[q] => triggered[q] \/ (q = r /\ news)
    BY <1>1, TriggerType DEF RIPInv, news
  <2>4. QuietWhenStopped'
    BY <1>1, <2>1, <2>2, <2>3 DEF RIPInv, TypeOK, QuietWhenStopped
  <2>5. faults' \in 0 .. MaxFaults
    BY <1>1, FaultType DEF RIPInv
  <2>6. DOMAIN ifUp' = Router /\ \A q \in Router : ifUp'[q] \in [Attached(q) -> BOOLEAN]
    BY <1>1 DEF RIPInv, TypeOK
  <2> QED BY <1>1, <2>3, <2>4, <2>5, <2>6 DEF RIPInv, TypeOK, RestOK
<1> QED BY <1>5, <1>6, MovesInv

\* An interface comes up: its route is added or gets its metric back.
LEMMA InterfaceUpStep ==
    ASSUME RIPInv, NEW r \in Router, NEW n \in Attached(r), InterfaceUp(r, n)
    PROVE  Moves(r) /\ RIPInv'
<1>1. Speaks(r, Beliefs(ripRoutes[r]), chan')
  BY RequestSound, Silent DEF InterfaceUp, RIPInv
<1>2. Moves(r)
  BY <1>1, KeepTable DEF InterfaceUp
<1>3. DOMAIN ifUp' = Router /\ \A q \in Router : ifUp'[q] \in [Attached(q) -> BOOLEAN]
  BY DEF InterfaceUp, RIPInv, TypeOK
<1>4. RestOK'
  BY <1>3 DEF InterfaceUp, RIPInv, TypeOK, QuietWhenStopped, RestOK
<1> QED BY <1>2, <1>4, MovesInv

\* Time passes for a route.
LEMMA AgesStep ==
    ASSUME RIPInv, NEW r \in Router, NEW i \in DOMAIN ripRoutes[r], Ages(r, i)
    PROVE  Moves(r) /\ RIPInv'
<1> DEFINE x == ripRoutes[r][i]
           a == IF x.age = "fresh" THEN "expired" ELSE "purgeable"
           y == [x EXCEPT !.age = a]
           tab == [ripRoutes[r] EXCEPT ![i] = y]
           S == Beliefs(ripRoutes[r])
<1>1. /\ DOMAIN ripRoutes[r] = 1 .. Len(ripRoutes[r]) /\ ripRoutes[r] \in Tables(r, S)
      /\ Fine(r, x, S) /\ ripRoutes \in [Router -> Seq(Route)]
  <2>1. ripRoutes[r] \in Tables(r, S) /\ ripRoutes \in [Router -> Seq(Route)]
    BY Start DEF RIPInv, TypeOK
  <2>2. /\ DOMAIN ripRoutes[r] = 1 .. Len(ripRoutes[r])
        /\ \A j \in 1 .. Len(ripRoutes[r]) : Fine(r, ripRoutes[r][j], S)
    BY <2>1, TableOps
  <2> QED BY <2>1, <2>2
<1>2. /\ ripRoutes' = [ripRoutes EXCEPT ![r][i].age =
                          IF @ = "fresh" THEN "expired" ELSE "purgeable"]
      /\ UNCHANGED <<status, triggered, ifUp, chan, aborted, faults>>
  BY DEF Ages
<1>3. ripRoutes' = [ripRoutes EXCEPT ![r] = tab]
  BY <1>1, <1>2
<1>4. tab \in Tables(r, S)
  <2>1. Fine(r, y, S)
    BY <1>1, TouchFine
  <2> HIDE DEF y
  <2> QED BY <1>1, <2>1, TableOps
<1> HIDE DEF tab
<1>5. tab \in Tables(r, Reasons(r))
  BY <1>4, Start, TablesMonotone
<1>6. Moves(r)
  BY <1>2, <1>3, <1>5, Silent DEF Moves, RIPInv
<1>7. RestOK'
  <2>1. ripRoutes[r] # <<>>
    OBVIOUS
  <2>2. status[r] = "running"
    BY <2>1 DEF RIPInv, QuietWhenStopped
  <2> QED BY <1>1, <1>2, <1>3, <2>2 DEF RIPInv, TypeOK, QuietWhenStopped, RestOK
<1> QED BY <1>6, <1>7, MovesInv

\* A packet is lost.
LEMMA LoseStep ==
    ASSUME RIPInv, NEW c \in Channel, Lose(c)
    PROVE  Moves(c[1]) /\ RIPInv'
<1>1. c[1] \in Router
  BY ChannelFacts
<1>2. Speaks(c[1], Beliefs(ripRoutes[c[1]]), chan')
  BY TakeSound DEF Lose, RIPInv
<1>3. Moves(c[1])
  BY <1>1, <1>2, KeepTable DEF Lose
<1>4. RestOK'
  BY FaultType DEF Lose, RIPInv, TypeOK, QuietWhenStopped, RestOK
<1> QED BY <1>1, <1>3, <1>4, MovesInv

\* A packet arrives: a request is answered, a response is processed, and a
\* router that does not run drops it.
LEMMA HandleMessageStep ==
    ASSUME RIPInv, NEW c \in Channel, handleMessage(c)
    PROVE  Moves(c[2]) /\ RIPInv'
<1> DEFINE q == c[1]
           r == c[2]
           n == c[3]
           k == Head(chan[c])
           taken == [chan EXCEPT ![c] = Tail(@)]
           S == Beliefs(ripRoutes[r])
<1>0. /\ q \in Router /\ r \in Router /\ n \in Attached(r) /\ n \in Net
      /\ <<r, q, n>> \in Channel
  BY ChannelFacts
<1>1. /\ chan[c] # <<>> /\ TypeOK /\ chan \in [Channel -> Seq(Packet)]
      /\ ripRoutes \in [Router -> Seq(Route)] /\ UNCHANGED <<status, ifUp, faults>>
  BY DEF handleMessage, RIPInv, TypeOK
<1>2. k \in Packet /\ k = chan[c][1] /\ 1 \in 1 .. Len(chan[c])
  BY <1>1
<1>3. Speaks(r, S, taken)
  BY <1>1, TakeSound
<1>4. CASE /\ chan' = taken
           /\ UNCHANGED <<ripRoutes, triggered, aborted>>
  <2>1. Moves(r)
    <3> HIDE DEF r, taken
    <3> QED BY <1>0, <1>3, <1>4, KeepTable
  <2>2. RestOK'
    BY <1>1, <1>4 DEF RIPInv, TypeOK, QuietWhenStopped, RestOK
  <2> HIDE DEF r
  <2>3. RIPInv'
    BY <1>0, <2>1, <2>2, MovesInv
  <2> QED BY <2>1, <2>3 DEF r
<1>5. CASE /\ status[r] = "running"
           /\ \E s \in {sendRoutes(r, n, ripRoutes[r], FALSE)} :
                LET back == <<r, q, n>>
                    reachable == \E x \in Range(ripRoutes[r]) :
                                    x.dest = n /\ x.ie = n /\ x.route # None
                IN  /\ ripRoutes' = [ripRoutes EXCEPT ![r] = s.tab]
                    /\ chan' = IF s.out # <<>> /\ reachable
                               THEN [taken EXCEPT ![back] = Put(chan, back, RIPResponse(s.out))]
                               ELSE taken
                    /\ aborted' = s.skip
                    /\ triggerUpdate(r, s.expired)
  <2> DEFINE s == sendRoutes(r, n, ripRoutes[r], FALSE)
             back == <<r, q, n>>
  <2>1. /\ ripRoutes' = [ripRoutes EXCEPT ![r] = s.tab]
        /\ \/ chan' = [taken EXCEPT ![back] = Put(chan, back, RIPResponse(s.out))]
           \/ chan' = taken
        /\ aborted' = s.skip /\ triggerUpdate(r, s.expired)
    BY <1>5
  <2>2. s \in Sent(r, S)
    BY <1>0, Start, SendRoutes
  <2> HIDE DEF s
  <2>3. /\ s.tab \in Tables(r, S) /\ s.out \in Entries(S)
        /\ s.skip \in BOOLEAN /\ s.expired \in BOOLEAN
    BY <2>2 DEF Sent
  <2>4. Speaks(r, S, chan')
    <3>1. RIPResponse(s.out) \in Packet /\ RIPResponse(s.out).entries \in Entries(S)
      BY <2>3, PacketTypes
    <3>2. back \in Channel /\ back[1] = r
      BY <1>0
    <3>3. Speaks(r, S, [[chan EXCEPT ![c] = Tail(@)] EXCEPT ![back] = Put(chan, back, RIPResponse(s.out))])
      <4> HIDE DEF back, r
      <4> QED BY <1>1, <3>1, <3>2, TakeSound
    <3> HIDE DEF back, r
    <3> QED BY <1>3, <2>1, <3>3
  <2>5. s.tab \in Tables(r, Reasons(r))
    BY <1>0, <2>3, Start, TablesMonotone
  <2>6. Moves(r)
    BY <2>1, <2>4, <2>5 DEF Moves
  <2> HIDE DEF r, back
  <2>7. /\ triggered' \in [Router -> BOOLEAN]
        /\ \A p \in Router : triggered'[p] => triggered[p] \/ p = r
    BY <1>0, <1>1, <2>1, TriggerType
  <2>8. RestOK'
    BY <1>0, <1>1, <1>5, <2>1, <2>3, <2>7 DEF RIPInv, TypeOK, QuietWhenStopped, RestOK
  <2>9. RIPInv'
    BY <1>0, <2>6, <2>8, MovesInv
  <2> QED BY <2>6, <2>9 DEF r
<1>6. CASE /\ status[r] = "running"
           /\ \E w \in {processResponse(r, q, n, ripRoutes[r], k.entries)} :
                 /\ ripRoutes' = [ripRoutes EXCEPT ![r] = w.tab]
                 /\ triggerUpdate(r, w.news)
           /\ chan' = taken
           /\ UNCHANGED aborted
  <2> DEFINE w == processResponse(r, q, n, ripRoutes[r], k.entries)
             T == Reasons(r)
  <2>1. /\ ripRoutes' = [ripRoutes EXCEPT ![r] = w.tab]
        /\ triggerUpdate(r, w.news)
    BY <1>6
  <2>2. k.entries \in Seq(Entry)
    BY <1>2 DEF Packet
  <2>3. ASSUME NEW i \in 1 .. Len(k.entries)
        PROVE  <<k.entries[i].dest, Heard(r, n, k.entries[i])>> \in T
    <3>1. k.entries[i] \in Entry
      BY <2>2
    <3>2. k.entries[i].dest \in Dest /\ Heard(r, n, k.entries[i]) \in 1 .. Infinity
      BY <1>0, <3>1, HeardType DEF Entry
    <3>3. <<k.entries[i].dest, Heard(r, n, k.entries[i])>> \in Heards(r)
      BY <1>2, <3>2 DEF Heards
    <3> QED BY <1>0, <3>3, Start
  <2>4. w \in Response(r, T)
    <3>1. ripRoutes[r] \in Tables(r, T)
      BY <1>0, Start
    <3> HIDE DEF T, k, r, q, n
    <3> QED BY <1>0, <2>2, <2>3, <3>1, ProcessResponse
  <2> HIDE DEF w
  <2>5. w.tab \in Tables(r, T) /\ w.news \in BOOLEAN
    BY <2>4 DEF Response
  <2>6. Moves(r)
    BY <1>3, <1>6, <2>1, <2>5 DEF Moves
  <2> HIDE DEF r
  <2>7. /\ triggered' \in [Router -> BOOLEAN]
        /\ \A p \in Router : triggered'[p] => triggered[p] \/ p = r
    BY <1>0, <1>1, <2>1, TriggerType
  <2>8. RestOK'
    BY <1>0, <1>1, <1>6, <2>1, <2>7 DEF RIPInv, TypeOK, QuietWhenStopped, RestOK
  <2>9. RIPInv'
    BY <1>0, <2>6, <2>8, MovesInv
  <2> QED BY <2>6, <2>9 DEF r
<1> QED
  BY <1>4, <1>5, <1>6 DEF handleMessage

---------------------------------------------------------------------------
(* The theorems about the invariant *)

\* Every step is a move of some router and keeps the invariant.
LEMMA NextStep ==
    ASSUME RIPInv, Next
    PROVE  RIPInv' /\ \E r \in Router : Moves(r)
<1>1. ASSUME NEW r \in Router,
             \/ startRIPRouting(r) \/ shutdownTimeout(r)
             \/ processUpdate(r, FALSE) \/ processUpdate(r, TRUE)
             \/ IPv4ConfigChanged(r)
             \/ NodeShutdown(r) \/ NodeCrash(r) \/ NodeStart(r)
             \/ \E n \in Attached(r) : InterfaceDown(r, n) \/ InterfaceUp(r, n)
             \/ \E i \in DOMAIN ripRoutes[r] : Ages(r, i)
      PROVE  RIPInv' /\ Moves(r)
  BY <1>1, StartStep, ShutdownTimeoutStep, UpdateStep, ConfigChangedStep, NodeShutdownStep,
     NodeCrashStep, NodeStartStep, InterfaceDownStep, InterfaceUpStep, AgesStep
<1>2. ASSUME NEW c \in Channel, handleMessage(c) \/ Lose(c)
      PROVE  RIPInv' /\ (Moves(c[1]) \/ Moves(c[2])) /\ c[1] \in Router /\ c[2] \in Router
  BY <1>2, HandleMessageStep, LoseStep, ChannelFacts
<1> QED
  BY <1>1, <1>2 DEF Next

\* Nobody runs at first.
LEMMA InitInv == Init => RIPInv
<1> SUFFICES ASSUME Init PROVE RIPInv
  OBVIOUS
<1>1. /\ \A r \in Router : ripRoutes[r] = <<>>
      /\ ripRoutes \in [Router -> Seq(Route)]
  BY DEF Init
<1>2. /\ chan \in [Channel -> Seq(Packet)] /\ \A c \in Channel : Len(chan[c]) <= MaxQueue
  BY RIPAssumption DEF Init, RIPAssumption
<1>3. DOMAIN ifUp = Router /\ \A r \in Router : ifUp[r] \in [Attached(r) -> BOOLEAN]
  BY DEF Init
<1>4. /\ status \in [Router -> {"off", "starting", "running", "stopping"}]
      /\ triggered \in [Router -> BOOLEAN] /\ aborted \in BOOLEAN
      /\ faults \in 0 .. MaxFaults
  <2>1. MaxFaults \in Nat
    BY RIPAssumption DEF RIPAssumption
  <2>2. faults \in 0 .. MaxFaults
    BY <2>1 DEF Init
  <2>3. status \in [Router -> {"off", "starting", "running", "stopping"}]
    BY DEF Init
  <2>4. triggered \in [Router -> BOOLEAN] /\ aborted \in BOOLEAN
    BY DEF Init
  <2> QED BY <2>2, <2>3, <2>4
<1>5. TypeOK
  BY <1>1, <1>2, <1>3, <1>4 DEF TypeOK
<1>6. QuietWhenStopped
  BY <1>1 DEF Init, QuietWhenStopped
<1> QED
  BY <1>1, <1>5, <1>6, EmptyTable DEF RIPInv

\* A step that changes nothing keeps the invariant.
LEMMA StutterInv == RIPInv /\ UNCHANGED vars => RIPInv'
<1> SUFFICES ASSUME RIPInv, UNCHANGED vars PROVE RIPInv'
  OBVIOUS
<1>1. TypeOK' /\ QuietWhenStopped'
  BY DEF RIPInv, vars, TypeOK, QuietWhenStopped
<1> QED
  BY <1>1 DEF RIPInv, vars

\* In every reachable state of every RIP network the invariant RIPInv holds: no
\* sequence of timers, packets, losses, crashes and configuration changes that
\* RIPRouting handles leads out of it.
THEOREM Invariance == Spec => []RIPInv
<1>1. RIPInv /\ [Next]_vars => RIPInv'
  BY NextStep, StutterInv
<1> QED
  BY <1>1, InitInv, PTL DEF Spec

\* Tables, packets, timers and channels always have their types; metrics stay
\* between 1 and RIP_INFINITY_METRIC.
THEOREM TypeCorrect == Spec => []TypeOK
<1>1. RIPInv => TypeOK
  BY DEF RIPInv
<1> QED
  BY <1>1, Invariance, PTL

\* For any number of routers: a RIP route is in the IPv4 routing table if and
\* only if it is reachable.  The code keeps the two in step at each of the places
\* that import, add, update, invalidate and purge routes.
THEOREM RoutesInstalled == Spec => []RouteInstalled
<1>1. ASSUME RIPInv PROVE RouteInstalled
  <2>1. ASSUME NEW r \in Router, NEW x \in Range(ripRoutes[r])
        PROVE  x.metric < Infinity <=> x.route # None
    <3>1. /\ DOMAIN ripRoutes[r] = 1 .. Len(ripRoutes[r])
          /\ \A i \in 1 .. Len(ripRoutes[r]) : Fine(r, ripRoutes[r][i], Beliefs(ripRoutes[r]))
      BY <1>1, Start, TableOps
    <3> QED BY <3>1 DEF Range, Fine
  <2> QED BY <2>1 DEF RouteInstalled
<1> QED
  BY <1>1, Invariance, PTL

\* For any number of routers: a router that is not running has no routes and no
\* triggered update pending, so that stopNode, the crash and the end of a shutdown
\* leave nothing that a later start or a late packet could bring back to life.
THEOREM StoppedIsQuiet == Spec => []QuietWhenStopped
<1>1. RIPInv => QuietWhenStopped
  BY DEF RIPInv
<1> QED
  BY <1>1, Invariance, PTL

---------------------------------------------------------------------------
(* The refinement *)

\* The beliefs and announcements that a state of RIP stands for.
bel == [q \in Router |-> {<<x.dest, x.metric>> : x \in Range(ripRoutes[q])}]

\* The announcement that entry e in channel c is.
says(c, e) ==
    [from |-> c[1], to |-> c[2], net |-> c[3], dest |-> e.dest, metric |-> e.metric]

\* The announcements in the channels.
SaidIn(ch) ==
    UNION {UNION {{says(c, e) : e \in Range(ch[c][i].entries)} : i \in DOMAIN ch[c]} :
              c \in Channel}

\* An announcement is an entry of a packet in a channel.
LEMMA SaidIs ==
    ASSUME NEW ch \in [Channel -> Seq(Packet)]
    PROVE  /\ \A a \in SaidIn(ch) : \E c \in Channel : \E i \in 1 .. Len(ch[c]) :
                \E j \in 1 .. Len(ch[c][i].entries) : a = says(c, ch[c][i].entries[j])
           /\ \A c \in Channel : \A i \in 1 .. Len(ch[c]) :
                \A j \in 1 .. Len(ch[c][i].entries) : says(c, ch[c][i].entries[j]) \in SaidIn(ch)
<1>1. ASSUME NEW c \in Channel
      PROVE  /\ ch[c] \in Seq(Packet) /\ DOMAIN ch[c] = 1 .. Len(ch[c])
             /\ \A i \in 1 .. Len(ch[c]) :
                  /\ ch[c][i].entries \in Seq(Entry)
                  /\ DOMAIN ch[c][i].entries = 1 .. Len(ch[c][i].entries)
  <2>1. ch[c] \in Seq(Packet) /\ DOMAIN ch[c] = 1 .. Len(ch[c])
    OBVIOUS
  <2>2. ASSUME NEW i \in 1 .. Len(ch[c]) PROVE ch[c][i].entries \in Seq(Entry)
    <3>1. ch[c][i] \in Packet
      BY <2>1
    <3> QED BY <3>1 DEF Packet
  <2> QED BY <2>1, <2>2
<1>2. ASSUME NEW a \in SaidIn(ch)
      PROVE  \E c \in Channel : \E i \in 1 .. Len(ch[c]) :
                \E j \in 1 .. Len(ch[c][i].entries) : a = says(c, ch[c][i].entries[j])
  <2>1. PICK c \in Channel : a \in UNION {{says(c, e) : e \in Range(ch[c][i].entries)} :
                                            i \in DOMAIN ch[c]}
    BY DEF SaidIn
  <2>2. PICK i \in DOMAIN ch[c] : a \in {says(c, e) : e \in Range(ch[c][i].entries)}
    BY <2>1
  <2>3. PICK e \in Range(ch[c][i].entries) : a = says(c, e)
    BY <2>2
  <2>4. PICK j \in DOMAIN ch[c][i].entries : e = ch[c][i].entries[j]
    BY <2>3 DEF Range
  <2> QED BY <1>1, <2>3, <2>4
<1>3. ASSUME NEW c \in Channel, NEW i \in 1 .. Len(ch[c]),
             NEW j \in 1 .. Len(ch[c][i].entries)
      PROVE  says(c, ch[c][i].entries[j]) \in SaidIn(ch)
  <2>1. i \in DOMAIN ch[c] /\ ch[c][i].entries[j] \in Range(ch[c][i].entries)
    BY <1>1 DEF Range
  <2>2. says(c, ch[c][i].entries[j]) \in {says(c, e) : e \in Range(ch[c][i].entries)}
    BY <2>1
  <2>3. says(c, ch[c][i].entries[j]) \in
           UNION {{says(c, e) : e \in Range(ch[c][k].entries)} : k \in DOMAIN ch[c]}
    BY <2>1, <2>2
  <2> QED BY <2>3 DEF SaidIn
<1> QED BY <1>2, <1>3

\* A move of a router is a step of the same router in DistanceVector.
LEMMA MovesRefine ==
    ASSUME EvenCosts, RIPInv, RIPInv', NEW r \in Router, Moves(r)
    PROVE  DV!Step(r)
<1> DEFINE sd == SaidIn(chan)
<1>0. /\ TypeOK /\ TypeOK'
      /\ ripRoutes \in [Router -> Seq(Route)] /\ ripRoutes' \in [Router -> Seq(Route)]
      /\ chan \in [Channel -> Seq(Packet)] /\ chan' \in [Channel -> Seq(Packet)]
  BY DEF RIPInv, TypeOK
<1>t. PICK tab \in Tables(r, Reasons(r)) : ripRoutes' = [ripRoutes EXCEPT ![r] = tab]
  BY DEF Moves
<1>1. bel' \in [Router -> SUBSET (Dest \X (0 .. Infinity))]
  <2>1. ASSUME NEW q \in Router
        PROVE  {<<x.dest, x.metric>> : x \in Range(ripRoutes'[q])} \subseteq Dest \X (0 .. Infinity)
    <3>1. \A x \in Range(ripRoutes'[q]) : x \in Route
      BY <1>0 DEF Range
    <3> QED BY <3>1, InfinityType DEF Route
  <2> QED BY <2>1 DEF bel
<1>2. \A q \in Router \ {r} : bel'[q] = bel[q]
  <2>1. \A q \in Router \ {r} : ripRoutes'[q] = ripRoutes[q]
    BY <1>0, <1>t
  <2> QED BY <2>1 DEF bel
<1>3. ASSUME NEW b \in bel'[r] PROVE DV!Reason(r, b[1], b[2])
  <2>1. PICK x \in Range(tab) : b = <<x.dest, x.metric>>
    BY <1>0, <1>t DEF bel
  <2>2. Fine(r, x, Reasons(r))
    BY <2>1, TableOps DEF Range
  <2>3. x.metric = Infinity \/ b \in Beliefs(ripRoutes[r]) \/ b \in Origins(r) \/ b \in Heards(r)
    BY <2>1, <2>2 DEF Fine, Reasons
  <2>4. CASE x.metric = Infinity
    BY <2>1, <2>4 DEF DV!Reason
  <2>5. CASE b \in Beliefs(ripRoutes[r])
    <3>1. b \in bel[r]
      BY <2>5 DEF Beliefs, bel
    <3>2. b = <<b[1], b[2]>>
      BY <2>1
    <3> QED BY <3>1, <3>2 DEF DV!Reason, bel
  <2>6. CASE b \in Origins(r)
    BY <2>6 DEF Origins, DV!Reason
  <2>7. CASE b \in Heards(r)
    <3>0. PICK c \in Channel : \E i \in 1 .. Len(chan[c]) : \E j \in 1 .. Len(chan[c][i].entries) :
             c[2] = r /\ b = <<chan[c][i].entries[j].dest, Heard(r, c[3], chan[c][i].entries[j])>>
      BY <2>7 DEF Heards
    <3>1. PICK i \in 1 .. Len(chan[c]) : \E j \in 1 .. Len(chan[c][i].entries) :
             c[2] = r /\ b = <<chan[c][i].entries[j].dest, Heard(r, c[3], chan[c][i].entries[j])>>
      BY <3>0
    <3>2. PICK j \in 1 .. Len(chan[c][i].entries) :
             c[2] = r /\ b = <<chan[c][i].entries[j].dest, Heard(r, c[3], chan[c][i].entries[j])>>
      BY <3>1
    <3> DEFINE e == chan[c][i].entries[j]
               a == says(c, e)
    <3>3. a \in sd
      BY <1>0, SaidIs
    <3>4. a.to = r /\ a.dest = b[1] /\ a.net = c[3] /\ a.metric = e.metric
      BY <3>2 DEF says
    <3>5. b[2] = DV!Plus(r, a.net, a.metric)
      BY <3>2, <3>4 DEF DV!Plus, Heard, Cost
    <3> HIDE DEF a
    <3>6. \E y \in sd : y.to = r /\ y.dest = b[1] /\ b[2] = DV!Plus(r, y.net, y.metric)
      BY <3>3, <3>4, <3>5
    <3> QED BY <3>6 DEF DV!Reason, SaidIn, says
  <2> QED BY <2>3, <2>4, <2>5, <2>6, <2>7
<1>4. sd' \subseteq DV!Announcement
  <2> SUFFICES ASSUME NEW a \in sd' PROVE a \in DV!Announcement
    OBVIOUS
  <2>1. PICK c \in Channel : \E i \in 1 .. Len(chan'[c]) :
           \E j \in 1 .. Len(chan'[c][i].entries) : a = says(c, chan'[c][i].entries[j])
    BY <1>0, SaidIs
  <2>2. PICK i \in 1 .. Len(chan'[c]) :
           \E j \in 1 .. Len(chan'[c][i].entries) : a = says(c, chan'[c][i].entries[j])
    BY <2>1
  <2>3. PICK j \in 1 .. Len(chan'[c][i].entries) : a = says(c, chan'[c][i].entries[j])
    BY <2>2
  <2>4. chan'[c][i].entries \in Seq(Entry)
    <3>1. chan'[c] \in Seq(Packet)
      BY <1>0
    <3>2. chan'[c][i] \in Packet
      BY <3>1
    <3> QED BY <3>2 DEF Packet
  <2>5. chan'[c][i].entries[j] \in Entry
    BY <2>4
  <2>6. c[1] \in Router /\ c[2] \in Router /\ c[3] \in Net
    BY ChannelFacts
  <2> QED BY <2>3, <2>5, <2>6, InfinityType DEF says, Entry, DV!Announcement
<1>5. ASSUME NEW a \in sd', a \notin sd
      PROVE  /\ a.from = r /\ a.to # r
             /\ a.net \in Attached(r) \cap Attached(a.to)
             /\ a.metric = Infinity \/ <<a.dest, a.metric>> \in bel[r]
  <2>1. PICK c \in Channel : \E i \in 1 .. Len(chan'[c]) :
           \E j \in 1 .. Len(chan'[c][i].entries) : a = says(c, chan'[c][i].entries[j])
    BY <1>0, SaidIs
  <2>2. PICK i \in 1 .. Len(chan'[c]) :
           \E j \in 1 .. Len(chan'[c][i].entries) : a = says(c, chan'[c][i].entries[j])
    BY <2>1
  <2>3. PICK j \in 1 .. Len(chan'[c][i].entries) : a = says(c, chan'[c][i].entries[j])
    BY <2>2
  <2>4. ~ \E k \in 1 .. Len(chan[c]) : chan'[c][i] = chan[c][k]
    <3> SUFFICES ASSUME NEW k \in 1 .. Len(chan[c]), chan'[c][i] = chan[c][k] PROVE FALSE
      OBVIOUS
    <3>1. says(c, chan[c][k].entries[j]) \in sd
      BY <1>0, SaidIs
    <3> QED BY <1>5, <2>3, <3>1
  <2>5. c[1] = r /\ chan'[c][i].entries \in Entries(Beliefs(ripRoutes[r]))
    BY <2>4 DEF Moves, Speaks
  <2> DEFINE e == chan'[c][i].entries[j]
  <2>6. e.metric = Infinity \/ <<e.dest, e.metric>> \in Beliefs(ripRoutes[r])
    BY <2>5 DEF Entries
  <2>7. Beliefs(ripRoutes[r]) = bel[r]
    BY DEF Beliefs, bel
  <2>8. /\ a.from = c[1] /\ a.to = c[2] /\ a.net = c[3]
        /\ a.dest = e.dest /\ a.metric = e.metric
    BY <2>3 DEF says
  <2> HIDE DEF e
  <2> QED BY <2>5, <2>6, <2>7, <2>8, ChannelFacts
<1> QED
  BY <1>1, <1>2, <1>3, <1>4, <1>5 DEF DV!Step, bel, SaidIn, says

\* RIPRouting implements the abstract distance vector protocol, for every
\* topology in which the costs of a router's interfaces differ by at most 1: each metric a
\* router adopts is one it had, the cost of an own interface, or the cost of an
\* interface plus a metric a neighbour on it announced; and it announces nothing
\* it did not believe.  Without EvenCosts it does not: updateRoute leaves the type
\* of a route INTERFACE when a neighbour offers a better path, and a later
\* route-added notification gives that route the cost of another network.
THEOREM RefinesDistanceVector == EvenCosts => (Spec => ImplementsDistanceVector)
<1> SUFFICES ASSUME EvenCosts PROVE Spec => ImplementsDistanceVector
  OBVIOUS
<1>1. Init => DV!DVInit
  <2> SUFFICES ASSUME Init PROVE DV!DVInit
    OBVIOUS
  <2>1. bel = [r \in Router |-> {}]
    <3>1. \A r \in Router : Range(ripRoutes[r]) = {}
      BY DEF Init, Range
    <3> QED BY <3>1 DEF bel
  <2>2. SaidIn(chan) = {}
    <3>1. \A c \in Channel : DOMAIN chan[c] = {}
      BY DEF Init
    <3> QED BY <3>1 DEF SaidIn
  <2> QED BY <2>1, <2>2 DEF DV!DVInit, bel, SaidIn, says
<1>2. RIPInv /\ RIPInv' /\ [Next]_vars => [DV!DVNext]_(DV!dvars)
  <2>1. ASSUME RIPInv, RIPInv', Next PROVE DV!DVNext
    BY <2>1, NextStep, MovesRefine DEF DV!DVNext
  <2>2. ASSUME UNCHANGED vars PROVE UNCHANGED DV!dvars
    BY <2>2 DEF vars, DV!dvars
  <2> QED BY <2>1, <2>2
<1>3. Spec => []RIPInv
  BY Invariance
<1> QED
  BY <1>1, <1>2, <1>3, PTL DEF Spec, ImplementsDistanceVector, DV!DVSpec

---------------------------------------------------------------------------
(* Metrics and shortest paths *)

\* Lengths of paths, up to the limit.
Lengths == [Router -> [Dest -> 0 .. Infinity]]

\* The lengths that relaxing p offers r on its way to d.
Candidates(p, r, d) ==
    {Infinity} \union Origin(r, d)
       \union {p[c[1]][d] + cost[r][c[3]] : c \in {x \in Channel : x[2] = r}}

\* Least is the least.
LEMMA LeastIs ==
    ASSUME NEW S \in SUBSET Nat, S # {}
    PROVE  Least(S) \in S /\ \A k \in S : Least(S) <= k
<1>1. PICK m \in S : \A k \in S : m <= k
  BY LeastNatural
<1> QED
  BY <1>1 DEF Least

\* The metrics of own routes are numbers.
LEMMA OriginType ==
    ASSUME NEW r \in Router, NEW d \in Dest
    PROVE  Origin(r, d) \subseteq Nat
<1>1. \A n \in Attached(r) : cost[r][n] \in Nat
  BY AttachedFacts, InfinityType
<1> QED
  BY <1>1 DEF Origin

\* What a round leaves: the least of the choices.
LEMMA RelaxIs ==
    ASSUME NEW p \in Lengths
    PROVE  /\ Relax(p) \in Lengths
           /\ \A r \in Router, d \in Dest :
                /\ Relax(p)[r][d] \in Candidates(p, r, d)
                /\ \A m \in Candidates(p, r, d) : m \in Nat /\ Relax(p)[r][d] <= m
<1>1. ASSUME NEW r \in Router, NEW d \in Dest
      PROVE  /\ Candidates(p, r, d) \subseteq Nat /\ Infinity \in Candidates(p, r, d)
  <2>1. ASSUME NEW c \in Channel, c[2] = r PROVE p[c[1]][d] + cost[r][c[3]] \in Nat
    <3>1. c[1] \in Router /\ c[3] \in Attached(r)
      BY <2>1, ChannelFacts
    <3>2. p[c[1]][d] \in Nat
      BY <3>1, InfinityType DEF Lengths
    <3>3. cost[r][c[3]] \in Nat
      BY <3>1, AttachedFacts, InfinityType
    <3> QED BY <3>2, <3>3
  <2>2. {p[c[1]][d] + cost[r][c[3]] : c \in {x \in Channel : x[2] = r}} \subseteq Nat
    BY <2>1
  <2> QED BY <2>2, OriginType, InfinityType DEF Candidates
<1>2. ASSUME NEW r \in Router, NEW d \in Dest
      PROVE  /\ Relax(p)[r][d] \in Candidates(p, r, d)
             /\ \A m \in Candidates(p, r, d) : m \in Nat /\ Relax(p)[r][d] <= m
  <2>1. Relax(p)[r][d] = Least(Candidates(p, r, d))
    BY DEF Relax, Candidates
  <2> QED BY <1>1, <2>1, LeastIs
<1>3. \A r \in Router, d \in Dest : Relax(p)[r][d] \in 0 .. Infinity
  BY <1>1, <1>2, InfinityType
<1>4. Relax(p) = [r \in Router |-> [d \in Dest |-> Relax(p)[r][d]]]
  BY DEF Relax
<1>5. Relax(p) \in Lengths
  BY <1>3, <1>4 DEF Lengths
<1> QED
  BY <1>2, <1>5

\* After Infinity rounds another one makes nothing better: what a round improves is at
\* least as long as the number of rounds before it.
LEMMA ShortestFixpoint ==
    /\ ShortestPaths \in Lengths
    /\ \A r \in Router, d \in Dest : ShortestPaths[r][d] <= Relax(ShortestPaths)[r][d]
<1> DEFINE A == Lengths
           b == [r \in Router |-> [d \in Dest |-> Infinity]]
           g == [p \in (1 .. Infinity) \X A |-> Relax(p[2])]
           Walk(f) == [k \in 0 .. Infinity |->
                         IF k = 0 THEN [r \in Router |-> [d \in Dest |-> Infinity]]
                                  ELSE Relax(f[k - 1])]
           paths == CHOOSE f : f = Walk(f)
<1>1. Infinity \in Nat /\ b \in A /\ \A w \in A : Relax(w) \in A
  BY InfinityType, RelaxIs DEF Lengths
<1>2. \A f : Walk(f) = [i \in 0 .. Infinity |-> IF i = 0 THEN b ELSE Relax(f[i - 1])]
  OBVIOUS
<1> HIDE DEF A, b, Walk
<1>3. PICK f \in [0 .. Infinity -> A] : IsWalk(f, Infinity, b, g)
  <2>1. g \in [(1 .. Infinity) \X A -> A]
    BY <1>1
  <2> HIDE DEF g
  <2> QED BY <1>1, <2>1, WalkDefined
<1>4. f = Walk(f)
  <2>1. \A i \in 1 .. Infinity : g[<<i, f[i - 1]>>] = Relax(f[i - 1])
    BY <1>1
  <2> HIDE DEF g
  <2>2. ASSUME NEW i \in 0 .. Infinity PROVE f[i] = IF i = 0 THEN b ELSE Relax(f[i - 1])
    <3>1. CASE i = 0
      BY <1>3, <3>1 DEF IsWalk
    <3>2. CASE i # 0
      <4>1. i \in 1 .. Infinity
        BY <1>1, <3>2
      <4> QED BY <1>3, <2>1, <3>2, <4>1 DEF IsWalk
    <3> QED BY <3>1, <3>2
  <2>3. f = [i \in 0 .. Infinity |-> IF i = 0 THEN b ELSE Relax(f[i - 1])]
    BY <2>2
  <2> QED BY <2>3, <1>2
<1>5. paths = Walk(paths)
  BY <1>4
<1>6. ShortestPaths = paths[Infinity]
  BY DEF ShortestPaths, Walk
<1> HIDE DEF paths
<1>7. /\ paths[0] = b
      /\ \A i \in 1 .. Infinity : paths[i] = Relax(paths[i - 1])
  BY <1>1, <1>2, <1>5
<1>8. \A i \in 0 .. Infinity : paths[i] \in A
  <2>1. paths[0] \in A
    BY <1>1, <1>7
  <2>2. ASSUME NEW i \in 1 .. Infinity, paths[i - 1] \in A PROVE paths[i] \in A
    BY <1>1, <1>7, <2>2
  <2> QED BY <1>1, <2>1, <2>2, WalkStays
<1> DEFINE Late(k) == \A r \in Router, d \in Dest :
              Relax(paths[k])[r][d] < paths[k][r][d] => k <= Relax(paths[k])[r][d]
           S == {k \in 0 .. Infinity : Late(k)}
<1>9. \A k \in 0 .. Infinity : k \in S
  <2>1. 0 \in S
    <3>1. ASSUME NEW r \in Router, NEW d \in Dest PROVE 0 <= Relax(paths[0])[r][d]
      <4>1. Relax(paths[0]) \in Lengths
        BY <1>1, <1>8 DEF A
      <4> QED BY <4>1, <1>1 DEF Lengths
    <3> QED BY <1>1, <3>1
  <2>2. ASSUME NEW k \in 1 .. Infinity, k - 1 \in S PROVE k \in S
    <3> SUFFICES ASSUME NEW r \in Router, NEW d \in Dest,
                        Relax(paths[k])[r][d] < paths[k][r][d]
                 PROVE  k <= Relax(paths[k])[r][d]
      OBVIOUS
    <3> DEFINE m == Relax(paths[k])[r][d]
    <3>0. k - 1 \in 0 .. Infinity /\ k \in 0 .. Infinity
      BY <1>1
    <3>1. /\ paths[k] = Relax(paths[k - 1])
          /\ paths[k] \in Lengths /\ paths[k - 1] \in Lengths
      BY <1>1, <1>7, <1>8, <3>0 DEF A
    <3>2. m \in Candidates(paths[k], r, d) /\ m \in Nat /\ paths[k][r][d] \in 0 .. Infinity
      BY <1>1, <3>1, RelaxIs DEF Lengths
    <3>3. \A x \in Candidates(paths[k - 1], r, d) : x \in Nat /\ paths[k][r][d] <= x
      BY <3>1, RelaxIs
    <3>4. m # Infinity /\ m \notin Origin(r, d)
      <4>1. Infinity \in Candidates(paths[k - 1], r, d)
        BY DEF Candidates
      <4>2. Origin(r, d) \subseteq Candidates(paths[k - 1], r, d)
        BY DEF Candidates
      <4>3. m < paths[k][r][d]
        OBVIOUS
      <4> HIDE DEF m
      <4> QED BY <1>1, <3>2, <3>3, <4>1, <4>2, <4>3
    <3>5. PICK c \in Channel : c[2] = r /\ m = paths[k][c[1]][d] + cost[r][c[3]]
      <4> HIDE DEF m
      <4> QED BY <3>2, <3>4 DEF Candidates
    <3> DEFINE q == c[1]
               l == cost[r][c[3]]
    <3>6. q \in Router /\ l \in 1 .. Infinity - 1
      BY <3>5, ChannelFacts, AttachedFacts
    <3>7. paths[k][q][d] \in Nat /\ paths[k - 1][q][d] \in Nat
      BY <1>1, <3>1, <3>6 DEF Lengths
    <3>8. paths[k - 1][q][d] + l \in Candidates(paths[k - 1], r, d)
      BY <3>5 DEF Candidates
    <3>9. paths[k][r][d] <= paths[k - 1][q][d] + l
      BY <3>3, <3>8
    <3>10. paths[k][q][d] < paths[k - 1][q][d]
      <4>1. m < paths[k][r][d] /\ m = paths[k][q][d] + l
        BY <3>5
      <4>2. l \in Nat /\ paths[k][r][d] \in Nat
        BY <1>1, <3>2, <3>6
      <4>3. \A u, v, x, y \in Nat : u + y < v /\ v <= x + y => u < x
        OBVIOUS
      <4> HIDE DEF m, q, l
      <4> QED BY <3>7, <3>9, <4>1, <4>2, <4>3
    <3>11. k - 1 <= paths[k][q][d]
      <4>1. Late(k - 1)
        BY <2>2
      <4> QED BY <3>1, <3>6, <3>10, <4>1
    <3> HIDE DEF q, l
    <3>12. m = paths[k][q][d] + l
      BY <3>5 DEF q, l
    <3> QED BY <1>1, <3>6, <3>7, <3>11, <3>12
  <2> HIDE DEF S
  <2> QED BY <1>1, <2>1, <2>2, Induction
<1>10. ASSUME NEW r \in Router, NEW d \in Dest
       PROVE  paths[Infinity][r][d] <= Relax(paths[Infinity])[r][d]
  <2>1. Infinity \in 0 .. Infinity
    BY <1>1
  <2>2. Late(Infinity)
    BY <1>9, <2>1
  <2>3. paths[Infinity] \in Lengths /\ Relax(paths[Infinity]) \in Lengths
    BY <1>1, <1>8, <2>1 DEF A
  <2>4. paths[Infinity][r][d] \in 0 .. Infinity /\ Relax(paths[Infinity])[r][d] \in 0 .. Infinity
    BY <2>3 DEF Lengths
  <2> QED BY <1>1, <2>2, <2>4
<1> QED
  BY <1>1, <1>6, <1>8, <1>10 DEF A

\* The proofs about the abstract protocol, for the routes and packets of RIP.
DVP == INSTANCE DistanceVector_proofs WITH
         dist <- ShortestPaths,
         belief <- [r \in Router |-> {<<x.dest, x.metric>> : x \in Range(ripRoutes[r])}],
         said <- UNION {UNION {{[from |-> c[1], to |-> c[2], net |-> c[3],
                                 dest |-> e.dest, metric |-> e.metric] :
                                   e \in Range(chan[c][i].entries)} :
                                i \in DOMAIN chan[c]} : c \in Channel}

\* The shortest paths are what the abstract specification asks of them.
LEMMA ShortestPathsAreDistances == DVP!DistanceAssumption
<1> DEFINE dist == ShortestPaths
<1>1. Infinity \in Nat /\ dist \in [Router -> [Dest -> 0 .. Infinity]]
  BY InfinityType, ShortestFixpoint DEF Lengths
<1>2. \A r \in Router : \A n \in Attached(r) : Cost(r, n) \in Nat
  BY AttachedFacts, InfinityType DEF Cost
<1>3. ASSUME NEW r \in Router, NEW d \in Dest
      PROVE  /\ Origin(r, d) \subseteq Nat
             /\ \A m \in Origin(r, d) : dist[r][d] <= m
             /\ \A q \in Router \ {r} : \A n \in Attached(r) \cap Attached(q) :
                  dist[r][d] <= dist[q][d] + Cost(r, n)
  <2>1. /\ dist[r][d] \in Nat /\ Relax(dist)[r][d] \in Nat
        /\ dist[r][d] <= Relax(dist)[r][d]
        /\ \A m \in Candidates(dist, r, d) : m \in Nat /\ Relax(dist)[r][d] <= m
    BY InfinityType, ShortestFixpoint, RelaxIs DEF Lengths
  <2> HIDE DEF dist
  <2>2. \A m \in Candidates(dist, r, d) : dist[r][d] <= m
    BY <2>1
  <2>3. \A m \in Origin(r, d) : dist[r][d] <= m
    BY <2>2 DEF Candidates
  <2>4. ASSUME NEW q \in Router \ {r}, NEW n \in Attached(r) \cap Attached(q)
        PROVE  dist[r][d] <= dist[q][d] + Cost(r, n)
    <3> DEFINE c == <<q, r, n>>
    <3>1. c \in Channel /\ c[1] = q /\ c[2] = r /\ c[3] = n
      BY AttachedFacts DEF Channel
    <3>2. dist[q][d] + cost[r][n] \in Candidates(dist, r, d)
      BY <3>1 DEF Candidates
    <3> QED BY <2>2, <3>2 DEF Cost
  <2> QED BY <2>3, <2>4, OriginType
<1> QED
  BY <1>1, <1>2, <1>3 DEF DVP!DistanceAssumption

\* The metrics of the routes, and those in the packets that are on their way, are
\* at least the lengths of the shortest paths.
MetricsSoundRIP ==
    /\ \A r \in Router : \A x \in Range(ripRoutes[r]) : ShortestPaths[r][x.dest] <= x.metric
    /\ \A c \in Channel : \A i \in DOMAIN chan[c] : \A e \in Range(chan[c][i].entries) :
          ShortestPaths[c[1]][e.dest] <= e.metric

\* No route of RIP and no entry of a RIP packet ever claims a path shorter than the
\* shortest one that exists, in any state of any such network, while packets are
\* lost, routes are poisoned and routers crash.  It combines the refinement
\* with the invariant of the abstract protocol; ShortestPaths is a solution of the
\* equations that the latter assumes of distances.
THEOREM NoMetricTooShort == EvenCosts => (Spec => []MetricsSoundRIP)
<1> SUFFICES ASSUME EvenCosts PROVE Spec => []MetricsSoundRIP
  OBVIOUS
<1>1. Spec => DVP!DVSpec
  <2>1. DV!DVInit => DVP!DVInit
    BY DEF DV!DVInit, DVP!DVInit
  <2>2. [DV!DVNext]_(DV!dvars) => [DVP!DVNext]_(DVP!dvars)
    <3>1. ASSUME NEW r \in Router, DV!Step(r) PROVE DVP!Step(r)
      BY <3>1 DEF DV!Step, DVP!Step, DV!Reason, DVP!Reason, DV!Plus, DVP!Plus,
                  DV!Announcement, DVP!Announcement
    <3>2. UNCHANGED DV!dvars => UNCHANGED DVP!dvars
      BY DEF DV!dvars, DVP!dvars
    <3> QED BY <3>1, <3>2 DEF DV!DVNext, DVP!DVNext
  <2>3. Spec => ImplementsDistanceVector
    BY RefinesDistanceVector
  <2> QED
    BY <2>1, <2>2, <2>3, PTL DEF ImplementsDistanceVector, DV!DVSpec, DVP!DVSpec
<1>2. DVP!DVSpec => []DVP!NeverTooShort
  BY DVP!MetricsSound, ShortestPathsAreDistances
<1>3. DVP!NeverTooShort => MetricsSoundRIP
  <2> SUFFICES ASSUME DVP!NeverTooShort PROVE MetricsSoundRIP
    OBVIOUS
  <2>1. ASSUME NEW r \in Router, NEW x \in Range(ripRoutes[r])
        PROVE  ShortestPaths[r][x.dest] <= x.metric
    <3>1. \A b \in bel[r] : ShortestPaths[r][b[1]] <= b[2]
      BY DEF DVP!NeverTooShort, bel
    <3>2. <<x.dest, x.metric>> \in bel[r]
      BY DEF bel
    <3> QED BY <3>1, <3>2
  <2>2. ASSUME NEW c \in Channel, NEW i \in DOMAIN chan[c],
               NEW e \in Range(chan[c][i].entries)
        PROVE  ShortestPaths[c[1]][e.dest] <= e.metric
    <3>1. \A a \in SaidIn(chan) : ShortestPaths[a.from][a.dest] <= a.metric
      BY DEF DVP!NeverTooShort, SaidIn, says
    <3>2. says(c, e) \in {says(c, f) : f \in Range(chan[c][i].entries)}
      OBVIOUS
    <3>3. says(c, e) \in SaidIn(chan)
      BY <3>2 DEF SaidIn
    <3> QED BY <3>1, <3>3 DEF says
  <2> QED
    BY <2>1, <2>2 DEF MetricsSoundRIP
<1> QED
  BY <1>1, <1>2, <1>3, PTL

=============================================================================
