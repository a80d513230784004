----------------------- MODULE DistanceVector_proofs -----------------------
(***************************************************************************)
(* The metrics of a distance vector protocol are never too short, in any   *)
(* topology, with any metrics and any number of routers.                   *)
(***************************************************************************)
EXTENDS DistanceVector, TLAPS

\* Every belief is typed, and an announcement is on a network its two ends share.
DVInv ==
    /\ belief \in [Router -> SUBSET (Dest \X (0 .. Infinity))]
    /\ said \subseteq Announcement
    /\ \A a \in said : a.from # a.to /\ a.net \in Attached(a.from) \cap Attached(a.to)
    /\ NeverTooShort

\* A metric there is a reason to believe in is not too short: for an announcement
\* because the shortest path is at most one interface longer than the neighbour's.
LEMMA ReasonSound ==
    ASSUME DistanceAssumption, DVInv, NEW r \in Router, NEW d \in Dest,
           NEW m \in 0 .. Infinity, Reason(r, d, m)
    PROVE  dist[r][d] <= m
<1>0. /\ Infinity \in Nat
      /\ \A q \in Router, e \in Dest : dist[q][e] \in 0 .. Infinity
  BY DEF DistanceAssumption
<1>1. CASE <<d, m>> \in belief[r]
  BY <1>1 DEF DVInv, NeverTooShort
<1>2. CASE m = Infinity
  BY <1>0, <1>2
<1>3. CASE m \in Origin(r, d)
  BY <1>3 DEF DistanceAssumption
<1>4. CASE \E a \in said : a.to = r /\ a.dest = d /\ m = Plus(r, a.net, a.metric)
  <2>1. PICK a \in said : a.to = r /\ a.dest = d /\ m = Plus(r, a.net, a.metric)
    BY <1>4
  <2>2. /\ a.from \in Router \ {r} /\ a.net \in Net /\ a.metric \in 0 .. Infinity
        /\ a.net \in Attached(r) \cap Attached(a.from)
        /\ dist[a.from][d] <= a.metric
    BY <2>1 DEF DVInv, Announcement, NeverTooShort
  <2>3. dist[r][d] <= dist[a.from][d] + Cost(r, a.net) /\ Cost(r, a.net) \in Nat
    BY <2>2 DEF DistanceAssumption
  <2>4. dist[r][d] <= a.metric + Cost(r, a.net)
    BY <1>0, <2>2, <2>3
  <2> QED
    BY <1>0, <2>1, <2>4 DEF Plus
<1> QED
  BY <1>1, <1>2, <1>3, <1>4 DEF Reason

LEMMA DVInvInit == DVInit => DVInv
BY DEF DVInit, DVInv, NeverTooShort

LEMMA DVInvStep ==
    ASSUME DistanceAssumption, DVInv, [DVNext]_dvars
    PROVE  DVInv'
<1>0. /\ Infinity \in Nat
      /\ \A q \in Router, e \in Dest : dist[q][e] \in 0 .. Infinity
  BY DEF DistanceAssumption
<1>1. ASSUME NEW r \in Router, Step(r) PROVE DVInv'
  <2>1. /\ belief' \in [Router -> SUBSET (Dest \X (0 .. Infinity))]
        /\ said' \subseteq Announcement
    BY <1>1 DEF Step
  <2>2. \A a \in said' : /\ a.from # a.to
                         /\ a.net \in Attached(a.from) \cap Attached(a.to)
                         /\ dist[a.from][a.dest] <= a.metric
    <3> SUFFICES ASSUME NEW a \in said'
                 PROVE  /\ a.from # a.to
                        /\ a.net \in Attached(a.from) \cap Attached(a.to)
                        /\ dist[a.from][a.dest] <= a.metric
      OBVIOUS
    <3>1. CASE a \in said
      BY <3>1 DEF DVInv, NeverTooShort
    <3>2. CASE a \notin said
      <4>1. /\ a.from = r /\ a.to # r
            /\ a.net \in Attached(r) \cap Attached(a.to)
            /\ a.metric = Infinity \/ <<a.dest, a.metric>> \in belief[r]
        BY <1>1, <3>2 DEF Step
      <4>2. a.dest \in Dest
        BY <2>1 DEF Announcement
      <4>3. CASE a.metric = Infinity
        BY <1>0, <4>1, <4>2, <4>3
      <4>4. CASE <<a.dest, a.metric>> \in belief[r]
        <5>1. dist[r][(<<a.dest, a.metric>>)[1]] <= (<<a.dest, a.metric>>)[2]
          BY <4>4 DEF DVInv, NeverTooShort
        <5> QED
          BY <5>1, <4>1
      <4> QED
        BY <4>1, <4>3, <4>4
    <3> QED
      BY <3>1, <3>2
  <2>3. ASSUME NEW q \in Router, NEW b \in belief'[q] PROVE dist[q][b[1]] <= b[2]
    <3>1. b[1] \in Dest /\ b[2] \in 0 .. Infinity
      BY <2>1, <2>3
    <3>2. CASE q = r
      <4>1. Reason(r, b[1], b[2])
        BY <1>1, <2>3, <3>2 DEF Step
      <4> QED
        BY <3>1, <3>2, <4>1, ReasonSound
    <3>3. CASE q # r
      BY <1>1, <2>3, <3>3 DEF Step, DVInv, NeverTooShort
    <3> QED
      BY <3>2, <3>3
  <2> QED
    BY <2>1, <2>2, <2>3 DEF DVInv, NeverTooShort
<1>2. CASE UNCHANGED dvars
  BY <1>2 DEF dvars, DVInv, NeverTooShort
<1> QED
  BY <1>1, <1>2 DEF DVNext

\* Whatever packets are lost, whichever routers crash and however updates interleave,
\* no router holds and no packet carries a metric below the length of the shortest path.
THEOREM MetricsSound ==
    ASSUME DistanceAssumption
    PROVE  DVSpec => []NeverTooShort
<1>1. DVInv /\ [DVNext]_dvars => DVInv'
  BY DVInvStep
<1>2. DVInv => NeverTooShort
  BY DEF DVInv
<1> QED
  BY DVInvInit, <1>1, <1>2, PTL DEF DVSpec

=============================================================================
