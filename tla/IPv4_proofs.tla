---------------------------- MODULE IPv4_proofs ----------------------------
(***************************************************************************)
(* What is proved about IPv4: first the output to a LAN, with the ARP      *)
(* cache, for any number of hosts, addresses, proxies, retries and         *)
(* datagrams; then fragmentation and reassembly, for every length of the   *)
(* payloads, every MTU that can carry a fragment, every number of sources  *)
(* and datagrams, and every order, loss and duplication on the links.  The *)
(* two parts share nothing but the library they rest on.                   *)
(***************************************************************************)
EXTENDS IPv4Output, IPv4Reassembly, Walks_proofs, SequenceTheorems, FiniteSetTheorems

-----------------------------------------------------------------------------
(* Output to a LAN *)

\* Every ARP packet on the LAN tells the truth about its sender.
LanHonest == \A p \in lan : p.srcMAC \in Answerers(p.srcIP)

\* The inductive invariant of the ARP caches.
ArpInv ==
    /\ ArpTypeOK
    /\ OneTimerPerResolution
    /\ QuietWhenDown
    /\ MacIsRight
    /\ RequestsBounded
    /\ LanHonest

\* Counting a retry keeps an entry an entry.
LEMMA RetryCounted ==
    ASSUME NEW r \in Entry
    PROVE  [r EXCEPT !.numRetries = @ + 1] \in Entry
  BY DEF Entry

\* What an ARP action sends is well-formed and honest.
LEMMA RequestsHonest ==
    ASSUME NEW h \in Host, NEW a \in Addr
    PROVE  /\ Requests(h, a) \subseteq ArpPacket
           /\ \A p \in Requests(h, a) : p.srcMAC \in Answerers(p.srcIP)
  BY DEF Requests, ArpPacket, Answerers, addressRecognized, Addr

\* The answer to an honest request is well-formed, and names an answerer.
LEMMA ReplyHonest ==
    ASSUME NEW p \in ArpPacket, addressRecognized(p.to, p.destIP)
    PROVE  /\ Reply(p) \in ArpPacket
           /\ Reply(p).srcMAC \in Answerers(Reply(p).srcIP)
  BY DEF Reply, ArpPacket, Answerers

\* A step that leaves ARP alone keeps the invariant.
LEMMA ArpInvUntouched ==
    ASSUME ArpInv, isUp' = isUp, arpCache' = arpCache, timer' = timer, lan' = lan
    PROVE  ArpInv'
<1> USE DEF ArpInv
<1>1. ArpTypeOK'
  BY DEF ArpTypeOK
<1>2. OneTimerPerResolution'
  BY DEF OneTimerPerResolution, Pending
<1>3. QuietWhenDown'
  BY DEF QuietWhenDown
<1>4. MacIsRight' /\ RequestsBounded' /\ LanHonest'
  BY DEF MacIsRight, RequestsBounded, LanHonest
<1> QED
  BY <1>1, <1>2, <1>3, <1>4

\* startAddressResolution, called by a running host, keeps the invariant.
LEMMA StartKeepsArpInv ==
    ASSUME ArpInv, NEW h \in Host, NEW a \in Addr, isUp[h],
           startAddressResolution(h, a)
    PROVE  ArpInv'
<1> USE ArpAssumption DEF ArpInv, ArpTypeOK
<1>1. CASE Pending(h, a)
  <2>1. UNCHANGED arpVars
    BY <1>1 DEF startAddressResolution, arpVars
  <2> QED
    BY <2>1 DEF arpVars, OneTimerPerResolution, QuietWhenDown, MacIsRight,
                RequestsBounded, LanHonest, Pending
<1>2. CASE ~Pending(h, a)
  <2>1. /\ arpCache' = [arpCache EXCEPT ![h] = Put(@, a, PendingEntry)]
        /\ timer' = [timer EXCEPT ![h][a] = @ + 1]
        /\ lan' = lan \cup Requests(h, a)
        /\ isUp' = isUp
    BY <1>2 DEF startAddressResolution, initiateARPResolution
  <2>2. PendingEntry \in Entry
    BY DEF PendingEntry, Entry
  <2>3. ArpTypeOK'
    BY <2>1, <2>2, RequestsHonest DEF Put
  <2>4. OneTimerPerResolution'
    BY <1>2, <2>1 DEF OneTimerPerResolution, Pending, Put, PendingEntry
  <2>5. QuietWhenDown'
    BY <2>1 DEF QuietWhenDown
  <2>6. MacIsRight'
    BY <2>1 DEF MacIsRight, Put, PendingEntry
  <2>7. RequestsBounded'
    BY <2>1 DEF RequestsBounded, Put, PendingEntry
  <2>8. LanHonest'
    BY <2>1, RequestsHonest DEF LanHonest
  <2> QED
    BY <2>3, <2>4, <2>5, <2>6, <2>7, <2>8
<1> QED
  BY <1>1, <1>2

\* requestTimedOut keeps it: the timer that fires belongs to a pending entry.
LEMMA TimeoutKeepsArpInv ==
    ASSUME ArpInv, NEW h \in Host, NEW a \in Addr, requestTimedOut(h, a)
    PROVE  ArpInv'
<1> USE ArpAssumption DEF ArpInv, ArpTypeOK
<1>0. /\ a \in DOMAIN arpCache[h]
      /\ arpCache[h][a].pending
      /\ timer[h][a] = 1
      /\ isUp[h]
      /\ isUp' = isUp
  BY DEF requestTimedOut, OneTimerPerResolution, Pending
<1>1. CASE ResolutionFails(h, a)
  <2>1. /\ arpCache' = [arpCache EXCEPT ![h] = Erase(@, a)]
        /\ timer' = [timer EXCEPT ![h][a] = @ - 1]
        /\ lan' = lan
    BY <1>1 DEF requestTimedOut
  <2>3. ArpTypeOK'
    BY <1>0, <2>1 DEF Erase, Restrict
  <2>4. OneTimerPerResolution'
    BY <1>0, <2>1 DEF OneTimerPerResolution, Pending, Erase, Restrict
  <2>5. QuietWhenDown'
    BY <1>0, <2>1 DEF QuietWhenDown
  <2>6. MacIsRight'
    BY <2>1 DEF MacIsRight, Erase, Restrict
  <2>7. RequestsBounded'
    BY <2>1 DEF RequestsBounded, Erase, Restrict
  <2>8. LanHonest'
    BY <2>1 DEF LanHonest
  <2> QED
    BY <2>3, <2>4, <2>5, <2>6, <2>7, <2>8
<1>2. CASE ~ResolutionFails(h, a)
  <2>1. /\ arpCache' = [arpCache EXCEPT ![h][a].numRetries = @ + 1]
        /\ timer' = timer
        /\ lan' = lan \cup Requests(h, a)
    BY <1>2 DEF requestTimedOut
  <2>2. arpCache[h][a] \in Entry
    BY <1>0
  <2> DEFINE e == [arpCache[h][a] EXCEPT !.numRetries = @ + 1]
  <2>a. e \in Entry
    BY <2>2, RetryCounted
  <2>b. /\ DOMAIN arpCache' = Host
        /\ \A k \in Host :
             /\ DOMAIN arpCache'[k] = DOMAIN arpCache[k]
             /\ \A x \in DOMAIN arpCache[k] :
                  arpCache'[k][x] = IF k = h /\ x = a THEN e ELSE arpCache[k][x]
    BY <1>0, <2>1
  <2> HIDE DEF e
  <2>3. ArpTypeOK'
    <3>1. \A k \in Host :
             /\ DOMAIN arpCache'[k] \subseteq Addr
             /\ \A x \in DOMAIN arpCache'[k] : arpCache'[k][x] \in Entry
      BY <2>a, <2>b
    <3>2. lan' \in SUBSET ArpPacket
      BY <1>0, <2>1, RequestsHonest
    <3>3. /\ isUp' \in [Host -> BOOLEAN]
          /\ timer' \in [Host -> [Addr -> Nat]]
      BY <1>0, <2>1
    <3> QED
      BY <2>b, <3>1, <3>2, <3>3, Zenon
  <2>4. OneTimerPerResolution'
    BY <1>0, <2>1, <2>2 DEF OneTimerPerResolution, Pending, Entry
  <2>5. QuietWhenDown'
    BY <1>0, <2>1 DEF QuietWhenDown
  <2>6. MacIsRight'
    BY <1>0, <2>1, <2>2 DEF MacIsRight, Entry
  <2>7. RequestsBounded'
    BY <1>0, <1>2, <2>1, <2>2 DEF RequestsBounded, ResolutionFails, Entry
  <2>8. LanHonest'
    BY <2>1, RequestsHonest DEF LanHonest
  <2> QED
    BY <2>3, <2>4, <2>5, <2>6, <2>7, <2>8
<1> QED
  BY <1>1, <1>2

\* processARPPacket keeps it: what is learnt comes from an honest packet.
LEMMA PacketKeepsArpInv ==
    ASSUME ArpInv, NEW p \in lan, processARPPacket(p)
    PROVE  ArpInv'
<1> USE ArpAssumption DEF ArpInv, ArpTypeOK
<1> DEFINE h == p.to
           a == p.srcIP
<1>0. /\ p \in ArpPacket
      /\ h \in Host
      /\ a \in Addr
      /\ p.srcMAC \in Host
      /\ p.srcMAC \in Answerers(a)
      /\ isUp[h]
      /\ isUp' = isUp
  BY DEF processARPPacket, LanHonest, ArpPacket
<1>1. /\ lan' \subseteq ArpPacket
      /\ LanHonest'
  <2>1. CASE p.opcode = "REQUEST" /\ addressRecognized(p.to, p.destIP)
    <3>1. lan' = (lan \ {p}) \cup {Reply(p)}
      BY <2>1 DEF processARPPacket
    <3> QED
      BY <1>0, <2>1, <3>1, ReplyHonest DEF LanHonest
  <2>2. CASE ~(p.opcode = "REQUEST" /\ addressRecognized(p.to, p.destIP))
    <3>1. lan' = lan \ {p}
      BY <2>2 DEF processARPPacket
    <3> QED
      BY <3>1 DEF LanHonest
  <2> QED
    BY <2>1, <2>2
<1>2. CASE ~Learns(p)
  <2>1. /\ arpCache' = arpCache
        /\ timer' = timer
    BY <1>2 DEF processARPPacket
  <2> QED
    BY <1>0, <1>1, <2>1 DEF OneTimerPerResolution, Pending, QuietWhenDown,
                           MacIsRight, RequestsBounded
<1>3. CASE Learns(p)
  <2> DEFINE e == ResolvedEntry(p.srcMAC)
  <2>1. /\ arpCache' = [arpCache EXCEPT ![h] = Put(@, a, e)]
        /\ timer' = IF Pending(h, a) THEN [timer EXCEPT ![h][a] = @ - 1]
                                     ELSE timer
    BY <1>3 DEF processARPPacket, updateARPCache
  <2>2. /\ e \in Entry
        /\ ~e.pending
        /\ e.macAddress = p.srcMAC
        /\ e.numRetries = 0
    BY <1>0 DEF ResolvedEntry, Entry
  <2> HIDE DEF e, h, a
  <2>b. /\ DOMAIN arpCache' = Host
        /\ \A k \in Host \ {h} : arpCache'[k] = arpCache[k]
        /\ DOMAIN arpCache'[h] = DOMAIN arpCache[h] \cup {a}
        /\ \A x \in DOMAIN arpCache'[h] :
              arpCache'[h][x] = IF x = a THEN e ELSE arpCache[h][x]
    BY <1>0, <2>1 DEF Put
  <2>c. \A k \in Host, x \in Addr :
           /\ timer'[k][x] = IF k = h /\ x = a THEN 0 ELSE timer[k][x]
           /\ timer[k][x] \in Nat
    BY <1>0, <2>1 DEF OneTimerPerResolution
  <2>d. timer' \in [Host -> [Addr -> Nat]]
    <3>1. CASE Pending(h, a)
      <4>1. timer[h][a] = 1
        BY <1>0, <3>1 DEF OneTimerPerResolution
      <4> QED
        BY <1>0, <2>1, <3>1, <4>1
    <3>2. CASE ~Pending(h, a)
      BY <2>1, <3>2
    <3> QED
      BY <3>1, <3>2
  <2>3. ArpTypeOK'
    <3>1. \A k \in Host : /\ DOMAIN arpCache'[k] \subseteq Addr
                          /\ \A x \in DOMAIN arpCache'[k] : arpCache'[k][x] \in Entry
      <4> SUFFICES ASSUME NEW k \in Host
                   PROVE  /\ DOMAIN arpCache'[k] \subseteq Addr
                          /\ \A x \in DOMAIN arpCache'[k] : arpCache'[k][x] \in Entry
        OBVIOUS
      <4>1. CASE k = h
        BY <1>0, <2>2, <2>b, <4>1
      <4>2. CASE k # h
        <5>1. arpCache'[k] = arpCache[k]
          BY <2>b, <4>2
        <5> QED
          BY <5>1, Zenon
      <4> QED
        BY <4>1, <4>2
    <3>2. /\ isUp' \in [Host -> BOOLEAN]
          /\ lan' \in SUBSET ArpPacket
      BY <1>0, <1>1
    <3> QED
      BY <2>b, <2>d, <3>1, <3>2, Zenon
  <2>4. OneTimerPerResolution'
    <3> SUFFICES ASSUME NEW k \in Host, NEW x \in Addr
                 PROVE  timer'[k][x] = IF Pending(k, x)' THEN 1 ELSE 0
      BY DEF OneTimerPerResolution
    <3>1. Pending(k, x)' = IF k = h /\ x = a THEN FALSE ELSE Pending(k, x)
      BY <1>0, <2>2, <2>b DEF Pending
    <3>2. timer[k][x] = IF Pending(k, x) THEN 1 ELSE 0
      BY DEF OneTimerPerResolution
    <3> QED
      BY <2>c, <3>1, <3>2
  <2>5. QuietWhenDown'
    BY <1>0, <2>b, <2>c DEF QuietWhenDown
  <2>6. MacIsRight'
    <3> SUFFICES ASSUME NEW k \in Host, NEW x \in DOMAIN arpCache'[k],
                        ~arpCache'[k][x].pending
                 PROVE  arpCache'[k][x].macAddress \in Answerers(x)
      BY Zenon DEF MacIsRight, Answerers
    <3>1. CASE k = h /\ x = a
      <4>1. arpCache'[k][x] = e
        BY <2>b, <3>1
      <4> QED
        BY <1>0, <2>2, <3>1, <4>1
    <3>2. CASE ~(k = h /\ x = a)
      <4>1. x \in DOMAIN arpCache[k] /\ arpCache'[k][x] = arpCache[k][x]
        BY <1>0, <2>b, <3>2
      <4> QED
        BY <4>1, Zenon DEF MacIsRight
    <3> QED
      BY <3>1, <3>2
  <2>7. RequestsBounded'
    <3> SUFFICES ASSUME NEW k \in Host, NEW x \in DOMAIN arpCache'[k]
                 PROVE  arpCache'[k][x].numRetries + 1 <=
                            IF retryCount > 1 THEN retryCount ELSE 1
      BY Zenon DEF RequestsBounded
    <3>1. CASE k = h /\ x = a
      <4>1. arpCache'[k][x] = e
        BY <2>b, <3>1
      <4> QED
        BY <2>2, <4>1
    <3>2. CASE ~(k = h /\ x = a)
      <4>1. x \in DOMAIN arpCache[k] /\ arpCache'[k][x] = arpCache[k][x]
        BY <1>0, <2>b, <3>2
      <4> QED
        BY <4>1, Zenon DEF RequestsBounded
    <3> QED
      BY <3>1, <3>2
  <2> QED
    BY <1>1, <2>3, <2>4, <2>5, <2>6, <2>7
<1> QED
  BY <1>2, <1>3

\* ARP::stop keeps it: every entry goes, and the timer of a pending one with it.
LEMMA StopKeepsArpInv ==
    ASSUME ArpInv, NEW h \in Host, stop(h)
    PROVE  ArpInv'
<1> USE ArpAssumption DEF ArpInv, ArpTypeOK
<1>1. /\ isUp' = [isUp EXCEPT ![h] = FALSE]
      /\ arpCache' = [arpCache EXCEPT ![h] = EmptyCache]
      /\ lan' = lan
      /\ DOMAIN EmptyCache = {}
  BY DEF stop, flush, EmptyCache
<1>2. timer' = [timer EXCEPT ![h] = NoTimers]
  <2>1. timer' = [timer EXCEPT ![h] =
                    [a \in Addr |-> IF Pending(h, a) THEN timer[h][a] - 1
                                                     ELSE timer[h][a]]]
    BY DEF stop, flush
  <2>2. [a \in Addr |-> IF Pending(h, a) THEN timer[h][a] - 1 ELSE timer[h][a]]
          = NoTimers
    BY DEF OneTimerPerResolution, NoTimers
  <2> QED
    BY <2>1, <2>2
<1>3. NoTimers \in [Addr -> Nat] /\ \A a \in Addr : NoTimers[a] = 0
  BY DEF NoTimers
<1> QED
  BY <1>1, <1>2, <1>3 DEF OneTimerPerResolution, Pending, QuietWhenDown,
                          MacIsRight, RequestsBounded, LanHonest

\* ARP::start keeps it: the cache of a stopped host is empty.
LEMMA StartUpKeepsArpInv ==
    ASSUME ArpInv, NEW h \in Host, start(h)
    PROVE  ArpInv'
  BY DEF ArpInv, ArpTypeOK, start, OneTimerPerResolution, Pending,
         QuietWhenDown, MacIsRight, RequestsBounded, LanHonest

\* An entry that expires stays an entry, and its MAC address stays right.
LEMMA ExpiryKeepsArpInv ==
    ASSUME ArpInv, NEW h \in Host, NEW a \in Addr, EntryExpires(h, a)
    PROVE  ArpInv'
<1> USE ArpAssumption DEF ArpInv, ArpTypeOK
<1> DEFINE e == [arpCache[h][a] EXCEPT !.fresh = FALSE]
<1>1. /\ a \in DOMAIN arpCache[h]
      /\ arpCache' = [arpCache EXCEPT ![h][a] = e]
      /\ UNCHANGED <<isUp, timer, lan>>
  BY DEF EntryExpires
<1>2. arpCache[h][a] \in Entry
  BY <1>1
<1>3. /\ e \in Entry
      /\ e.pending = arpCache[h][a].pending
      /\ e.macAddress = arpCache[h][a].macAddress
      /\ e.numRetries = arpCache[h][a].numRetries
  BY <1>2 DEF Entry
<1> HIDE DEF e
<1>4. /\ DOMAIN arpCache' = Host
      /\ \A k \in Host :
           /\ DOMAIN arpCache'[k] = DOMAIN arpCache[k]
           /\ \A x \in DOMAIN arpCache[k] :
                arpCache'[k][x] = IF k = h /\ x = a THEN e ELSE arpCache[k][x]
  BY <1>1
<1>5. ArpTypeOK'
  BY <1>1, <1>3, <1>4
<1>6. OneTimerPerResolution'
  BY <1>1, <1>3, <1>4 DEF OneTimerPerResolution, Pending
<1>7. QuietWhenDown'
  BY <1>1, <1>4 DEF QuietWhenDown
<1>8. MacIsRight' /\ RequestsBounded'
  BY <1>1, <1>3, <1>4 DEF MacIsRight, RequestsBounded
<1> QED
  BY <1>1, <1>5, <1>6, <1>7, <1>8 DEF LanHonest

\* Losing a packet, or dropping one at a stopped host, keeps it.
LEMMA LanKeepsArpInv ==
    ASSUME ArpInv, NEW p \in lan, handleMessageWhenDown(p) \/ PacketLost(p)
    PROVE  ArpInv'
  BY DEF ArpInv, ArpTypeOK, handleMessageWhenDown, PacketLost, LanHonest,
         OneTimerPerResolution, Pending, QuietWhenDown, MacIsRight, RequestsBounded

-----------------------------------------------------------------------------
Mac == Host \cup Group

\* One next hop of one host: out is sent, q waits, n datagrams were handed over.
FlowOK(out, q, n) ==
    /\ out \in Seq(Nat \X Mac)
    /\ q \in Seq(Nat)
    /\ n \in Nat
    /\ InOrder(out, q)
    /\ \A i \in 1..Len(out) : out[i][1] <= n
    /\ \A i \in 1..Len(q) : q[i] <= n

\* The inductive invariant of the composition.
IInv ==
    /\ ArpInv
    /\ pendingPackets \in [Host -> [NextHop -> Seq(Nat)]]
    /\ numSent \in [Host -> [NextHop -> Nat]]
    /\ nic \in [Host -> [NextHop -> Seq(Nat \X Mac)]]
    /\ WaitingMeansPending
    /\ \A h \in Host, a \in NextHop :
          FlowOK(nic[h][a], pendingPackets[h][a], numSent[h][a])

QueueVars == <<pendingPackets, numSent, nic>>

\* A datagram that joins the queue comes after all that was sent or waits.
LEMMA FlowEnqueue ==
    ASSUME NEW out, NEW q, NEW n, FlowOK(out, q, n)
    PROVE  FlowOK(out, Append(q, n + 1), n + 1)
<1> DEFINE r == Append(q, n + 1)
<1>1. /\ r \in Seq(Nat)
      /\ Len(r) = Len(q) + 1
      /\ Len(q) \in Nat
      /\ \A i \in 1..Len(q) : r[i] = q[i] /\ q[i] \in Nat
      /\ r[Len(q) + 1] = n + 1
  BY DEF FlowOK
<1>2. \A i \in 1..Len(out) : out[i][1] \in Nat
  BY DEF FlowOK
<1> HIDE DEF r
<1>3. \A i \in 1..Len(r) :
         \/ i = Len(q) + 1 /\ r[i] = n + 1
         \/ i \in 1..Len(q) /\ r[i] = q[i] /\ q[i] \in Nat /\ q[i] <= n
  BY <1>1 DEF FlowOK
<1>4. InOrder(out, r)
  <2>1. ASSUME NEW i \in 1..Len(r), NEW j \in 1..Len(r), i < j
        PROVE  r[i] < r[j]
    <3>1. n \in Nat /\ \A x, y \in 1..Len(q) : x < y => q[x] < q[y]
      BY DEF FlowOK, InOrder
    <3>2. i \in 1..Len(q) /\ r[i] = q[i] /\ q[i] \in Nat /\ q[i] <= n
      BY <1>1, <1>3, <2>1
    <3>3. CASE j = Len(q) + 1 /\ r[j] = n + 1
      BY <3>1, <3>2, <3>3
    <3>4. CASE j \in 1..Len(q) /\ r[j] = q[j]
      BY <2>1, <3>1, <3>2, <3>4
    <3> QED
      BY <1>3, <3>3, <3>4
  <2>2. ASSUME NEW i \in 1..Len(out), NEW j \in 1..Len(r)
        PROVE  out[i][1] < r[j]
    <3>1. /\ n \in Nat
          /\ out[i][1] <= n
          /\ \A y \in 1..Len(q) : out[i][1] < q[y]
      BY DEF FlowOK, InOrder
    <3> QED
      BY <1>2, <1>3, <3>1
  <2>3. \A i, j \in 1..Len(out) : i < j => out[i][1] < out[j][1]
    BY DEF FlowOK, InOrder
  <2> QED
    BY <2>1, <2>2, <2>3 DEF InOrder
<1>5. FlowOK(out, r, n + 1)
  <2>1. /\ n \in Nat /\ out \in Seq(Nat \X Mac)
        /\ \A i \in 1..Len(out) : out[i][1] <= n
    BY DEF FlowOK
  <2>2. \A i \in 1..Len(r) : r[i] <= n + 1
    <3> SUFFICES ASSUME NEW i \in 1..Len(r) PROVE r[i] <= n + 1
      OBVIOUS
    <3>1. CASE r[i] = n + 1
      BY <2>1, <3>1
    <3>2. CASE r[i] = q[i] /\ q[i] \in Nat /\ q[i] <= n
      BY <2>1, <3>2
    <3> QED
      BY <1>3, <3>1, <3>2
  <2>3. \A i \in 1..Len(out) : out[i][1] <= n + 1
    BY <1>2, <2>1
  <2> QED
    BY <1>1, <1>4, <2>1, <2>2, <2>3 DEF FlowOK
<1> QED
  BY <1>5 DEF r

\* A datagram sent past an empty queue is later than everything sent before.
LEMMA FlowSend ==
    ASSUME NEW out, NEW n, NEW m \in Mac, FlowOK(out, <<>>, n)
    PROVE  FlowOK(Append(out, <<n + 1, m>>), <<>>, n + 1)
<1> DEFINE r == Append(out, <<n + 1, m>>)
<1>0. out \in Seq(Nat \X Mac) /\ n \in Nat /\ <<n + 1, m>> \in Nat \X Mac
  BY DEF FlowOK
<1>1. /\ r \in Seq(Nat \X Mac)
      /\ Len(r) = Len(out) + 1
      /\ Len(out) \in Nat
      /\ \A i \in 1..Len(out) : r[i] = out[i] /\ out[i] \in Nat \X Mac
      /\ r[Len(out) + 1] = <<n + 1, m>>
  BY <1>0, AppendProperties, ElementOfSeq
<1> HIDE DEF r
<1>a. \A i \in 1..Len(out) : out[i][1] \in Nat
  BY <1>0
<1>b. r[Len(out) + 1][1] = n + 1
  BY <1>1
<1>2. \A i \in 1..Len(r) :
         \/ i = Len(out) + 1 /\ r[i][1] = n + 1
         \/ i \in 1..Len(out) /\ r[i][1] = out[i][1] /\ out[i][1] \in Nat /\ out[i][1] <= n
  BY <1>1, <1>a, <1>b DEF FlowOK
<1>3. Len(<<>>) = 0 /\ <<>> \in Seq(Nat)
  OBVIOUS
<1>4. InOrder(r, <<>>)
  <2>1. ASSUME NEW i \in 1..Len(r), NEW j \in 1..Len(r), i < j
        PROVE  r[i][1] < r[j][1]
    <3>1. \A x, y \in 1..Len(out) : x < y => out[x][1] < out[y][1]
      BY DEF FlowOK, InOrder
    <3>2. i \in 1..Len(out) /\ r[i][1] = out[i][1] /\ out[i][1] \in Nat /\ out[i][1] <= n
      BY <1>1, <1>2, <2>1
    <3>3. CASE j = Len(out) + 1 /\ r[j][1] = n + 1
      BY <1>0, <3>2, <3>3
    <3>4. CASE j \in 1..Len(out) /\ r[j][1] = out[j][1]
      BY <2>1, <3>1, <3>2, <3>4
    <3> QED
      BY <1>2, <3>3, <3>4
  <2> QED
    BY <1>3, <2>1 DEF InOrder
<1>5. FlowOK(r, <<>>, n + 1)
  <2>1. ASSUME NEW i \in 1..Len(r)
        PROVE  r[i][1] <= n + 1
    <3>1. CASE r[i][1] = n + 1
      BY <1>0, <3>1
    <3>2. CASE r[i][1] = out[i][1] /\ out[i][1] \in Nat /\ out[i][1] <= n
      BY <1>0, <3>2
    <3> QED
      BY <1>2, <3>1, <3>2
  <2>2. \A i \in 1..Len(<<>>) : <<>>[i] <= n + 1
    BY <1>3
  <2>3. n + 1 \in Nat
    BY <1>0
  <2> QED
    BY <1>1, <1>3, <1>4, <2>1, <2>2, <2>3, Zenon DEF FlowOK
<1> QED
  BY <1>5 DEF r

\* Frames makes one frame per queued datagram, in the same order.
LEMMA FramesSeq ==
    ASSUME NEW q \in Seq(Nat), NEW m \in Mac
    PROVE  /\ Frames(q, m) \in Seq(Nat \X Mac)
           /\ Len(Frames(q, m)) = Len(q)
           /\ \A i \in 1..Len(q) : Frames(q, m)[i] = <<q[i], m>>
  BY DEF Frames

\* Sending the whole queue keeps the order of what has left.
LEMMA FlowRelease ==
    ASSUME NEW out, NEW q, NEW n, NEW m \in Mac, FlowOK(out, q, n)
    PROVE  FlowOK(out \o Frames(q, m), <<>>, n)
<1> DEFINE f == Frames(q, m)
           r == out \o f
           k == Len(out)
<1>0. out \in Seq(Nat \X Mac) /\ n \in Nat /\ q \in Seq(Nat)
  BY DEF FlowOK
<1>1. /\ f \in Seq(Nat \X Mac)
      /\ Len(f) = Len(q)
      /\ \A i \in 1..Len(q) : f[i] = <<q[i], m>>
  BY <1>0, FramesSeq
<1> HIDE DEF f
<1>2. /\ r \in Seq(Nat \X Mac)
      /\ Len(r) = Len(out) + Len(f)
      /\ \A i \in 1..(Len(out) + Len(f)) :
            r[i] = IF i <= Len(out) THEN out[i] ELSE f[i - Len(out)]
  <2>1. /\ out \in Seq(Nat \X Mac)
        /\ f \in Seq(Nat \X Mac)
    BY <1>0, <1>1
  <2> QED
    BY <2>1, ConcatProperties, Zenon
<1> HIDE DEF r
<1>4. /\ \A i \in 1..k : out[i][1] \in Nat
      /\ \A i \in 1..Len(q) : q[i] \in Nat
      /\ Len(<<>>) = 0 /\ <<>> \in Seq(Nat)
      /\ k \in Nat /\ Len(q) \in Nat
  BY <1>0
<1> HIDE DEF k
<1>b. \A i \in 1..Len(q) : f[i][1] = q[i]
  BY <1>1
<1>c. /\ Len(r) = k + Len(q)
      /\ \A i \in 1..k : r[i] = out[i]
      /\ \A i \in (k + 1)..Len(r) : r[i] = f[i - k] /\ i - k \in 1..Len(q)
  <2>1. /\ Len(r) = k + Len(q)
        /\ \A i \in 1..(k + Len(q)) :
              r[i] = IF i <= k THEN out[i] ELSE f[i - k]
    BY <1>1, <1>2 DEF k
  <2> QED
    BY <1>4, <2>1
<1>3. /\ Len(r) = k + Len(q)
      /\ \A i \in 1..k : r[i][1] = out[i][1]
      /\ \A i \in (k + 1)..Len(r) : r[i][1] = q[i - k] /\ i - k \in 1..Len(q)
  BY <1>b, <1>c
<1>a. /\ \A i, j \in 1..k : i < j => out[i][1] < out[j][1]
      /\ \A i, j \in 1..Len(q) : i < j => q[i] < q[j]
      /\ \A i \in 1..k, j \in 1..Len(q) : out[i][1] < q[j]
      /\ \A i \in 1..k : out[i][1] <= n
      /\ \A i \in 1..Len(q) : q[i] <= n
  BY DEF FlowOK, InOrder, k
<1>5. ASSUME NEW i \in 1..Len(r), NEW j \in 1..Len(r), i < j
      PROVE  r[i][1] < r[j][1]
  <2>1. CASE j <= k
    BY <1>5, <1>3, <1>4, <1>a, <2>1
  <2>2. CASE i <= k /\ k < j
    BY <1>5, <1>3, <1>4, <1>a, <2>2
  <2>3. CASE k < i
    BY <1>5, <1>3, <1>4, <1>a, <2>3
  <2> QED
    BY <1>3, <1>4, <1>5, <2>1, <2>2, <2>3
<1>6. \A i \in 1..Len(r) : r[i][1] <= n
  <2> SUFFICES ASSUME NEW i \in 1..Len(r) PROVE r[i][1] <= n
    OBVIOUS
  <2>1. CASE i <= k
    BY <1>3, <1>4, <1>a, <2>1
  <2>2. CASE k < i
    BY <1>3, <1>4, <1>a, <2>2
  <2> QED BY <1>3, <1>4, <2>1, <2>2
<1>7. InOrder(r, <<>>)
  BY <1>4, <1>5 DEF InOrder
<1>8. FlowOK(r, <<>>, n)
  BY <1>0, <1>2, <1>4, <1>6, <1>7 DEF FlowOK
<1> QED
  BY <1>8 DEF r, f

\* Dropping the whole queue keeps the order of what has left.
LEMMA FlowDrop ==
    ASSUME NEW out, NEW q, NEW n, FlowOK(out, q, n)
    PROVE  FlowOK(out, <<>>, n)
<1>1. /\ <<>> \in Seq(Nat)
      /\ 1..Len(<<>>) = {}
  OBVIOUS
<1>2. /\ out \in Seq(Nat \X Mac)
      /\ n \in Nat
      /\ \A i \in 1..Len(out) : out[i][1] <= n
  BY Zenon DEF FlowOK
<1>3. \A i, j \in 1..Len(out) : i < j => out[i][1] < out[j][1]
  BY Zenon DEF FlowOK, InOrder
<1>4. InOrder(out, <<>>)
  BY <1>1, <1>3, Zenon DEF InOrder
<1> QED
  BY <1>1, <1>2, <1>4, Zenon DEF FlowOK

\* The queues are untouched and ARP ends no resolution: the invariant stays.
LEMMA QueuesUntouched ==
    ASSUME IInv, ArpInv', UNCHANGED QueueVars,
           \A h \in Host, a \in Addr : Pending(h, a) => Pending(h, a)'
    PROVE  IInv'
  BY DEF IInv, QueueVars, WaitingMeansPending

\* What getMACAddressFor returns is the MAC address of an answerer.
LEMMA CachedMacIsRight ==
    ASSUME ArpInv, NEW h \in Host, NEW a \in Addr,
           getMACAddressFor(h, a) # Unspecified
    PROVE  /\ getMACAddressFor(h, a) \in Answerers(a)
           /\ ~Pending(h, a)
  BY DEF getMACAddressFor, ArpInv, MacIsRight, Pending

\* The MAC address a datagram is sent to at once is right, and nobody waits.
LEMMA ResolvedIsRight ==
    ASSUME IInv, NEW h \in Host, NEW a \in NextHop,
           resolveNextHopMacAddress(h, a) # Unspecified
    PROVE  /\ resolveNextHopMacAddress(h, a) \in RightMac(a)
           /\ pendingPackets[h][a] = <<>>
<1>1. CASE a \in Group
  BY <1>1, OutputAssumption
     DEF resolveNextHopMacAddress, RightMac, IInv, WaitingMeansPending
<1>2. CASE a \notin Group
  BY <1>2, CachedMacIsRight
     DEF resolveNextHopMacAddress, RightMac, IInv, WaitingMeansPending, NextHop
<1> QED
  BY <1>1, <1>2

\* A right MAC address is a MAC address.
LEMMA RightMacType ==
    ASSUME NEW a \in NextHop
    PROVE  RightMac(a) \subseteq Mac
  BY DEF RightMac, Answerers, Mac

\* sendDatagramToOutput: either nobody waits, or the datagram waits behind them.
LEMMA SendKeepsIInv ==
    ASSUME IInv, NEW h \in Host, NEW a \in NextHop, sendDatagramToOutput(h, a)
    PROVE  IInv'
<1> DEFINE n == numSent[h][a]
           q == pendingPackets[h][a]
           out == nic[h][a]
           mac == resolveNextHopMacAddress(h, a)
<1>0. /\ FlowOK(out, q, n)
      /\ n + 1 \in Nat
      /\ isUp[h]
      /\ numSent' = [numSent EXCEPT ![h][a] = n + 1]
      /\ numSent' \in [Host -> [NextHop -> Nat]]
  BY DEF IInv, sendDatagramToOutput
<1>1. CASE mac = Unspecified
  <2>1. /\ pendingPackets' = [pendingPackets EXCEPT ![h][a] = Append(q, n + 1)]
        /\ startAddressResolution(h, a)
        /\ nic' = nic
        /\ a \in Addr
    BY <1>1, OutputAssumption
       DEF sendDatagramToOutput, Enqueue, resolveNextHopMacAddress, NextHop
  <2>2. ArpInv'
    BY <1>0, <2>1, StartKeepsArpInv DEF IInv
  <2>3. FlowOK(out, Append(q, n + 1), n + 1)
    BY <1>0, FlowEnqueue
  <2>4. pendingPackets' \in [Host -> [NextHop -> Seq(Nat)]]
    BY <2>1, <2>3 DEF IInv, FlowOK
  <2>5. /\ Pending(h, a)'
        /\ \A k \in Host, x \in Addr : Pending(k, x) => Pending(k, x)'
    <3>1. CASE Pending(h, a)
      BY <2>1, <3>1 DEF startAddressResolution, Pending
    <3>2. CASE ~Pending(h, a)
      <4>1. arpCache' = [arpCache EXCEPT ![h] = Put(@, a, PendingEntry)]
        BY <2>1, <3>2 DEF startAddressResolution, initiateARPResolution
      <4> QED
        BY <4>1 DEF Pending, Put, PendingEntry, IInv, ArpInv, ArpTypeOK
    <3> QED
      BY <3>1, <3>2
  <2>6. WaitingMeansPending'
    BY <2>1, <2>5 DEF IInv, WaitingMeansPending
  <2>7. \A k \in Host, x \in NextHop :
           FlowOK(nic'[k][x], pendingPackets'[k][x], numSent'[k][x])
    BY <1>0, <2>1, <2>3 DEF IInv
  <2> QED
    BY <1>0, <2>1, <2>2, <2>4, <2>6, <2>7 DEF IInv
<1>2. CASE mac # Unspecified
  <2>1. /\ nic' = [nic EXCEPT ![h][a] = Append(out, <<n + 1, mac>>)]
        /\ UNCHANGED <<arpVars, pendingPackets>>
    BY <1>2 DEF sendDatagramToOutput
  <2>2. /\ q = <<>>
        /\ mac \in Mac
    BY <1>2, ResolvedIsRight, RightMacType
  <2>3. ArpInv'
    <3>1. isUp' = isUp /\ arpCache' = arpCache /\ timer' = timer /\ lan' = lan
      BY <2>1 DEF arpVars
    <3>2. ArpInv
      BY DEF IInv
    <3> QED
      BY <3>1, <3>2, ArpInvUntouched
  <2>4. FlowOK(Append(out, <<n + 1, mac>>), <<>>, n + 1)
    BY <1>0, <2>2, FlowSend
  <2>5. nic' \in [Host -> [NextHop -> Seq(Nat \X Mac)]]
    BY <2>1, <2>4 DEF IInv, FlowOK
  <2>6. WaitingMeansPending'
    BY <2>1 DEF IInv, WaitingMeansPending, arpVars, Pending
  <2>7. \A k \in Host, x \in NextHop :
           FlowOK(nic'[k][x], pendingPackets'[k][x], numSent'[k][x])
    BY <1>0, <2>1, <2>2, <2>4 DEF IInv
  <2> QED
    BY <1>0, <2>1, <2>3, <2>5, <2>6, <2>7 DEF IInv
<1> QED
  BY <1>1, <1>2

\* An arriving ARP packet completes only what waits for its sender.
LEMMA ArrivalKeepsIInv ==
    ASSUME IInv, NEW p \in lan, ArpPacketArrives(p)
    PROVE  IInv'
<1> DEFINE h == p.to
           a == p.srcIP
           m == p.srcMAC
           q == pendingPackets[h][a]
           out == nic[h][a]
<1>1. ArpInv'
  BY PacketKeepsArpInv DEF ArpPacketArrives, IInv
<1>2. /\ h \in Host
      /\ a \in Addr
      /\ a \in NextHop
      /\ m \in Mac
      /\ numSent' = numSent
  BY DEF IInv, ArpInv, ArpTypeOK, ArpPacket, ArpPacketArrives, Mac, NextHop
<1>3. CASE ~Learns(p)
  <2>1. /\ UNCHANGED QueueVars
        /\ arpCache' = arpCache
    BY <1>3 DEF ArpPacketArrives, processARPPacket, QueueVars
  <2> QED
    BY <1>1, <2>1, QueuesUntouched DEF Pending
<1>4. CASE Learns(p)
  <2>1. /\ nic' = [nic EXCEPT ![h][a] = out \o Frames(q, m)]
        /\ pendingPackets' = [pendingPackets EXCEPT ![h][a] = <<>>]
        /\ arpCache' = [arpCache EXCEPT ![h] = Put(@, a, ResolvedEntry(m))]
    BY <1>4 DEF ArpPacketArrives, processARPPacket, updateARPCache,
                arpResolutionCompleted
  <2>2. FlowOK(out \o Frames(q, m), <<>>, numSent[h][a])
    BY <1>2, FlowRelease DEF IInv
  <2> HIDE DEF h, a, m, q, out
  <2>3. /\ nic' \in [Host -> [NextHop -> Seq(Nat \X Mac)]]
        /\ pendingPackets' \in [Host -> [NextHop -> Seq(Nat)]]
    BY <1>2, <2>1, <2>2 DEF IInv, FlowOK
  <2>4. \A k \in Host, x \in Addr :
           <<k, x>> # <<h, a>> => (Pending(k, x) => Pending(k, x)')
    BY <1>2, <2>1 DEF Pending, Put, IInv, ArpInv, ArpTypeOK
  <2>5. WaitingMeansPending'
    BY <1>2, <2>1, <2>4 DEF IInv, WaitingMeansPending
  <2>6. \A k \in Host, x \in NextHop :
           FlowOK(nic'[k][x], pendingPackets'[k][x], numSent'[k][x])
    BY <1>2, <2>1, <2>2 DEF IInv
  <2> QED
    BY <1>1, <1>2, <2>3, <2>5, <2>6 DEF IInv
<1> QED
  BY <1>3, <1>4

\* A timeout that ends the resolution also empties the queue behind it.
LEMMA ArpTimeoutKeepsIInv ==
    ASSUME IInv, NEW h \in Host, NEW a \in Addr, ArpTimeout(h, a)
    PROVE  IInv'
<1>1. ArpInv'
  BY TimeoutKeepsArpInv DEF ArpTimeout, IInv
<1>2. /\ UNCHANGED <<numSent, nic>>
      /\ a \in NextHop
  BY DEF ArpTimeout, NextHop
<1>3. CASE ResolutionFails(h, a)
  <2>1. /\ pendingPackets' = [pendingPackets EXCEPT ![h][a] = <<>>]
        /\ arpCache' = [arpCache EXCEPT ![h] = Erase(@, a)]
    BY <1>3 DEF ArpTimeout, requestTimedOut, arpResolutionTimedOut
  <2>2. FlowOK(nic[h][a], <<>>, numSent[h][a])
    BY <1>2, FlowDrop DEF IInv
  <2>3. pendingPackets' \in [Host -> [NextHop -> Seq(Nat)]]
    BY <1>2, <2>1, <2>2 DEF IInv, FlowOK
  <2>4. \A k \in Host, x \in Addr :
           <<k, x>> # <<h, a>> => (Pending(k, x) => Pending(k, x)')
    BY <1>2, <2>1 DEF Pending, Erase, Restrict, IInv, ArpInv, ArpTypeOK
  <2>5. WaitingMeansPending'
    BY <1>2, <2>1, <2>4 DEF IInv, WaitingMeansPending
  <2>6. \A k \in Host, x \in NextHop :
           FlowOK(nic'[k][x], pendingPackets'[k][x], numSent'[k][x])
    BY <1>2, <2>1, <2>2 DEF IInv
  <2> QED
    BY <1>1, <1>2, <2>3, <2>5, <2>6 DEF IInv
<1>4. CASE ~ResolutionFails(h, a)
  <2>1. /\ UNCHANGED QueueVars
        /\ arpCache' = [arpCache EXCEPT ![h][a].numRetries = @ + 1]
        /\ Pending(h, a)
    BY <1>4 DEF ArpTimeout, requestTimedOut, QueueVars, IInv, ArpInv, ArpTypeOK,
                OneTimerPerResolution
  <2>2. \A k \in Host, x \in Addr : Pending(k, x) => Pending(k, x)'
    BY <2>1 DEF Pending, IInv, ArpInv, ArpTypeOK, Entry
  <2> QED
    BY <1>1, <2>1, <2>2, QueuesUntouched
<1> QED
  BY <1>3, <1>4

\* IPv4::stop empties the queues of the host together with its ARP cache.
LEMMA NodeStopKeepsIInv ==
    ASSUME IInv, NEW h \in Host, NodeStop(h)
    PROVE  IInv'
<1> DEFINE none == [a \in NextHop |-> <<>>]
<1>1. ArpInv'
  BY StopKeepsArpInv DEF NodeStop, IInv
<1>2. /\ pendingPackets' = [pendingPackets EXCEPT ![h] = none]
      /\ UNCHANGED <<numSent, nic>>
      /\ arpCache' = [arpCache EXCEPT ![h] = EmptyCache]
  BY DEF NodeStop, stop, flush
<1>3. pendingPackets' \in [Host -> [NextHop -> Seq(Nat)]]
  BY <1>2 DEF IInv
<1>4. WaitingMeansPending'
  BY <1>2 DEF IInv, WaitingMeansPending, Pending, ArpInv, ArpTypeOK
<1>5. ASSUME NEW k \in Host, NEW x \in NextHop
      PROVE  FlowOK(nic'[k][x], pendingPackets'[k][x], numSent'[k][x])
  <2>1. CASE k = h
    BY <1>2, <2>1, FlowDrop DEF IInv
  <2>2. CASE k # h
    BY <1>2, <2>2 DEF IInv
  <2> QED
    BY <2>1, <2>2
<1> QED
  BY <1>1, <1>2, <1>3, <1>4, <1>5 DEF IInv

\* What IPv4 does not see ends no resolution.
LEMMA SilentKeepsIInv ==
    ASSUME IInv, Silent
    PROVE  IInv'
<1>1. UNCHANGED QueueVars
  BY DEF Silent, QueueVars
<1>2. CASE \E p \in lan : handleMessageWhenDown(p) \/ PacketLost(p)
  <2>1. arpCache' = arpCache
    BY <1>2 DEF handleMessageWhenDown, PacketLost
  <2>2. ArpInv'
    BY <1>2, LanKeepsArpInv DEF IInv
  <2> QED
    BY <1>1, <2>1, <2>2, QueuesUntouched DEF Pending
<1>3. CASE \E h \in Host, a \in Addr : EntryExpires(h, a)
  <2>1. PICK h \in Host, a \in Addr : EntryExpires(h, a)
    BY <1>3
  <2>2. ArpInv'
    BY <2>1, ExpiryKeepsArpInv DEF IInv
  <2>3. \A k \in Host, x \in Addr : Pending(k, x) => Pending(k, x)'
    BY <2>1 DEF EntryExpires, Pending, IInv, ArpInv, ArpTypeOK, Entry
  <2> QED
    BY <1>1, <2>2, <2>3, QueuesUntouched
<1> QED
  BY <1>2, <1>3 DEF Silent

\* A restart begins with no entry and with nobody waiting.
LEMMA NodeStartKeepsIInv ==
    ASSUME IInv, NEW h \in Host, NodeStart(h)
    PROVE  IInv'
<1>1. ArpInv'
  BY StartUpKeepsArpInv DEF NodeStart, IInv
<1>2. UNCHANGED <<QueueVars, arpCache>>
  BY DEF NodeStart, start, QueueVars
<1> QED
  BY <1>1, <1>2, QueuesUntouched DEF Pending

\* Nothing waits, is cached or is on its way in the beginning.
LEMMA InitIInv == Init => IInv
<1> SUFFICES ASSUME Init PROVE IInv
  OBVIOUS
<1>1. ArpInv
  BY ArpAssumption
     DEF Init, ArpInit, ArpInv, ArpTypeOK, EmptyCache, NoTimers, Pending, LanHonest,
         OneTimerPerResolution, QuietWhenDown, MacIsRight, RequestsBounded
<1>2. /\ pendingPackets \in [Host -> [NextHop -> Seq(Nat)]]
      /\ numSent \in [Host -> [NextHop -> Nat]]
      /\ nic \in [Host -> [NextHop -> Seq(Nat \X Mac)]]
      /\ WaitingMeansPending
  BY DEF Init, WaitingMeansPending
<1>3. FlowOK(<<>>, <<>>, 0)
  BY DEF FlowOK, InOrder
<1>4. \A h \in Host, a \in NextHop :
         FlowOK(nic[h][a], pendingPackets[h][a], numSent[h][a])
  BY <1>3 DEF Init
<1> QED
  BY <1>1, <1>2, <1>4 DEF IInv

\* The invariant is inductive.
LEMMA NextIInv == IInv /\ [Next]_vars => IInv'
<1> SUFFICES ASSUME IInv, [Next]_vars PROVE IInv'
  OBVIOUS
<1>1. CASE \E h \in Host : NodeStop(h) \/ NodeStart(h)
  BY <1>1, NodeStopKeepsIInv, NodeStartKeepsIInv
<1>2. CASE \E h \in Host, a \in NextHop : sendDatagramToOutput(h, a)
  BY <1>2, SendKeepsIInv
<1>3. CASE \E h \in Host, a \in Addr : ArpTimeout(h, a)
  BY <1>3, ArpTimeoutKeepsIInv
<1>4. CASE \E p \in lan : ArpPacketArrives(p)
  BY <1>4, ArrivalKeepsIInv
<1>5. CASE Silent
  BY <1>5, SilentKeepsIInv
<1>6. CASE UNCHANGED vars
  <2>1. ArpInv'
    BY <1>6 DEF vars, IInv, ArpInv, ArpTypeOK, OneTimerPerResolution, Pending,
                QuietWhenDown, MacIsRight, RequestsBounded, LanHonest
  <2> QED
    BY <1>6, <2>1, QueuesUntouched DEF vars, QueueVars, Pending
<1> QED
  BY <1>1, <1>2, <1>3, <1>4, <1>5, <1>6 DEF Next

\* It holds in every reachable state.
LEMMA Invariance == Spec => []IInv
<1> QED
  BY InitIInv, NextIInv, PTL DEF Spec

-----------------------------------------------------------------------------
\* Type correctness of the composition of IPv4 output and ARP.
THEOREM TypeCorrect == Spec => []TypeOK
<1>1. IInv => TypeOK
  BY DEF IInv, ArpInv, TypeOK, Mac
<1> QED
  BY <1>1, Invariance, PTL

\* ARP.cc: a request timer runs exactly for the entries under resolution, so
\* requestTimedOut never works on an entry that is resolved or gone.
THEOREM ArpSafe == Spec => []OneTimerPerResolution
<1>1. IInv => OneTimerPerResolution
  BY DEF IInv, ArpInv
<1> QED
  BY <1>1, Invariance, PTL

\* ARP.cc: stop leaves neither a cache entry nor a timer behind.
THEOREM StoppedIsQuiet == Spec => []QuietWhenDown
<1>1. IInv => QuietWhenDown
  BY DEF IInv, ArpInv
<1> QED
  BY <1>1, Invariance, PTL

\* ARP.cc: a resolved entry has the MAC address of its owner or of a proxy.
THEOREM ResolvedRight == Spec => []MacIsRight
<1>1. IInv => MacIsRight
  BY DEF IInv, ArpInv
<1> QED
  BY <1>1, Invariance, PTL

\* ARP.cc: a resolution sends at most retryCount requests.
THEOREM RetriesBounded == Spec => []RequestsBounded
<1>1. IInv => RequestsBounded
  BY DEF IInv, ArpInv
<1> QED
  BY <1>1, Invariance, PTL

\* IPv4.cc: the ASSERT2 of sendDatagramToOutput cannot fail, and no datagram is
\* left in a queue whose resolution is over.
THEOREM NothingStranded == Spec => []WaitingMeansPending
<1>1. IInv => WaitingMeansPending
  BY DEF IInv
<1> QED
  BY <1>1, Invariance, PTL

\* IPv4.cc: datagrams to one next hop leave in order, each at most once.
THEOREM FifoPerNextHop == Spec => []PerNextHopFifo
<1>1. IInv => PerNextHopFifo
  BY DEF IInv, FlowOK, PerNextHopFifo
<1> QED
  BY <1>1, Invariance, PTL

-----------------------------------------------------------------------------
\* Every step of IPv4 output is a step of the abstract queue, or no step of it.
LEMMA StepSimulation ==
    ASSUME IInv, [Next]_vars
    PROVE  [Abstract!Next]_(Abstract!vars)
<1> USE DEF Abstract!vars, Abstract!Next
<1>1. ASSUME NEW h \in Host, NodeStop(h)
      PROVE  Abstract!Down(h)
  BY <1>1 DEF NodeStop, Abstract!Down
<1>2. ASSUME NEW h \in Host, NodeStart(h)
      PROVE  UNCHANGED QueueVars
  BY <1>2 DEF NodeStart, QueueVars
<1>3. ASSUME NEW h \in Host, NEW a \in NextHop, sendDatagramToOutput(h, a)
      PROVE  Abstract!Accept(h, a) \/ \E m \in RightMac(a) : Abstract!Send(h, a, m)
  <2> DEFINE mac == resolveNextHopMacAddress(h, a)
  <2>1. CASE mac = Unspecified
    BY <1>3, <2>1 DEF sendDatagramToOutput, Enqueue, Abstract!Accept
  <2>2. CASE mac # Unspecified
    <3>1. mac \in RightMac(a) /\ pendingPackets[h][a] = <<>>
      BY <2>2, ResolvedIsRight
    <3>2. Abstract!Send(h, a, mac)
      BY <1>3, <2>2, <3>1 DEF sendDatagramToOutput, Abstract!Send
    <3> QED
      BY <3>1, <3>2
  <2> QED
    BY <2>1, <2>2
<1>4. ASSUME NEW h \in Host, NEW a \in Addr, ArpTimeout(h, a)
      PROVE  Abstract!GiveUp(h, a) \/ UNCHANGED QueueVars
  BY <1>4 DEF ArpTimeout, arpResolutionTimedOut, Abstract!GiveUp, QueueVars
<1>5. ASSUME NEW p \in lan, ArpPacketArrives(p)
      PROVE  \/ UNCHANGED QueueVars
             \/ \E h \in Host, a \in NextHop : \E m \in RightMac(a) : Abstract!Release(h, a, m)
  <2> DEFINE h == p.to
             a == p.srcIP
             m == p.srcMAC
             q == pendingPackets[h][a]
  <2>1. /\ h \in Host
        /\ a \in NextHop
        /\ a \notin Group
        /\ m \in RightMac(a)
        /\ m \in Mac
    BY OutputAssumption
       DEF IInv, ArpInv, ArpTypeOK, ArpPacket, LanHonest, RightMac, NextHop, Mac
  <2>2. CASE ~Learns(p)
    BY <1>5, <2>2 DEF ArpPacketArrives, QueueVars
  <2>3. CASE Learns(p)
    <3>1. /\ nic' = [nic EXCEPT ![h][a] = @ \o Frames(q, m)]
          /\ pendingPackets' = [pendingPackets EXCEPT ![h][a] = <<>>]
          /\ numSent' = numSent
      BY <1>5, <2>3 DEF ArpPacketArrives, arpResolutionCompleted
    <3>2. CASE q = <<>>
      <4>1. nic[h][a] \o Frames(q, m) = nic[h][a]
        <5>1. Frames(q, m) = <<>>
          BY <3>2 DEF Frames
        <5>2. nic[h][a] \in Seq(Nat \X Mac)
          BY <2>1 DEF IInv
        <5> QED
          BY <5>1, <5>2, ConcatEmptySeq
      <4>2. nic' = nic /\ pendingPackets' = pendingPackets
        BY <2>1, <3>1, <3>2, <4>1 DEF IInv
      <4> QED
        BY <3>1, <4>2 DEF QueueVars
    <3>3. CASE q # <<>>
      <4>1. Abstract!Release(h, a, m)
        BY <2>1, <3>1, <3>3 DEF Abstract!Release, Frames, Abstract!Frames
      <4> QED
        BY <2>1, <4>1
    <3> QED
      BY <3>2, <3>3
  <2> QED
    BY <2>2, <2>3
<1>6. ASSUME Silent \/ UNCHANGED vars
      PROVE  UNCHANGED QueueVars
  BY <1>6 DEF Silent, vars, QueueVars
<1>7. Addr \subseteq NextHop
  BY DEF NextHop
<1> QED
  BY <1>1, <1>2, <1>3, <1>4, <1>5, <1>6, <1>7 DEF Next, QueueVars

\* IPv4 output with ARP implements the abstract queue: order is kept, a MAC
\* address is right, and datagrams are dropped only with all that wait.
THEOREM Refinement == Spec => ImplementsNextHopQueue
<1>1. Init => Abstract!Init
  BY DEF Init, Abstract!Init
<1> QED
  BY <1>1, Invariance, StepSimulation, PTL
     DEF Spec, ImplementsNextHopQueue, Abstract!Spec

-----------------------------------------------------------------------------
(* Fragmentation and reassembly.  The buffer is treated on its own first: the
   regions it is given are pieces of one payload, two of which are equal or
   disjoint, and whatever the order in which they come, it stands for exactly
   their bytes.  Then fragmentation: the pieces of a datagram, and the pieces of
   those, are of that kind.  The invariant of the system puts the two together. *)

-----------------------------------------------------------------------------
(* Reassembly buffers *)

\* The regions of a buffer.
Regions == [beg : Nat, end : Nat, islast : BOOLEAN]

\* Two regions have no byte in common.
Disjoint(r, q) == r.end <= q.beg \/ q.end <= r.beg

\* P is a set of pieces of a payload of n bytes: not empty, marked as the last
\* one exactly when they end with the payload, and without overlaps.
Pieces(P, n) ==
    /\ P \subseteq Regions
    /\ \A r \in P : r.beg < r.end /\ r.end <= n /\ (r.islast <=> r.end = n)
    /\ \A r, q \in P : r = q \/ Disjoint(r, q)

\* The main region of b is a prefix of the payload that cuts no piece, and the
\* regions that wait are pieces behind it.
Holds(b, P, n) ==
    /\ b.main.beg = 0
    /\ b.main.end <= n
    /\ b.main.islast <=> b.main.end = n
    /\ \A r \in b.fragments : b.main.end <= r.beg
    /\ \A r \in P : r.end <= b.main.end \/ b.main.end <= r.beg

\* The buffers that pieces from P of a payload of n bytes lead to.
Buffers(P, n) ==
    {b \in [main : Regions, fragments : SUBSET P] :
        IsFiniteSet(b.fragments) /\ Holds(b, P, n)}

\* No region waits that the main one reaches.
Settled(b) == \A r \in b.fragments : b.main.end < r.beg

\* The offsets of the bytes that b has.
Cover(b) ==
    {i \in Nat : i < b.main.end \/ \E r \in b.fragments : r.beg <= i /\ i < r.end}

\* Appending the piece behind the main region keeps a buffer a buffer.
LEMMA ExtendFine ==
    ASSUME NEW P, NEW n \in Nat, Pieces(P, n), NEW b \in Buffers(P, n),
           NEW r \in P, r.beg = b.main.end, NEW F \in SUBSET b.fragments,
           r \notin F
    PROVE  LET c == [main |-> Extend(b.main, r), fragments |-> F]
           IN  /\ c \in Buffers(P, n)
               /\ c.main.end = r.end
<1> DEFINE m == Extend(b.main, r)
           c == [main |-> m, fragments |-> F]
<1>1. /\ b.main \in Regions /\ r \in Regions /\ b.fragments \subseteq P
      /\ IsFiniteSet(b.fragments) /\ Holds(b, P, n)
  BY DEF Buffers, Pieces
<1>2. m = [beg |-> 0, end |-> r.end, islast |-> b.main.islast \/ r.islast]
  BY <1>1 DEF Extend, Follows, Region, Holds
<1>3. m \in Regions
  BY <1>1, <1>2 DEF Regions
<1>4. r.beg < r.end /\ r.end <= n /\ (r.islast <=> r.end = n) /\ ~b.main.islast
  BY <1>1 DEF Pieces, Holds, Regions
<1>5. IsFiniteSet(F)
  BY <1>1, FS_Subset
<1>6. ASSUME NEW q \in P PROVE q.end <= r.end \/ r.end <= q.beg
  BY <1>1, <1>4 DEF Pieces, Disjoint, Holds, Regions
<1>7. ASSUME NEW q \in F PROVE r.end <= q.beg
  <2>1. q \in P /\ q # r /\ b.main.end <= q.beg
    BY <1>1 DEF Holds
  <2>2. q.beg < q.end
    BY <2>1 DEF Pieces
  <2> QED BY <1>1, <1>4, <2>1, <2>2 DEF Pieces, Disjoint, Regions
<1>8. Holds(c, P, n)
  <2>1. c.main = m /\ c.fragments = F
    OBVIOUS
  <2>2. m.beg = 0 /\ m.end = r.end /\ (m.islast <=> r.islast)
    <3>1. m.islast = (b.main.islast \/ r.islast)
      BY <1>2
    <3>2. m.islast <=> r.islast
      BY <1>4, <3>1
    <3> QED BY <1>2, <3>2
  <2> HIDE DEF c, m
  <2> QED BY <1>4, <1>6, <1>7, <2>1, <2>2 DEF Holds
<1>9. c \in [main : Regions, fragments : SUBSET P]
  BY <1>1, <1>3
<1> QED
  BY <1>2, <1>5, <1>8, <1>9 DEF Buffers

\* A round of the loop keeps the bytes; it takes out a region unless none connects.
LEMMA MergeNext ==
    ASSUME NEW P, NEW n \in Nat, Pieces(P, n), NEW b \in Buffers(P, n)
    PROVE  /\ mergeNext(b) \in Buffers(P, n)
           /\ Cover(mergeNext(b)) = Cover(b)
           /\ mergeNext(b).fragments \subseteq b.fragments
           /\ \/ mergeNext(b) = b /\ Settled(b)
              \/ Cardinality(mergeNext(b).fragments) = Cardinality(b.fragments) - 1
<1> DEFINE next == {r \in b.fragments : Connects(b.main, r)}
<1>1. /\ b.main \in Regions /\ b.fragments \subseteq P /\ P \subseteq Regions
      /\ IsFiniteSet(b.fragments) /\ Holds(b, P, n)
  BY DEF Buffers, Pieces
<1>2. \A r \in b.fragments : Connects(b.main, r) <=> r.beg = b.main.end
  <2> SUFFICES ASSUME NEW r \in b.fragments
               PROVE  Connects(b.main, r) <=> r.beg = b.main.end
    OBVIOUS
  <2>1. r \in Regions /\ r.beg < r.end /\ b.main.beg = 0
    BY <1>1 DEF Pieces, Holds
  <2> QED BY <1>1, <2>1 DEF Connects, Follows, Precedes, Regions
<1>3. CASE next = {}
  <2>1. mergeNext(b) = b
    BY <1>3 DEF mergeNext
  <2>2. Settled(b)
    <3> SUFFICES ASSUME NEW r \in b.fragments PROVE b.main.end < r.beg
      BY DEF Settled
    <3>1. r \in Regions /\ b.main.end <= r.beg /\ r.beg # b.main.end
      BY <1>1, <1>2, <1>3 DEF Holds
    <3> QED BY <1>1, <3>1 DEF Regions
  <2> QED BY <2>1, <2>2
<1>4. CASE next # {}
  <2> DEFINE r == CHOOSE x \in next : TRUE
             c == [main |-> Extend(b.main, r), fragments |-> b.fragments \ {r}]
  <2>1. r \in next
    BY <1>4
  <2>2. mergeNext(b) = c
    BY <1>4 DEF mergeNext
  <2> HIDE DEF r
  <2>3. r \in P /\ r.beg = b.main.end /\ r \in b.fragments /\ r \in Regions
    BY <1>1, <1>2, <2>1
  <2>4. c \in Buffers(P, n) /\ c.main.end = r.end
    BY <2>3, ExtendFine
  <2>5. Cover(c) = Cover(b)
    <3>1. r.beg < r.end
      BY <2>3 DEF Pieces
    <3>2. ASSUME NEW i \in Nat
          PROVE  (i < r.end \/ \E q \in b.fragments \ {r} : q.beg <= i /\ i < q.end)
              <=> (i < b.main.end \/ \E q \in b.fragments : q.beg <= i /\ i < q.end)
      <4>1. i < r.end <=> i < b.main.end \/ (r.beg <= i /\ i < r.end)
        BY <1>1, <2>3, <3>1 DEF Regions
      <4> QED BY <2>3, <4>1
    <3>3. c.fragments = b.fragments \ {r}
      OBVIOUS
    <3> HIDE DEF c
    <3> QED BY <2>4, <3>2, <3>3 DEF Cover
  <2>6. Cardinality(b.fragments \ {r}) = Cardinality(b.fragments) - 1
    BY <1>1, <2>3, FS_RemoveElement
  <2> QED BY <2>2, <2>4, <2>5, <2>6
<1> QED
  BY <1>3, <1>4

\* Nothing connects to a settled buffer.
LEMMA SettledStays ==
    ASSUME NEW P, NEW n \in Nat, Pieces(P, n), NEW b \in Buffers(P, n), Settled(b)
    PROVE  mergeNext(b) = b
<1>1. ASSUME NEW r \in b.fragments PROVE ~Connects(b.main, r)
  <2>1. r \in Regions /\ r.beg < r.end /\ b.main.end < r.beg /\ b.main \in Regions
        /\ b.main.beg = 0
    BY DEF Settled, Pieces, Buffers, Holds
  <2> QED BY <2>1 DEF Connects, Follows, Precedes, Regions
<1> QED
  BY <1>1 DEF mergeNext

\* The loop leaves no region that connects, and keeps the bytes.
LEMMA MergeFragments ==
    ASSUME NEW P, NEW n \in Nat, Pieces(P, n), NEW b \in Buffers(P, n)
    PROVE  /\ mergeFragments(b) \in Buffers(P, n)
           /\ Cover(mergeFragments(b)) = Cover(b)
           /\ mergeFragments(b).fragments \subseteq b.fragments
           /\ Settled(mergeFragments(b))
<1> DEFINE N == Cardinality(b.fragments)
           A == {c \in Buffers(P, n) :
                    Cover(c) = Cover(b) /\ c.fragments \subseteq b.fragments}
           Step(w, i) == mergeNext(w)
           g == [x \in (1 .. N) \X A |-> Step(x[2], x[1])]
           Walk(f) == [i \in 0 .. N |-> IF i = 0 THEN b ELSE mergeNext(f[i - 1])]
           after == CHOOSE f : f = Walk(f)
<1>0. IsFiniteSet(b.fragments)
  BY DEF Buffers
<1>1. /\ N \in Nat /\ b \in A
      /\ \A w \in A, i \in 1 .. N : Step(w, i) \in A
  <2>1. N \in Nat
    BY <1>0, FS_CardinalityType
  <2>2. \A w \in A : mergeNext(w) \in A
    BY MergeNext
  <2> QED BY <2>1, <2>2
<1>2. \A f : Walk(f) = [i \in 0 .. N |-> IF i = 0 THEN b ELSE Step(f[i - 1], i)]
  BY Zenon
<1> HIDE DEF N, A, Step, Walk
<1>3. PICK f \in [0 .. N -> A] : IsWalk(f, N, b, g)
  <2>1. g \in [(1 .. N) \X A -> A]
    BY <1>1
  <2> HIDE DEF g
  <2> QED BY <1>1, <2>1, WalkDefined
<1>4. f = Walk(f)
  <2>1. \A i \in 1 .. N : g[<<i, f[i - 1]>>] = Step(f[i - 1], i)
    BY <1>1
  <2> HIDE DEF g
  <2>2. ASSUME NEW i \in 0 .. N PROVE f[i] = IF i = 0 THEN b ELSE Step(f[i - 1], i)
    <3>1. CASE i = 0
      BY <1>3, <3>1 DEF IsWalk
    <3>2. CASE i # 0
      <4>1. i \in 1 .. N
        BY <1>1, <3>2
      <4> QED BY <1>3, <2>1, <3>2, <4>1 DEF IsWalk
    <3> QED BY <3>1, <3>2
  <2>3. f = [i \in 0 .. N |-> IF i = 0 THEN b ELSE Step(f[i - 1], i)]
    BY <2>2
  <2> QED BY <2>3, <1>2
<1>5. after = Walk(after)
  BY <1>4
<1> DEFINE c == after[N]
<1>6. mergeFragments(b) = [main |-> c.main,
                           fragments |-> {x \in c.fragments : ~Contains(c.main, x)}]
  BY DEF mergeFragments, N, Walk
<1> HIDE DEF after
<1>7. after = [i \in 0 .. N |-> IF i = 0 THEN b ELSE Step(after[i - 1], i)]
  BY <1>2, <1>5
<1>8. \A i \in 0 .. N : after[i] \in A
  <2>1. after[0] = b
    BY <1>1, <1>7
  <2>2. ASSUME NEW i \in 1 .. N, after[i - 1] \in A PROVE after[i] \in A
    BY <1>1, <1>7, <2>2
  <2> QED BY <1>1, <2>1, <2>2, WalkStays
<1>9. c \in A
  BY <1>1, <1>8
<1>10. Settled(c)
  <2> DEFINE S == {i \in 0 .. N :
                    \/ Settled(after[i])
                    \/ Cardinality(after[i].fragments) <= N - i}
  <2>1. 0 \in S
    <3>1. after[0] = b
      BY <1>1, <1>7
    <3> QED BY <1>1, <3>1 DEF N
  <2>2. ASSUME NEW i \in 1 .. N, i - 1 \in S PROVE i \in S
    <3>1. after[i] = mergeNext(after[i - 1])
      BY <1>1, <1>7 DEF Step
    <3>2. after[i - 1] \in Buffers(P, n) /\ after[i] \in Buffers(P, n)
      BY <1>1, <1>8 DEF A
    <3>3. /\ Cardinality(after[i - 1].fragments) \in Nat
          /\ Cardinality(after[i].fragments) \in Nat
      BY <3>2, FS_CardinalityType DEF Buffers
    <3>4. \/ after[i] = after[i - 1] /\ Settled(after[i])
          \/ Cardinality(after[i].fragments) = Cardinality(after[i - 1].fragments) - 1
      BY <3>1, <3>2, MergeNext
    <3>5. CASE Settled(after[i - 1])
      BY <3>5, <3>4, <3>2, <3>1, SettledStays
    <3>6. CASE Cardinality(after[i - 1].fragments) <= N - (i - 1)
      BY <1>1, <3>3, <3>4, <3>6
    <3> QED BY <2>2, <3>5, <3>6
  <2>3. N \in S
    <3> HIDE DEF S
    <3>1. \A i \in 0 .. N : i \in S
      BY <1>1, <2>1, <2>2, Induction
    <3> QED BY <1>1, <3>1
  <2>4. CASE Cardinality(c.fragments) <= 0
    <3>1. IsFiniteSet(c.fragments)
      BY <1>9 DEF A, Buffers
    <3>2. Cardinality(c.fragments) = 0
      BY <2>4, <3>1, FS_CardinalityType
    <3>3. c.fragments = {}
      BY <3>1, <3>2, FS_EmptySet
    <3> QED BY <3>3 DEF Settled
  <2> QED BY <1>1, <2>3, <2>4
<1> HIDE DEF c
<1>11. c \in Buffers(P, n) /\ Cover(c) = Cover(b) /\ c.fragments \subseteq b.fragments
  BY <1>9 DEF A
<1>12. {x \in c.fragments : ~Contains(c.main, x)} = c.fragments
  <2> SUFFICES ASSUME NEW x \in c.fragments PROVE ~Contains(c.main, x)
    OBVIOUS
  <2>1. x \in Regions /\ x.beg < x.end /\ c.main.end < x.beg /\ c.main \in Regions
    BY <1>10, <1>11 DEF Settled, Pieces, Buffers
  <2> QED BY <2>1 DEF Contains, Regions
<1>13. mergeFragments(b) = c
  BY <1>6, <1>11, <1>12 DEF Buffers
<1> QED
  BY <1>10, <1>11, <1>13

\* A piece that comes in, the first time or again, adds its bytes.
LEMMA Merge ==
    ASSUME NEW P, NEW n \in Nat, Pieces(P, n), NEW b \in Buffers(P, n), Settled(b),
           NEW r \in P
    PROVE  /\ merge(b, r) \in Buffers(P, n)
           /\ Cover(merge(b, r)) = Cover(b) \cup (r.beg .. r.end - 1)
           /\ merge(b, r).fragments \subseteq b.fragments \cup {r}
           /\ Settled(merge(b, r))
<1>1. /\ b.main \in Regions /\ b.fragments \subseteq P /\ P \subseteq Regions
      /\ IsFiniteSet(b.fragments) /\ Holds(b, P, n) /\ r \in Regions
      /\ r.beg < r.end /\ b.main.beg = 0 /\ r.beg \in Nat /\ r.end \in Nat
      /\ b.main.end \in Nat
  BY DEF Buffers, Pieces, Holds, Regions
<1>2. b = [main |-> b.main, fragments |-> b.fragments]
  BY DEF Buffers
<1>3. CASE r.beg = b.main.end
  <2> DEFINE c == [main |-> Extend(b.main, r), fragments |-> b.fragments]
  <2>1. Connects(b.main, r)
    BY <1>3 DEF Connects, Follows
  <2>2. [b EXCEPT !.main = Extend(@, r)] = c
    BY <1>2
  <2>3. merge(b, r) = mergeFragments(c)
    BY <2>1, <2>2 DEF merge
  <2>4. r \notin b.fragments
    BY <1>1, <1>3 DEF Settled
  <2>5. c \in Buffers(P, n) /\ c.main.end = r.end
    BY <1>3, <2>4, ExtendFine
  <2>6. Cover(c) = Cover(b) \cup (r.beg .. r.end - 1)
    <3>1. c.fragments = b.fragments
      OBVIOUS
    <3> HIDE DEF c
    <3>2. ASSUME NEW i \in Nat
          PROVE  i < r.end <=> i < b.main.end \/ i \in r.beg .. r.end - 1
      BY <1>1, <1>3
    <3>3. r.beg .. r.end - 1 \subseteq Nat
      BY <1>1
    <3> QED BY <2>5, <3>1, <3>2, <3>3 DEF Cover
  <2>7. c.fragments = b.fragments
    OBVIOUS
  <2> HIDE DEF c
  <2> QED BY <2>3, <2>5, <2>6, <2>7, MergeFragments
<1>4. CASE r.beg # b.main.end
  <2>1. ~Connects(b.main, r)
    BY <1>1, <1>4 DEF Connects, Follows, Precedes
  <2>2. CASE b.main.end < r.beg
    <3> DEFINE c == [main |-> b.main, fragments |-> b.fragments \cup {r}]
    <3>1. merge(b, r) = c
      BY <1>2, <2>1, <2>2 DEF merge
    <3>2. IsFiniteSet(b.fragments \cup {r})
      BY <1>1, FS_AddElement
    <3>3. Settled(c)
      BY <2>2 DEF Settled
    <3>4. Holds(c, P, n)
      BY <1>1, <2>2 DEF Holds
    <3>5. c \in Buffers(P, n)
      BY <1>1, <3>2, <3>4 DEF Buffers
    <3>6. Cover(c) = Cover(b) \cup (r.beg .. r.end - 1)
      <4>1. ASSUME NEW i \in Nat
            PROVE  r.beg <= i /\ i < r.end <=> i \in r.beg .. r.end - 1
        BY <1>1
      <4>2. r.beg .. r.end - 1 \subseteq Nat
        BY <1>1
      <4>3. ASSUME NEW i \in Nat
            PROVE  (\E q \in b.fragments \cup {r} : q.beg <= i /\ i < q.end)
               <=> (\E q \in b.fragments : q.beg <= i /\ i < q.end) \/ i \in r.beg .. r.end - 1
        BY <4>1
      <4>4. c.main = b.main /\ c.fragments = b.fragments \cup {r}
        OBVIOUS
      <4> HIDE DEF c
      <4> QED BY <4>2, <4>3, <4>4 DEF Cover
    <3>7. c.fragments = b.fragments \cup {r}
      OBVIOUS
    <3> HIDE DEF c
    <3> QED BY <3>1, <3>3, <3>5, <3>6, <3>7
  <2>3. CASE ~(b.main.end < r.beg)
    <3>1. merge(b, r) = b
      BY <1>1, <2>1, <2>3 DEF merge
    <3>2. r.end <= b.main.end
      BY <1>1, <1>4, <2>3 DEF Holds
    <3>3. r.beg .. r.end - 1 \subseteq Cover(b)
      <4> SUFFICES ASSUME NEW i \in r.beg .. r.end - 1 PROVE i \in Cover(b)
        OBVIOUS
      <4>1. i \in Nat /\ i < b.main.end
        BY <1>1, <3>2
      <4> QED BY <4>1 DEF Cover
    <3> QED BY <3>1, <3>3
  <2> QED BY <2>2, <2>3
<1> QED
  BY <1>3, <1>4

-----------------------------------------------------------------------------
(* Fragments *)

\* An offset of the loop is a multiple of the fragment length.
LEMMA Multiple ==
    ASSUME NEW f \in Nat \ {0}, NEW x \in Nat, x % f = 0
    PROVE  \E q \in Nat : x = q * f
  OBVIOUS

\* Two multiples of f are equal or at least f apart.
LEMMA Spacing ==
    ASSUME NEW f \in Nat \ {0}, NEW x \in Nat, NEW y \in Nat,
           x % f = 0, y % f = 0, x < y
    PROVE  x + f <= y
<1>1. PICK q \in Nat : x = q * f
  BY Multiple
<1>2. PICK r \in Nat : y = r * f
  BY Multiple
<1> QED
  BY <1>1, <1>2

\* A fragment carries something.
LEMMA FragmentLengthPositive ==
    ASSUME NEW mtu \in SourceMtu \cup RouterMtu, mtu # 0
    PROVE  fragmentLength(mtu) \in Nat \ {0}
<1>1. mtu - HeaderLength >= Block /\ Block \in Nat \ {0} /\ HeaderLength \in Nat /\ mtu \in Nat
  BY ReassemblyAssumption, FragmentationAssumption
<1> DEFINE d == mtu - HeaderLength
<1>2. d \in Nat /\ d >= Block
  BY <1>1
<1> HIDE DEF d
<1>3. d \div Block \in Nat /\ d \div Block >= 1
  BY <1>1, <1>2
<1>4. ASSUME NEW q \in Nat, q >= 1 PROVE q * Block \in Nat \ {0}
  BY <1>1, <1>4
<1> QED
  BY <1>3, <1>4 DEF fragmentLength, d

\* Datagrams and fragments.
Datagrams ==
    [src : Source, identification : Id, timeToLive : Int, dontFragment : BOOLEAN,
     moreFragments : BOOLEAN, fragmentOffset : Nat, length : Nat \ {0},
     totalPayloadLength : Nat]

\* The offset after the last byte of p.
End(p) == p.fragmentOffset + p.length

\* p and q have no byte of the same datagram.
Apart(p, q) ==
    KeyOf(p) = KeyOf(q) => End(p) <= q.fragmentOffset \/ End(q) <= p.fragmentOffset

\* q is p itself or a piece of it.
PieceOf(q, p) ==
    /\ q \in Datagrams
    /\ KeyOf(q) = KeyOf(p)
    /\ p.fragmentOffset <= q.fragmentOffset
    /\ End(q) <= End(p)
    /\ q.moreFragments <=> p.moreFragments \/ End(q) # End(p)

\* The fragments that the loop makes of p are pieces of p without overlaps: the
\* last one keeps the "more fragments" bit of p, and the offsets, multiples of
\* the fragment length, are added to that of p.
LEMMA FragmentsFine ==
    ASSUME NEW p \in Datagrams, NEW mtu \in SourceMtu \cup RouterMtu, mtu # 0
    PROVE  /\ \A q \in Fragments(p, mtu) : PieceOf(q, p)
           /\ \A q, r \in Fragments(p, mtu) : q = r \/ Apart(q, r)
<1> DEFINE f == fragmentLength(mtu)
           O == {o \in 0 .. p.length - 1 : o % f = 0}
           last(o) == o + f >= p.length
           len(o) == IF last(o) THEN p.length - o ELSE f
           Cut(m, x, l, t) == [p EXCEPT !.moreFragments = m, !.fragmentOffset = x,
                                        !.length = l, !.totalPayloadLength = t]
<1>1. f \in Nat \ {0}
  BY FragmentLengthPositive
<1>2. Fragments(p, mtu) = {FragmentAt(p, o, mtu) : o \in O}
  BY DEF Fragments
<1>3. ASSUME NEW o
      PROVE  FragmentAt(p, o, mtu) =
               Cut(p.moreFragments \/ ~last(o), p.fragmentOffset + o, len(o), p.length)
  BY DEF FragmentAt
<1>0. ASSUME NEW m, NEW x, NEW l, NEW t
      PROVE  /\ Cut(m, x, l, t).src = p.src
             /\ Cut(m, x, l, t).identification = p.identification
             /\ Cut(m, x, l, t).moreFragments = m
             /\ Cut(m, x, l, t).fragmentOffset = x
             /\ Cut(m, x, l, t).length = l
  BY DEF Datagrams
<1>9. ASSUME NEW m \in BOOLEAN, NEW x \in Nat, NEW l \in Nat \ {0}, NEW t \in Nat
      PROVE  Cut(m, x, l, t) \in Datagrams
  BY DEF Datagrams
<1> HIDE DEF Cut
<1> HIDE DEF f
<1>4. ASSUME NEW o \in O
      PROVE  /\ o \in Nat /\ o < p.length /\ len(o) \in Nat \ {0}
             /\ o + len(o) <= p.length
             /\ last(o) <=> o + len(o) = p.length
  <2>1. p.length \in Nat \ {0}
    BY DEF Datagrams
  <2>2. o \in 0 .. p.length - 1
    OBVIOUS
  <2> HIDE DEF O
  <2>3. CASE last(o)
    <3>1. len(o) = p.length - o
      BY <2>3
    <3> HIDE DEF len
    <3> QED BY <1>1, <2>1, <2>2, <2>3, <3>1
  <2>4. CASE ~last(o)
    <3>1. len(o) = f
      BY <2>4
    <3> HIDE DEF len
    <3> QED BY <1>1, <2>1, <2>2, <2>4, <3>1
  <2> QED BY <2>3, <2>4
<1>5. ASSUME NEW o \in O, NEW x \in O, o < x
      PROVE  o + len(o) <= x
  <2>1. o \in Nat /\ x \in Nat /\ o % f = 0 /\ x % f = 0
    OBVIOUS
  <2>2. o + f <= x
    BY <1>1, <1>5, <2>1, Spacing
  <2>3. ~last(o)
    <3>1. p.length \in Nat /\ x < p.length
      BY <1>4 DEF Datagrams
    <3> QED BY <1>1, <2>1, <2>2, <3>1
  <2>4. len(o) = f
    BY <2>3
  <2> QED BY <2>2, <2>4
<1>6. ASSUME NEW q \in Fragments(p, mtu)
      PROVE  PieceOf(q, p)
  <2>1. PICK o \in O : q = FragmentAt(p, o, mtu)
    BY <1>2
  <2>2. /\ q.src = p.src /\ q.identification = p.identification
        /\ q.fragmentOffset = p.fragmentOffset + o /\ q.length = len(o)
        /\ q.moreFragments = (p.moreFragments \/ ~last(o))
    <3> HIDE DEF len, last
    <3> QED BY <1>0, <1>3, <2>1
  <2>3. p.fragmentOffset \in Nat /\ p.length \in Nat
    BY DEF Datagrams
  <2>4. q \in Datagrams
    <3> HIDE DEF len, last
    <3>1. len(o) \in Nat \ {0} /\ o \in Nat
      BY <1>4
    <3>2. (p.moreFragments \/ ~last(o)) \in BOOLEAN
      OBVIOUS
    <3>3. p.fragmentOffset + o \in Nat
      BY <2>3, <3>1
    <3>4. p.length \in Nat
      BY DEF Datagrams
    <3> QED BY <1>3, <1>9, <2>1, <3>1, <3>2, <3>3, <3>4
  <2>5. End(q) <= End(p) /\ p.fragmentOffset <= q.fragmentOffset
        /\ (End(q) = End(p) <=> last(o))
    <3> HIDE DEF O, len, last
    <3> QED BY <1>4, <2>2, <2>3 DEF End
  <2> HIDE DEF last
  <2> QED BY <2>2, <2>4, <2>5 DEF PieceOf, KeyOf
<1>7. ASSUME NEW q \in Fragments(p, mtu), NEW r \in Fragments(p, mtu), q # r
      PROVE  Apart(q, r)
  <2>1. PICK o \in O : q = FragmentAt(p, o, mtu)
    BY <1>2
  <2>2. PICK x \in O : r = FragmentAt(p, x, mtu)
    BY <1>2
  <2>3. o # x /\ o \in Nat /\ x \in Nat
    BY <1>4, <1>7, <2>1, <2>2
  <2>4. o < x \/ x < o
    BY <2>3
  <2>5. o + len(o) <= x \/ x + len(x) <= o
    BY <1>5, <2>4
  <2>6. p.fragmentOffset \in Nat /\ len(o) \in Nat /\ len(x) \in Nat
    BY <1>4 DEF Datagrams
  <2>7. End(q) = p.fragmentOffset + o + len(o) /\ End(r) = p.fragmentOffset + x + len(x)
        /\ q.fragmentOffset = p.fragmentOffset + o /\ r.fragmentOffset = p.fragmentOffset + x
    <3> HIDE DEF len, last, O
    <3>1. q.length = len(o) /\ r.length = len(x) /\ q.fragmentOffset = p.fragmentOffset + o
          /\ r.fragmentOffset = p.fragmentOffset + x
      BY <1>0, <1>3, <2>1, <2>2
    <3> QED BY <2>3, <2>6, <3>1 DEF End
  <2> HIDE DEF len, last, O
  <2> QED BY <2>3, <2>5, <2>6, <2>7 DEF Apart
<1> QED
  BY <1>6, <1>7

\* What a node sends for a datagram.
LEMMA FragmentAndSend ==
    ASSUME NEW p \in Datagrams, NEW mtu \in SourceMtu \cup RouterMtu
    PROVE  /\ \A q \in fragmentAndSend(p, mtu) : PieceOf(q, p)
           /\ \A q, r \in fragmentAndSend(p, mtu) : q = r \/ Apart(q, r)
<1> DEFINE q == [p EXCEPT !.timeToLive = @ - 1]
<1>1. /\ q \in Datagrams /\ q.src = p.src /\ q.identification = p.identification
      /\ q.fragmentOffset = p.fragmentOffset /\ q.length = p.length
      /\ q.moreFragments = p.moreFragments
  BY DEF Datagrams
<1>2. \/ fragmentAndSend(p, mtu) = {} \/ fragmentAndSend(p, mtu) = {q}
      \/ mtu # 0 /\ fragmentAndSend(p, mtu) = Fragments(q, mtu)
  <2>1. q.timeToLive \in Int /\ mtu \in Nat
    BY <1>1, ReassemblyAssumption DEF Datagrams
  <2> HIDE DEF q
  <2>2. CASE q.timeToLive < 0
    BY <2>1, <2>2 DEF fragmentAndSend, q
  <2>3. CASE ~(q.timeToLive < 0) /\ (mtu = 0 \/ HeaderLength + q.length <= mtu)
    BY <2>1, <2>3 DEF fragmentAndSend, q
  <2>4. CASE ~(q.timeToLive < 0) /\ ~(mtu = 0 \/ HeaderLength + q.length <= mtu)
    BY <2>1, <2>4 DEF fragmentAndSend, q
  <2> QED BY <2>2, <2>3, <2>4
<1> HIDE DEF q
<1>3. \A r : PieceOf(r, q) <=> PieceOf(r, p)
  BY <1>1 DEF PieceOf, KeyOf, End
<1>4. PieceOf(q, p)
  BY <1>1 DEF PieceOf, KeyOf, End, Datagrams
<1>5. mtu # 0 => /\ \A r \in Fragments(q, mtu) : PieceOf(r, q)
                 /\ \A r, x \in Fragments(q, mtu) : r = x \/ Apart(r, x)
  BY <1>1, FragmentsFine
<1> QED
  BY <1>2, <1>3, <1>4, <1>5

-----------------------------------------------------------------------------
(* The inductive invariant *)

\* The datagram with key k has been sent.
Sent(k) == k[2] < Len(payload[k[1]])

\* The length its payload had.
PayloadLength(k) == payload[k[1]][k[2] + 1]

\* What is on the two links.
OnLinks == atRouter \cup lastLink

\* The region that addFragment gives to the buffer for p.
RegionOf(p) == Region(p.fragmentOffset, End(p), ~p.moreFragments)

\* The regions of the pieces in S of the datagram with key k.
RegionsOf(S, k) == {RegionOf(p) : p \in {q \in S : KeyOf(q) = k}}

\* Payloads are not empty, and identifications do not run out.
PayloadInv ==
    /\ payload \in [Source -> Seq(Nat \ {0})]
    /\ \A s \in Source : Len(payload[s]) <= MaxSent

\* A piece lies in the payload it belongs to, and its more fragments bit is
\* off exactly at the end of it.
Fits(p) ==
    /\ Sent(KeyOf(p))
    /\ End(p) <= PayloadLength(KeyOf(p))
    /\ p.moreFragments <=> End(p) # PayloadLength(KeyOf(p))

\* Whatever is on the links fits, and two pieces of one datagram are equal or
\* have no byte in common.  A piece is forwarded once, so that its own pieces on
\* the last link never meet it.
LinksInv ==
    /\ OnLinks \subseteq Datagrams
    /\ \A p \in OnLinks : Fits(p)
    /\ \A p \in atRouter, q \in lastLink : Apart(p, q)
    /\ \A p, q \in atRouter : p = q \/ Apart(p, q)
    /\ \A p, q \in lastLink : p = q \/ Apart(p, q)

\* Buffers, with the packet length they keep and their age.
BufferType ==
    [main : Regions, fragments : SUBSET Regions, content : Nat, old : BOOLEAN]

\* Buffer b for the datagram with key k, when bytes have come in for it.
BufferFine(k, b, bytes) ==
    /\ b \in BufferType
    /\ b.main.beg = 0
    /\ ~b.main.islast
    /\ b # None => Sent(k) /\ b.main.end < PayloadLength(k)
    /\ IsFiniteSet(b.fragments)
    /\ b.fragments \subseteq RegionsOf(lastLink, k)
    /\ Settled(b)
    /\ \A r \in RegionsOf(OnLinks, k) : r.end <= b.main.end \/ b.main.end <= r.beg
    /\ bytes = {<<k, i>> : i \in Cover(b)}

\* All buffers are fine.
BuffersInv ==
    /\ bufs \in [Key -> BufferType]
    /\ DOMAIN arrived = Key
    /\ \A k \in Key : BufferFine(k, bufs[k], arrived[k])

\* What was delivered was sent, all of it and nothing else.
DeliveredInv ==
    \A d \in delivered :
        /\ d.src \in Source /\ d.id \in Id /\ Sent(<<d.src, d.id>>)
        /\ d.bytes = PayloadBytes(<<d.src, d.id>>)
        /\ d.total = payload[d.src][d.id + 1]

\* The inductive invariant.
ReassemblyInv == PayloadInv /\ LinksInv /\ BuffersInv /\ DeliveredInv

\* The regions of the pieces of one datagram.
LEMMA PiecesOfDatagram ==
    ASSUME PayloadInv, LinksInv, NEW k \in Key, Sent(k)
    PROVE  /\ PayloadLength(k) \in Nat \ {0}
           /\ Pieces(RegionsOf(OnLinks, k), PayloadLength(k))
<1> DEFINE n == PayloadLength(k)
           P == RegionsOf(OnLinks, k)
<1>1. k[1] \in Source /\ k[2] \in Nat
  BY ReassemblyAssumption DEF Key, Id
<1>2. n \in Nat \ {0}
  <2>1. payload[k[1]] \in Seq(Nat \ {0})
    BY <1>1 DEF PayloadInv
  <2>2. k[2] + 1 \in 1 .. Len(payload[k[1]])
    BY <1>1, <2>1 DEF Sent
  <2> QED BY <2>1, <2>2 DEF PayloadLength
<1>3. ASSUME NEW p \in OnLinks, KeyOf(p) = k
      PROVE  /\ RegionOf(p) \in Regions
             /\ RegionOf(p).beg < RegionOf(p).end /\ RegionOf(p).end <= n
             /\ RegionOf(p).islast <=> RegionOf(p).end = n
  <2>1. p \in Datagrams /\ Fits(p)
    BY DEF LinksInv
  <2>2. p.fragmentOffset \in Nat /\ p.length \in Nat \ {0}
    BY <2>1 DEF Datagrams
  <2>3. /\ RegionOf(p).beg = p.fragmentOffset /\ RegionOf(p).end = End(p)
        /\ RegionOf(p).islast = ~p.moreFragments
    BY DEF RegionOf, Region
  <2>4. RegionOf(p) \in Regions
    BY <2>2 DEF RegionOf, Region, Regions, End
  <2>5. End(p) <= n /\ (p.moreFragments <=> End(p) # n)
    BY <1>3, <2>1 DEF Fits
  <2>6. p.fragmentOffset < End(p)
    BY <2>2 DEF End
  <2> QED BY <2>3, <2>4, <2>5, <2>6
<1>4. ASSUME NEW p \in OnLinks, NEW q \in OnLinks, KeyOf(p) = k, KeyOf(q) = k
      PROVE  RegionOf(p) = RegionOf(q) \/ Disjoint(RegionOf(p), RegionOf(q))
  <2>1. p = q \/ Apart(p, q) \/ Apart(q, p)
    BY DEF LinksInv, OnLinks
  <2>2. /\ RegionOf(p).beg = p.fragmentOffset /\ RegionOf(p).end = End(p)
        /\ RegionOf(q).beg = q.fragmentOffset /\ RegionOf(q).end = End(q)
    BY DEF RegionOf, Region
  <2> QED BY <1>4, <2>1, <2>2 DEF Apart, Disjoint
<1>5. P \subseteq Regions
  BY <1>3 DEF RegionsOf
<1>6. \A r \in P : r.beg < r.end /\ r.end <= n /\ (r.islast <=> r.end = n)
  BY <1>3 DEF RegionsOf
<1>7. \A r, q \in P : r = q \/ Disjoint(r, q)
  BY <1>4 DEF RegionsOf
<1> HIDE DEF n, P
<1>8. Pieces(P, n)
  BY <1>5, <1>6, <1>7 DEF Pieces
<1> QED
  BY <1>2, <1>8 DEF n, P

\* A missing buffer.
LEMMA NoBuffer ==
    ASSUME LinksInv, NEW k \in Key
    PROVE  BufferFine(k, None, {})
<1>1. None \in BufferType /\ None.main.beg = 0 /\ None.main.end = 0
      /\ ~None.main.islast /\ None.fragments = {}
  BY DEF None, NewBuffer, Region, BufferType, Regions
<1>2. IsFiniteSet({})
  BY FS_EmptySet
<1>3. Cover(None) = {}
  BY <1>1 DEF Cover
<1>4. ASSUME NEW r \in RegionsOf(OnLinks, k) PROVE 0 <= r.beg
  <2>1. PICK p \in OnLinks : r = RegionOf(p)
    BY DEF RegionsOf
  <2>2. p.fragmentOffset \in Nat
    BY DEF LinksInv, Datagrams
  <2> QED BY <2>1, <2>2 DEF RegionOf, Region
<1> QED
  BY <1>1, <1>2, <1>3, <1>4 DEF BufferFine, Settled

\* addFragment
LEMMA AddFragment ==
    ASSUME PayloadInv, LinksInv, NEW p \in lastLink, NEW b, NEW bytes,
           BufferFine(KeyOf(p), b, bytes)
    PROVE  LET k == KeyOf(p)
               c == addFragment(b, p)
           IN  /\ ~IsComplete(c) => BufferFine(k, c, bytes \cup PartOf(p))
               /\ IsComplete(c) => /\ bytes \cup PartOf(p) = PayloadBytes(k)
                                   /\ getTotalLength(c) = PayloadLength(k)
<1> DEFINE k == KeyOf(p)
           n == PayloadLength(k)
           P == RegionsOf(OnLinks, k)
           d == [main |-> b.main, fragments |-> b.fragments]
           r == RegionOf(p)
           m == merge(d, r)
           c == addFragment(b, p)
<1>1. p \in Datagrams /\ Fits(p) /\ p \in OnLinks
  BY DEF LinksInv, OnLinks
<1>2. k \in Key /\ Sent(k)
  BY <1>1 DEF KeyOf, Key, Datagrams, Fits
<1>3. n \in Nat \ {0} /\ Pieces(P, n)
  BY <1>2, PiecesOfDatagram
<1>4. r \in P /\ r \in RegionsOf(lastLink, k)
  BY <1>1 DEF RegionsOf
<1>5. b \in BufferType /\ b.fragments \subseteq P /\ Settled(b)
  BY DEF BufferFine, RegionsOf, OnLinks
<1>6. b.main \in Regions /\ b.main.end < n /\ b.main.beg = 0 /\ ~b.main.islast
  <2>1. b = None => b.main.end = 0
    BY DEF None, NewBuffer, Region
  <2> QED BY <1>3, <1>5, <2>1 DEF BufferFine, BufferType
<1>7. d \in Buffers(P, n) /\ Settled(d) /\ Cover(d) = Cover(b)
  <2>1. d.main = b.main /\ d.fragments = b.fragments
    OBVIOUS
  <2>2. d \in [main : Regions, fragments : SUBSET P]
    BY <1>5, <1>6
  <2> HIDE DEF d
  <2>3. \A q \in b.fragments : b.main.end <= q.beg
    <3>1. \A q \in b.fragments : q \in Regions /\ b.main.end < q.beg
      BY <1>3, <1>5 DEF Settled, Pieces
    <3> QED BY <1>6, <3>1 DEF Regions
  <2>4. Holds(d, P, n)
    <3>1. b.main.end <= n /\ b.main.end # n
      BY <1>3, <1>6 DEF Regions
    <3> QED BY <1>6, <2>1, <2>3, <3>1 DEF Holds, BufferFine
  <2> QED BY <1>5, <2>1, <2>2, <2>4 DEF Buffers, Settled, Cover, BufferFine
<1>8. /\ m \in Buffers(P, n)
      /\ Cover(m) = Cover(b) \cup (r.beg .. r.end - 1)
      /\ m.fragments \subseteq b.fragments \cup {r}
      /\ Settled(m)
  <2>1. d.fragments = b.fragments
    OBVIOUS
  <2> HIDE DEF d, r, n, P
  <2> QED BY <1>3, <1>4, <1>7, <2>1, Merge
<1>9. /\ c = [main |-> m.main, fragments |-> m.fragments, content |-> c.content, old |-> FALSE]
      /\ c.content \in Nat
  <2>1. ContentLength(p) \in Nat
    BY <1>1 DEF ContentLength, Datagrams
  <2>2. c = [main |-> m.main, fragments |-> m.fragments,
             content |-> IF b.content = 0 THEN ContentLength(p) ELSE b.content,
             old |-> FALSE]
    BY DEF addFragment, RegionOf, End
  <2>3. b.content \in Nat
    BY <1>5 DEF BufferType
  <2> HIDE DEF c, m
  <2> QED BY <2>1, <2>2, <2>3
<1>10. r.beg .. r.end - 1 = Bytes(p)
  <2>1. r.beg = p.fragmentOffset /\ r.end = p.fragmentOffset + p.length
    BY DEF RegionOf, Region, End
  <2> HIDE DEF r
  <2>2. p.fragmentOffset \in Nat /\ p.length \in Nat
    BY <1>1 DEF Datagrams
  <2> QED BY <2>1, <2>2 DEF Bytes
<1> HIDE DEF c, m
<1>11. c.main = m.main /\ c.fragments = m.fragments
  BY <1>9
<1>12. bytes \cup PartOf(p) = {<<k, i>> : i \in Cover(c)}
  <2>1. bytes = {<<k, i>> : i \in Cover(b)}
    BY DEF BufferFine
  <2>2. PartOf(p) = {<<k, i>> : i \in Bytes(p)}
    BY DEF PartOf, KeyOf
  <2>3. Cover(c) = Cover(b) \cup Bytes(p)
    BY <1>8, <1>10, <1>11 DEF Cover
  <2> HIDE DEF k
  <2> QED BY <2>1, <2>2, <2>3
<1>13. /\ m.main \in Regions /\ m.fragments \subseteq P /\ IsFiniteSet(m.fragments)
       /\ Holds(m, P, n)
  BY <1>8 DEF Buffers
<1>14. ASSUME ~IsComplete(c)
       PROVE  BufferFine(k, c, bytes \cup PartOf(p))
  <2>1. ~c.main.islast /\ c.main.beg = 0 /\ c.main.end < n
    <3>1. m.main.beg = 0 /\ m.main.end <= n /\ (m.main.islast <=> m.main.end = n)
      BY <1>13 DEF Holds
    <3>2. ~c.main.islast /\ c.main.beg = 0 /\ c.main.end # n /\ c.main.end <= n
      BY <1>11, <1>14, <3>1 DEF IsComplete
    <3>3. c.main.end \in Nat
      BY <1>11, <1>13 DEF Regions
    <3> HIDE DEF n
    <3> QED BY <1>3, <3>2, <3>3
  <2>2. c \in BufferType
    <3>1. m.main \in Regions /\ m.fragments \in SUBSET Regions
      BY <1>3, <1>13 DEF Pieces
    <3>2. ASSUME NEW x \in Nat
          PROVE  [main |-> m.main, fragments |-> m.fragments, content |-> x, old |-> FALSE]
                    \in BufferType
      BY <3>1 DEF BufferType
    <3> QED BY <1>9, <3>2
  <2>3. c.fragments \subseteq RegionsOf(lastLink, k)
    BY <1>4, <1>8, <1>11 DEF BufferFine
  <2>4. Settled(c)
    BY <1>8, <1>11 DEF Settled
  <2>5. \A q \in P : q.end <= c.main.end \/ c.main.end <= q.beg
    BY <1>11, <1>13 DEF Holds
  <2> QED BY <1>2, <1>11, <1>12, <1>13, <2>1, <2>2, <2>3, <2>4, <2>5 DEF BufferFine
<1>15. ASSUME IsComplete(c)
       PROVE  /\ bytes \cup PartOf(p) = PayloadBytes(k)
              /\ getTotalLength(c) = n
  <2>1. c.main.end = n
    BY <1>11, <1>13, <1>15 DEF IsComplete, Holds
  <2>2. Cover(c) = 0 .. n - 1
    <3>1. ASSUME NEW q \in c.fragments, NEW i \in Nat, i < q.end PROVE i < n
      <4>1. q.end \in Nat /\ q.end <= n
        BY <1>3, <1>11, <1>13 DEF Pieces, Regions
      <4> QED BY <1>3, <3>1, <4>1
    <3>2. Cover(c) = {i \in Nat : i < n}
      BY <2>1, <3>1 DEF Cover
    <3> HIDE DEF n
    <3> QED BY <1>3, <3>2
  <2>3. PayloadBytes(k) = {<<k, i>> : i \in 0 .. n - 1}
    BY DEF PayloadBytes, PayloadLength
  <2> QED BY <1>12, <2>1, <2>2, <2>3 DEF getTotalLength
<1> QED
  BY <1>14, <1>15 DEF c

-----------------------------------------------------------------------------
(* The steps *)

\* Nothing has been sent.
LEMMA InitInv == ReassemblyInit => ReassemblyInv
<1> SUFFICES ASSUME ReassemblyInit PROVE ReassemblyInv
  OBVIOUS
<1>1. PayloadInv
  BY ReassemblyAssumption DEF ReassemblyInit, PayloadInv
<1>2. LinksInv
  BY DEF ReassemblyInit, LinksInv, OnLinks
<1>3. BuffersInv
  <2>1. None \in BufferType
    BY DEF None, NewBuffer, Region, BufferType, Regions
  <2> QED BY <1>2, <2>1, NoBuffer DEF ReassemblyInit, BuffersInv
<1> QED
  BY <1>1, <1>2, <1>3 DEF ReassemblyInit, ReassemblyInv, DeliveredInv

\* A new datagram has a key of its own, so nothing on the links, in the buffers
\* or delivered belongs to it.
LEMMA SendStep ==
    ASSUME ReassemblyInv, NEW s \in Source, SendDatagram(s)
    PROVE  ReassemblyInv'
<1>0. PICK c : c = Count(s)
  OBVIOUS
<1> DEFINE new == <<s, c>>
<1>1. PICK n \in Length, ttl \in Ttl, df \in BOOLEAN, mtu \in SourceMtu :
        /\ payload' = [payload EXCEPT ![s] = Append(@, n)]
        /\ atRouter' = atRouter \cup fragmentAndSend(encapsulate(s, c, n, ttl, df), mtu)
  BY <1>0 DEF SendDatagram
<1> DEFINE p == encapsulate(s, c, n, ttl, df)
           Q == fragmentAndSend(p, mtu)
<1>2. /\ UNCHANGED <<lastLink, bufs, delivered, arrived>> /\ c < MaxSent
      /\ n \in Nat \ {0} /\ ttl \in Int /\ MaxSent \in Nat
      /\ payload \in [Source -> Seq(Nat \ {0})] /\ c \in Nat /\ c = Len(payload[s])
  BY <1>0, ReassemblyAssumption DEF SendDatagram, ReassemblyInv, PayloadInv, Count
<1>3. p \in Datagrams /\ KeyOf(p) = new /\ End(p) = n /\ ~p.moreFragments
  <2>1. c \in Id
    BY <1>2 DEF Id
  <2> QED BY <1>2, <2>1 DEF encapsulate, Datagrams, KeyOf, End
<1> HIDE DEF p
<1>4. /\ \A q \in Q : PieceOf(q, p)
      /\ \A q, r \in Q : q = r \/ Apart(q, r)
  BY <1>3, FragmentAndSend
<1> HIDE DEF Q
<1>5. /\ payload' \in [Source -> Seq(Nat \ {0})]
      /\ payload'[s] = Append(payload[s], n)
      /\ \A x \in Source : x # s => payload'[x] = payload[x]
  BY <1>1, <1>2
<1>6. PayloadInv'
  <2>1. Len(payload'[s]) <= MaxSent
    BY <1>2, <1>5
  <2>2. ASSUME NEW x \in Source, x # s PROVE Len(payload'[x]) <= MaxSent
    BY <1>5, <2>2 DEF ReassemblyInv, PayloadInv
  <2> QED BY <1>5, <2>1, <2>2 DEF PayloadInv
<1>7. ASSUME NEW k \in Key, Sent(k)
      PROVE  Sent(k)' /\ PayloadLength(k)' = PayloadLength(k) /\ k # new
  <2>1. k[1] \in Source /\ k[2] \in Nat
    BY <1>2 DEF Key, Id
  <2>2. k[2] < Len(payload[k[1]])
    BY <1>7 DEF Sent
  <2>3. CASE k[1] = s
    <3>1. Len(payload'[s]) = Len(payload[s]) + 1
      BY <1>2, <1>5
    <3>2. payload'[s][k[2] + 1] = payload[s][k[2] + 1]
      <4>1. payload[s] \in Seq(Nat \ {0}) /\ k[2] + 1 \in 1 .. Len(payload[s])
        BY <1>2, <2>1, <2>2, <2>3
      <4> QED BY <1>2, <1>5, <4>1
    <3>3. k[2] # c
      BY <1>2, <2>1, <2>2, <2>3
    <3>4. k[2] < Len(payload'[s])
      BY <1>2, <2>1, <2>2, <2>3, <3>1
    <3> QED BY <2>3, <3>2, <3>3, <3>4 DEF Sent, PayloadLength
  <2>4. CASE k[1] # s
    BY <1>5, <2>1, <2>2, <2>4 DEF Sent, PayloadLength
  <2> QED BY <2>3, <2>4
<1>8. Sent(new)' /\ PayloadLength(new)' = n
  <2>1. Len(payload'[s]) = c + 1 /\ payload'[s][c + 1] = n
    BY <1>2, <1>5
  <2>2. c < Len(payload'[s])
    BY <1>2, <2>1
  <2> QED BY <2>1, <2>2 DEF Sent, PayloadLength
<1>9. ASSUME NEW q \in OnLinks
      PROVE  q \in Datagrams /\ Fits(q) /\ KeyOf(q) \in Key /\ Sent(KeyOf(q)) /\ KeyOf(q) # new
  <2>1. q \in Datagrams /\ Fits(q)
    BY DEF ReassemblyInv, LinksInv
  <2>2. KeyOf(q) \in Key /\ Sent(KeyOf(q))
    BY <2>1 DEF Datagrams, KeyOf, Key, Fits
  <2> QED BY <1>7, <2>1, <2>2
<1>10. ASSUME NEW q \in Q
       PROVE  q \in Datagrams /\ KeyOf(q) = new /\ Fits(q)'
  <2>1. PieceOf(q, p)
    BY <1>4
  <2>2. KeyOf(q) = new /\ End(q) <= n /\ (q.moreFragments <=> End(q) # n)
    BY <1>3, <2>1 DEF PieceOf
  <2>3. Fits(q)' = (Sent(KeyOf(q))' /\ End(q) <= PayloadLength(KeyOf(q))'
                    /\ (q.moreFragments <=> End(q) # PayloadLength(KeyOf(q))'))
    BY DEF Fits
  <2> HIDE DEF new
  <2> QED BY <1>8, <2>1, <2>2, <2>3 DEF PieceOf
<1>11. OnLinks' = OnLinks \cup Q /\ atRouter' = atRouter \cup Q
  BY <1>1, <1>2 DEF OnLinks, Q, p
<1>12. LinksInv'
  <2>1. OnLinks' \subseteq Datagrams
    BY <1>9, <1>10, <1>11
  <2>2. \A q \in OnLinks' : Fits(q)'
    <3>1. ASSUME NEW q \in OnLinks PROVE Fits(q)'
      BY <1>7, <1>9 DEF Fits
    <3> QED BY <1>10, <1>11, <3>1
  <2>3. \A q \in atRouter', r \in lastLink : Apart(q, r)
    <3>1. ASSUME NEW q \in Q, NEW r \in lastLink PROVE Apart(q, r)
      BY <1>9, <1>10 DEF Apart, OnLinks
    <3> QED BY <1>11, <3>1 DEF ReassemblyInv, LinksInv
  <2>4. \A q, r \in atRouter' : q = r \/ Apart(q, r)
    <3>1. ASSUME NEW q \in Q, NEW r \in atRouter PROVE Apart(q, r) /\ Apart(r, q)
      BY <1>9, <1>10 DEF Apart, OnLinks
    <3> QED BY <1>4, <1>11, <3>1 DEF ReassemblyInv, LinksInv
  <2> QED BY <1>2, <2>1, <2>2, <2>3, <2>4 DEF ReassemblyInv, LinksInv
<1>13. BuffersInv'
  <2> SUFFICES ASSUME NEW k \in Key PROVE BufferFine(k, bufs[k], arrived[k])'
    BY <1>2 DEF BuffersInv, ReassemblyInv
  <2>1. BufferFine(k, bufs[k], arrived[k])
    BY DEF ReassemblyInv, BuffersInv
  <2>2. bufs[k] # None => Sent(k)' /\ bufs[k].main.end < PayloadLength(k)'
    BY <1>7, <2>1 DEF BufferFine
  <2>3. ASSUME NEW r \in RegionsOf(OnLinks', k)
        PROVE  r.end <= bufs[k].main.end \/ bufs[k].main.end <= r.beg
    <3>1. PICK q \in OnLinks' : KeyOf(q) = k /\ r = RegionOf(q)
      BY DEF RegionsOf
    <3>2. CASE q \in OnLinks
      BY <2>1, <3>1, <3>2 DEF BufferFine, RegionsOf
    <3>3. CASE q \in Q
      <4>1. k = new
        BY <1>10, <3>1, <3>3
      <4>2. bufs[k] = None
        BY <1>7, <2>1, <4>1 DEF BufferFine
      <4>3. bufs[k].main.end = 0
        BY <4>2 DEF None, NewBuffer, Region
      <4>4. r.beg \in Nat
        BY <1>10, <3>1, <3>3 DEF RegionOf, Region, Datagrams
      <4> QED BY <4>3, <4>4
    <3> QED BY <1>11, <3>1, <3>2, <3>3
  <2>4. RegionsOf(lastLink, k)' = RegionsOf(lastLink, k)
        /\ RegionsOf(OnLinks, k)' = RegionsOf(OnLinks', k)
    BY <1>2 DEF RegionsOf
  <2> QED BY <1>2, <2>1, <2>2, <2>3, <2>4 DEF BufferFine
<1>14. DeliveredInv'
  <2> SUFFICES ASSUME NEW d \in delivered
               PROVE  /\ d.src \in Source /\ d.id \in Id /\ Sent(<<d.src, d.id>>)'
                      /\ d.bytes = PayloadBytes(<<d.src, d.id>>)'
                      /\ d.total = payload'[d.src][d.id + 1]
    BY <1>2 DEF DeliveredInv
  <2> DEFINE k == <<d.src, d.id>>
  <2>1. /\ d.src \in Source /\ d.id \in Id /\ Sent(k) /\ k \in Key
        /\ d.bytes = PayloadBytes(k) /\ d.total = payload[d.src][d.id + 1]
    BY DEF ReassemblyInv, DeliveredInv, Key
  <2>2. Sent(k)' /\ PayloadLength(k)' = PayloadLength(k)
    BY <1>7, <2>1
  <2>3. payload'[d.src][d.id + 1] = payload[d.src][d.id + 1]
    BY <2>2 DEF PayloadLength
  <2>4. PayloadBytes(k)' = PayloadBytes(k)
    BY <2>3 DEF PayloadBytes
  <2> QED BY <2>1, <2>2, <2>3, <2>4
<1> QED
  BY <1>6, <1>12, <1>13, <1>14 DEF ReassemblyInv

\* The pieces of a datagram take its place among the pieces on the links.
LEMMA ForwardStep ==
    ASSUME ReassemblyInv, NEW p \in atRouter, Forward(p)
    PROVE  ReassemblyInv'
<1>1. PICK mtu \in RouterMtu : lastLink' = lastLink \cup fragmentAndSend(p, mtu)
  BY DEF Forward
<1>2. atRouter' = atRouter \ {p} /\ UNCHANGED <<payload, bufs, delivered, arrived>>
  BY DEF Forward
<1> DEFINE Q == fragmentAndSend(p, mtu)
<1>3. p \in Datagrams /\ Fits(p) /\ p \in OnLinks /\ LinksInv
  BY DEF ReassemblyInv, LinksInv, OnLinks
<1>4. /\ \A q \in Q : PieceOf(q, p)
      /\ \A q, r \in Q : q = r \/ Apart(q, r)
  BY <1>3, FragmentAndSend
<1> HIDE DEF Q
<1>5. /\ p.fragmentOffset \in Nat /\ End(p) \in Nat
      /\ \A q \in Datagrams : q.fragmentOffset \in Nat /\ End(q) \in Nat
  BY <1>3 DEF Datagrams, End
<1>6. ASSUME NEW q \in Q
      PROVE  /\ q \in Datagrams /\ KeyOf(q) = KeyOf(p) /\ q.fragmentOffset \in Nat
             /\ End(q) \in Nat /\ p.fragmentOffset <= q.fragmentOffset
             /\ End(q) <= End(p) /\ (q.moreFragments <=> p.moreFragments \/ End(q) # End(p))
  BY <1>4, <1>5 DEF PieceOf
<1>7. ASSUME NEW q \in Q, NEW r \in Datagrams, Apart(p, r) \/ Apart(r, p)
      PROVE  Apart(q, r) /\ Apart(r, q)
  BY <1>5, <1>6, <1>7 DEF Apart
<1>8. OnLinks' \subseteq OnLinks \cup Q /\ lastLink' = lastLink \cup Q
  BY <1>1, <1>2 DEF OnLinks, Q
<1>9. LinksInv'
  <2>1. OnLinks' \subseteq Datagrams
    BY <1>3, <1>6, <1>8 DEF LinksInv
  <2>2. \A q \in OnLinks' : Fits(q)'
    <3>1. \A q : Fits(q)' = Fits(q)
      BY <1>2 DEF Fits, Sent, PayloadLength
    <3>2. ASSUME NEW q \in Q PROVE Fits(q)
      <4>1. KeyOf(p) \in Key /\ Sent(KeyOf(p))
        BY <1>3 DEF Datagrams, KeyOf, Key, Fits
      <4>2. PayloadLength(KeyOf(p)) \in Nat
        BY <4>1, PiecesOfDatagram DEF ReassemblyInv
      <4> QED BY <1>3, <1>5, <1>6, <4>2 DEF Fits
    <3> QED BY <1>3, <1>8, <3>1, <3>2 DEF LinksInv
  <2>3. ASSUME NEW q \in atRouter', NEW r \in lastLink' PROVE Apart(q, r)
    <3>1. CASE r \in lastLink
      BY <1>2, <1>3, <3>1 DEF LinksInv
    <3>2. CASE r \in Q
      <4>1. q \in Datagrams /\ Apart(p, q)
        BY <1>2, <1>3 DEF LinksInv, OnLinks
      <4> QED BY <1>7, <3>2, <4>1
    <3> QED BY <1>8, <3>1, <3>2
  <2>4. \A q, r \in atRouter' : q = r \/ Apart(q, r)
    BY <1>2, <1>3 DEF LinksInv
  <2>5. ASSUME NEW q \in lastLink', NEW r \in lastLink' PROVE q = r \/ Apart(q, r)
    <3>1. ASSUME NEW x \in lastLink, NEW y \in Q PROVE Apart(x, y) /\ Apart(y, x)
      <4>1. x \in Datagrams /\ Apart(p, x)
        BY <1>3 DEF LinksInv, OnLinks
      <4> QED BY <1>7, <4>1
    <3>2. \A x, y \in lastLink : x = y \/ Apart(x, y)
      BY <1>3 DEF LinksInv
    <3> QED BY <1>4, <1>8, <3>1, <3>2
  <2> QED BY <2>1, <2>2, <2>3, <2>4, <2>5 DEF LinksInv
<1>10. BuffersInv'
  <2> SUFFICES ASSUME NEW k \in Key PROVE BufferFine(k, bufs[k], arrived[k])'
    BY <1>2 DEF BuffersInv, ReassemblyInv
  <2>1. BufferFine(k, bufs[k], arrived[k])
    BY DEF ReassemblyInv, BuffersInv
  <2>2. bufs[k] # None => Sent(k)' /\ bufs[k].main.end < PayloadLength(k)'
    BY <1>2, <2>1 DEF BufferFine, Sent, PayloadLength
  <2>3. ASSUME NEW r \in RegionsOf(OnLinks', k)
        PROVE  r.end <= bufs[k].main.end \/ bufs[k].main.end <= r.beg
    <3>1. PICK q \in OnLinks' : KeyOf(q) = k /\ r = RegionOf(q)
      BY DEF RegionsOf
    <3>2. CASE q \in OnLinks
      BY <2>1, <3>1, <3>2 DEF BufferFine, RegionsOf
    <3>3. CASE q \in Q
      <4>1. RegionOf(p) \in RegionsOf(OnLinks, k)
        BY <1>3, <1>6, <3>1, <3>3 DEF RegionsOf
      <4>2. End(p) <= bufs[k].main.end \/ bufs[k].main.end <= p.fragmentOffset
        BY <2>1, <4>1 DEF BufferFine, RegionOf, Region
      <4>3. r.beg = q.fragmentOffset /\ r.end = End(q)
        BY <3>1 DEF RegionOf, Region
      <4>4. bufs[k].main.end \in Nat
        BY <2>1 DEF BufferFine, BufferType, Regions
      <4> QED BY <1>5, <1>6, <3>3, <4>2, <4>3, <4>4
    <3> QED BY <1>8, <3>1, <3>2, <3>3
  <2>4. RegionsOf(lastLink, k) \subseteq RegionsOf(lastLink, k)'
        /\ RegionsOf(OnLinks, k)' = RegionsOf(OnLinks', k)
    BY <1>8 DEF RegionsOf
  <2> QED BY <1>2, <2>1, <2>2, <2>3, <2>4 DEF BufferFine
<1>11. PayloadInv' /\ DeliveredInv'
  BY <1>2 DEF ReassemblyInv, PayloadInv, DeliveredInv, Sent, PayloadBytes
<1> QED
  BY <1>9, <1>10, <1>11 DEF ReassemblyInv

\* What stays when the links and the payloads do.
LEMMA LinksStay ==
    ASSUME ReassemblyInv, UNCHANGED <<payload, atRouter, lastLink>>
    PROVE  /\ PayloadInv' /\ LinksInv'
           /\ \A k : Sent(k)' = Sent(k) /\ PayloadLength(k)' = PayloadLength(k)
                    /\ PayloadBytes(k)' = PayloadBytes(k)
                    /\ RegionsOf(lastLink, k)' = RegionsOf(lastLink, k)
                    /\ RegionsOf(OnLinks, k)' = RegionsOf(OnLinks, k)
  BY DEF ReassemblyInv, PayloadInv, LinksInv, OnLinks, Fits, Sent, PayloadLength, PayloadBytes, RegionsOf

\* The buffers after a step that leaves the links alone.
LEMMA BuffersStay ==
    ASSUME ReassemblyInv, UNCHANGED <<payload, atRouter, lastLink>>,
           bufs' \in [Key -> BufferType], DOMAIN arrived' = Key,
           \A k \in Key : BufferFine(k, bufs'[k], arrived'[k])
    PROVE  BuffersInv'
<1> SUFFICES ASSUME NEW k \in Key PROVE BufferFine(k, bufs[k], arrived[k])'
  BY DEF BuffersInv
<1>1. BufferFine(k, bufs'[k], arrived'[k])
  OBVIOUS
<1> QED
  BY <1>1, LinksStay DEF BufferFine

\* A buffer that ages is the same otherwise.
LEMMA AgesStep ==
    ASSUME ReassemblyInv, NEW k \in Key, BufferAges(k)
    PROVE  ReassemblyInv'
<1>1. /\ bufs' = [bufs EXCEPT ![k] = [bufs[k] EXCEPT !.old = TRUE]]
      /\ UNCHANGED <<payload, atRouter, lastLink, delivered, arrived>>
      /\ bufs[k] # None
  BY DEF BufferAges
<1> DEFINE b == [bufs[k] EXCEPT !.old = TRUE]
<1>2. BufferFine(k, bufs[k], arrived[k]) /\ bufs[k] \in BufferType
      /\ bufs \in [Key -> BufferType]
  BY DEF ReassemblyInv, BuffersInv
<1>3. b \in BufferType /\ b.main = bufs[k].main /\ b.fragments = bufs[k].fragments
  BY <1>2 DEF BufferType
<1> HIDE DEF b
<1>4. bufs' \in [Key -> BufferType] /\ bufs'[k] = b
      /\ \A x \in Key : x # k => bufs'[x] = bufs[x]
  BY <1>1, <1>2, <1>3 DEF b
<1>5. BufferFine(k, b, arrived[k])
  BY <1>1, <1>2, <1>3 DEF BufferFine, Settled, Cover
<1>6. \A x \in Key : BufferFine(x, bufs'[x], arrived'[x])
  BY <1>1, <1>4, <1>5 DEF ReassemblyInv, BuffersInv
<1>7. BuffersInv'
  BY <1>1, <1>4, <1>6, BuffersStay DEF ReassemblyInv, BuffersInv
<1> QED
  BY <1>1, <1>7, LinksStay DEF ReassemblyInv, DeliveredInv

\* A datagram that was not fragmented is delivered at once; a piece goes to the
\* buffer of its datagram, which is delivered when it is complete.
LEMMA ArrivesStep ==
    ASSUME ReassemblyInv, NEW p \in lastLink, Arrives(p)
    PROVE  ReassemblyInv'
<1>1. UNCHANGED <<payload, atRouter, lastLink>>
  BY DEF Arrives
<1>2. PICK due \in BOOLEAN : reassembleAndDeliver(p, due)
  BY DEF Arrives
<1> DEFINE k == KeyOf(p)
           live == IF due THEN purgeStaleFragments(bufs) ELSE bufs
           got == [x \in Key |-> IF live[x] = None THEN {} ELSE arrived[x]]
           c == addFragment(live[k], p)
           bytes == got[k] \cup PartOf(p)
           d == [src |-> p.src, id |-> p.identification, total |-> getTotalLength(c),
                 content |-> c.content, bytes |-> bytes]
           e == [src |-> p.src, id |-> p.identification, total |-> p.length,
                 content |-> p.length, bytes |-> PartOf(p)]
<1>3. PayloadInv /\ LinksInv /\ BuffersInv /\ DeliveredInv
  BY DEF ReassemblyInv
<1>4. /\ p \in Datagrams /\ Fits(p) /\ k \in Key /\ Sent(k) /\ k = <<p.src, p.identification>>
      /\ p.src \in Source /\ p.identification \in Id
  <2>1. p \in Datagrams /\ Fits(p)
    BY <1>3 DEF LinksInv, OnLinks
  <2> QED BY <2>1 DEF Fits, Datagrams, KeyOf, Key
<1>5. None \in BufferType
  BY <1>4, <1>3, NoBuffer DEF BufferFine
<1>6. live \in [Key -> BufferType]
  BY <1>3, <1>5 DEF BuffersInv, purgeStaleFragments
<1>7. \A x \in Key : live[x] = None \/ live[x] = bufs[x]
  BY DEF purgeStaleFragments
<1> HIDE DEF live, k
<1>8. ASSUME NEW x \in Key PROVE BufferFine(x, live[x], got[x])
  <2>1. CASE live[x] = None
    BY <1>3, <2>1, NoBuffer
  <2>2. CASE live[x] # None
    BY <1>3, <1>7, <2>2 DEF BuffersInv
  <2> QED BY <2>1, <2>2
<1>9. DOMAIN got = Key
  OBVIOUS
<1> HIDE DEF got
<1>10. /\ ~IsComplete(c) => BufferFine(k, c, bytes)
       /\ IsComplete(c) => bytes = PayloadBytes(k) /\ getTotalLength(c) = PayloadLength(k)
  BY <1>3, <1>4, <1>8, AddFragment DEF k
<1> HIDE DEF c, bytes
<1>11. CASE ~IsFragment(p)
  <2>1. delivered' = delivered \cup {e} /\ UNCHANGED <<bufs, arrived>>
    BY <1>2, <1>11 DEF reassembleAndDeliver
  <2>2. BuffersInv'
    BY <1>1, <1>3, <2>1, BuffersStay DEF BuffersInv
  <2>3. p.fragmentOffset = 0 /\ p.length = PayloadLength(k)
    <3>1. p.fragmentOffset = 0 /\ ~p.moreFragments
      BY <1>11 DEF IsFragment
    <3>2. End(p) = PayloadLength(k)
      BY <1>4, <3>1 DEF Fits, k
    <3>3. End(p) = p.length
      BY <1>4, <3>1 DEF End, Datagrams
    <3> QED BY <3>1, <3>2, <3>3
  <2>4. e.total = payload[p.src][p.identification + 1]
    BY <1>4, <2>3 DEF PayloadLength
  <2>5. PartOf(p) = PayloadBytes(k)
    <3>1. Bytes(p) = 0 .. payload[p.src][p.identification + 1] - 1
      BY <1>4, <2>3 DEF Bytes, PayloadLength, Datagrams
    <3> QED BY <1>4, <3>1 DEF PartOf, PayloadBytes
  <2>6. e.src = p.src /\ e.id = p.identification /\ e.bytes = PartOf(p)
    OBVIOUS
  <2> HIDE DEF e
  <2>7. DeliveredInv'
    BY <1>1, <1>3, <1>4, <2>1, <2>4, <2>5, <2>6, LinksStay DEF DeliveredInv
  <2> QED BY <1>1, <2>2, <2>7, LinksStay DEF ReassemblyInv
<1>12. CASE IsFragment(p) /\ IsComplete(c)
  <2>1. /\ delivered' = delivered \cup {d}
        /\ bufs' = [live EXCEPT ![k] = None]
        /\ arrived' = [got EXCEPT ![k] = {}]
    BY <1>2, <1>12 DEF reassembleAndDeliver, c, bytes, got, live, k
  <2>2. bufs' \in [Key -> BufferType] /\ DOMAIN arrived' = Key
    BY <1>5, <1>6, <1>9, <2>1
  <2>3. ASSUME NEW x \in Key PROVE BufferFine(x, bufs'[x], arrived'[x])
    <3>1. CASE x = k
      BY <1>3, <1>4, <1>6, <1>9, <2>1, <3>1, NoBuffer
    <3>2. CASE x # k
      BY <1>6, <1>8, <1>9, <2>1, <3>2
    <3> QED BY <3>1, <3>2
  <2>4. BuffersInv'
    BY <1>1, <2>2, <2>3, BuffersStay
  <2>5. d.total = payload[p.src][p.identification + 1] /\ d.bytes = PayloadBytes(k)
    BY <1>4, <1>10, <1>12 DEF PayloadLength
  <2>6. d.src = p.src /\ d.id = p.identification
    OBVIOUS
  <2> HIDE DEF d
  <2>7. DeliveredInv'
    BY <1>1, <1>3, <1>4, <2>1, <2>5, <2>6, LinksStay DEF DeliveredInv
  <2> QED BY <1>1, <2>4, <2>7, LinksStay DEF ReassemblyInv
<1>13. CASE IsFragment(p) /\ ~IsComplete(c)
  <2>1. /\ UNCHANGED delivered
        /\ bufs' = [live EXCEPT ![k] = c]
        /\ arrived' = [got EXCEPT ![k] = bytes]
    BY <1>2, <1>13 DEF reassembleAndDeliver, c, bytes, got, live, k
  <2>2. bufs' \in [Key -> BufferType] /\ DOMAIN arrived' = Key
    BY <1>6, <1>9, <1>10, <1>13, <2>1 DEF BufferFine
  <2>3. ASSUME NEW x \in Key PROVE BufferFine(x, bufs'[x], arrived'[x])
    <3>1. CASE x = k
      BY <1>4, <1>6, <1>9, <1>10, <1>13, <2>1, <3>1
    <3>2. CASE x # k
      BY <1>6, <1>8, <1>9, <2>1, <3>2
    <3> QED BY <3>1, <3>2
  <2>4. BuffersInv'
    BY <1>1, <2>2, <2>3, BuffersStay
  <2> QED BY <1>1, <1>3, <2>1, <2>4, LinksStay DEF ReassemblyInv, DeliveredInv
<1> QED
  BY <1>11, <1>12, <1>13

\* The invariant holds in every reachable state: sending, forwarding with any
\* MTU, arrivals in any order, duplicates, timeouts and purges keep it.
THEOREM ReassemblyInvariance == ReassemblySpec => []ReassemblyInv
<1>1. ASSUME ReassemblyInv, [ReassemblyNext]_reassemblyVars PROVE ReassemblyInv'
  <2>1. ASSUME NEW s \in Source, SendDatagram(s) PROVE ReassemblyInv'
    BY <1>1, <2>1, SendStep
  <2>2. ASSUME NEW p \in atRouter, Forward(p) PROVE ReassemblyInv'
    BY <1>1, <2>2, ForwardStep
  <2>3. ASSUME NEW p \in lastLink, Arrives(p) PROVE ReassemblyInv'
    BY <1>1, <2>3, ArrivesStep
  <2>4. ASSUME NEW k \in Key, BufferAges(k) PROVE ReassemblyInv'
    BY <1>1, <2>4, AgesStep
  <2>5. CASE UNCHANGED reassemblyVars
    <3>1. BuffersInv'
      BY <1>1, <2>5, BuffersStay DEF reassemblyVars, ReassemblyInv, BuffersInv
    <3> QED BY <1>1, <2>5, <3>1, LinksStay DEF reassemblyVars, ReassemblyInv, DeliveredInv
  <2> QED BY <1>1, <2>1, <2>2, <2>3, <2>4, <2>5 DEF ReassemblyNext
<1> QED
  BY <1>1, InitInv, PTL DEF ReassemblySpec

\* ReassemblyBuffer::merge and mergeFragments invent and forget nothing, whatever
\* the order and the number of times that fragments, and fragments of fragments,
\* come in: a buffer stands for exactly the bytes that arrived since it was made,
\* its main region is all that connects to byte 0, and no datagram that has come
\* in completely stays in it.  Model-checked for 7 bytes, proved for any length
\* (the offsets are 16 bits wide in the code, as in the header field they come from).
THEOREM BuffersExact == ReassemblySpec => []ReassemblyExact
<1>1. ASSUME ReassemblyInv PROVE ReassemblyExact
  <2> SUFFICES ASSUME NEW k \in Key, bufs[k] # None
               PROVE  /\ arrived[k] = UNION {RegionBytes(r, k) :
                                        r \in bufs[k].fragments \cup {bufs[k].main}}
                      /\ <<k, bufs[k].main.end>> \notin arrived[k]
                      /\ arrived[k] # PayloadBytes(k)
    BY DEF ReassemblyExact
  <2> DEFINE b == bufs[k]
             n == PayloadLength(k)
  <2>1. BufferFine(k, b, arrived[k]) /\ Sent(k) /\ PayloadInv /\ LinksInv
    BY <1>1 DEF ReassemblyInv, BuffersInv, BufferFine
  <2>2. n \in Nat
    BY <2>1, PiecesOfDatagram
  <2>3. /\ arrived[k] = {<<k, i>> : i \in Cover(b)} /\ b.main.end < n /\ b.main.beg = 0
        /\ b.main.end \in Nat /\ \A r \in b.fragments : r \in Regions /\ b.main.end < r.beg
    BY <2>1 DEF BufferFine, Settled, BufferType, Regions
  <2> HIDE DEF b, n
  <2>4. b.main.end \notin Cover(b)
    <3>1. ASSUME NEW r \in b.fragments PROVE ~(r.beg <= b.main.end)
      BY <2>3 DEF Regions
    <3> QED BY <2>3, <3>1 DEF Cover
  <2>5. \A i : <<k, i>> \in arrived[k] <=> i \in Cover(b)
    BY <2>3
  <2>6. <<k, b.main.end>> \notin arrived[k]
    BY <2>4, <2>5
  <2>7. <<k, b.main.end>> \in PayloadBytes(k)
    <3>1. b.main.end \in 0 .. n - 1
      BY <2>2, <2>3
    <3> QED BY <3>1 DEF PayloadBytes, PayloadLength, n
  <2>8. arrived[k] = UNION {RegionBytes(r, k) : r \in b.fragments \cup {b.main}}
    <3> DEFINE R == b.fragments \cup {b.main}
               U == UNION {RegionBytes(r, k) : r \in R}
    <3>1. ASSUME NEW i PROVE i \in Cover(b) <=> \E r \in R : i \in r.beg .. r.end - 1
      <4>1. \A r \in b.fragments : i \in r.beg .. r.end - 1 <=> i \in Nat /\ r.beg <= i /\ i < r.end
        BY <2>3 DEF Regions
      <4>2. i \in b.main.beg .. b.main.end - 1 <=> i \in Nat /\ i < b.main.end
        BY <2>3
      <4> QED BY <4>1, <4>2 DEF Cover
    <3>2. \A x : x \in U <=> \E r \in R : \E i \in r.beg .. r.end - 1 : x = <<k, i>>
      BY DEF RegionBytes
    <3>3. \A x : x \in arrived[k] <=> \E i \in Cover(b) : x = <<k, i>>
      BY <2>3
    <3> HIDE DEF R, U
    <3>4. \A x : x \in arrived[k] <=> x \in U
      BY <3>1, <3>2, <3>3
    <3> QED BY <3>4, Zenon DEF R, U
  <2> QED BY <2>6, <2>7, <2>8 DEF b
<1> QED
  BY <1>1, ReassemblyInvariance, PTL

\* IPv4::reassembleAndDeliver passes a datagram on only when all of its bytes have
\* come in since its buffer was made, with its own bytes only and with the length
\* it had; bytes of two lives of a buffer are never mixed.
THEOREM CompleteDelivery == ReassemblySpec => []DeliveredComplete
<1>1. ReassemblyInv => DeliveredComplete
  BY DEF ReassemblyInv, DeliveredInv, DeliveredComplete
<1> QED
  BY <1>1, ReassemblyInvariance, PTL
=============================================================================
