--------------------------- MODULE IPv4Reassembly ---------------------------
(***************************************************************************)
(* Datagrams on their way from their sources over a router to a receiver:  *)
(* IPv4::encapsulate, IPv4::fragmentAndSend at the source and again at the *)
(* router, and IPv4::reassembleAndDeliver with IPv4FragBuf at the receiver *)
(* (src/networklayer/ipv4).                                                *)
(*                                                                         *)
(* A link is the set of what was sent on it and has not been taken off it. *)
(* A datagram on the first link is forwarded once or never, one on the     *)
(* last link arrives any number of times, in any order, or never: they may *)
(* be lost and reordered on both links and duplicated on the last one.     *)
(* The MTU of an outgoing interface is chosen anew for each datagram: the  *)
(* router has several interfaces and routes change.                        *)
(* Simulation time is abstracted to the two comparisons it is used in:     *)
(* a buffer is older than fragmentTimeout, and 10 s have passed since the  *)
(* last check.                                                             *)
(***************************************************************************)
EXTENDS IPv4Fragmentation, ReassemblyBuffer, Sequences

CONSTANTS
    Source,      \* source addresses; there is one destination
    Length,      \* payload lengths the sources may send
    Ttl,         \* hop counters they may use
    SourceMtu,   \* MTUs of their interfaces
    RouterMtu,   \* MTUs of the interfaces of the router
    MaxSent      \* bound: datagrams per source; less than 2^16, so that no
                 \* identification is used twice

ASSUME ReassemblyAssumption ==
    /\ Length \subseteq Nat \ {0}
    /\ Ttl \subseteq Nat
    /\ \A mtu \in SourceMtu \cup RouterMtu :
          mtu \in Nat /\ (mtu = 0 \/ mtu >= HeaderLength + Block)
    /\ MaxSent \in Nat

VARIABLES
    payload,    \* payload[s]: the lengths of the payloads s has sent
    atRouter,   \* datagrams and fragments on the first link
    lastLink,   \* datagrams and fragments on the last link
    bufs,       \* bufs[key]: the reassembly buffer of a datagram
    delivered,  \* what the transport layer of the receiver got
    arrived     \* history: arrived[key] is the set of bytes that came in
                \* since bufs[key] was made

reassemblyVars == <<payload, atRouter, lastLink, bufs, delivered, arrived>>

Id == 0 .. MaxSent - 1

Key == Source \X Id

\* IPv4FragBuf::Key; the destination is the same for all.
KeyOf(p) == <<p.src, p.identification>>

\* The bytes that p carries, with the datagram they belong to.
PartOf(p) == {<<<<p.src, p.identification>>, i>> : i \in Bytes(p)}

\* No buffer for a key.
None == [main |-> NewBuffer.main, fragments |-> NewBuffer.fragments,
         content |-> 0, old |-> FALSE]

ReassemblyInit ==
    /\ payload = [s \in Source |-> <<>>]
    /\ atRouter = {}
    /\ lastLink = {}
    /\ bufs = [k \in Key |-> None]
    /\ delivered = {}
    /\ arrived = [k \in Key |-> {}]

-----------------------------------------------------------------------------
\* IPv4::encapsulate numbers the datagrams with curFragmentId.
encapsulate(s, id, n, ttl, df) ==
    [src |-> s, identification |-> id, timeToLive |-> ttl, dontFragment |-> df,
     moreFragments |-> FALSE, fragmentOffset |-> 0, length |-> n,
     totalPayloadLength |-> 0]

\* curFragmentId of source s.
Count(s) == Len(payload[s])

\* A transport protocol of source s sends a packet.
SendDatagram(s) ==
    /\ Count(s) < MaxSent
    /\ \E n \in Length, ttl \in Ttl, df \in BOOLEAN, mtu \in SourceMtu :
          /\ payload' = [payload EXCEPT ![s] = Append(@, n)]
          /\ atRouter' = atRouter \cup
                fragmentAndSend(encapsulate(s, Count(s), n, ttl, df), mtu)
    /\ UNCHANGED <<lastLink, bufs, delivered, arrived>>

\* The router forwards a datagram.
Forward(p) ==
    /\ p \in atRouter
    /\ atRouter' = atRouter \ {p}
    /\ \E mtu \in RouterMtu : lastLink' = lastLink \cup fragmentAndSend(p, mtu)
    /\ UNCHANGED <<payload, bufs, delivered, arrived>>

\* The byte length of the packet that leaves the datagram in decapsulate():
\* reassembleAndDeliver has set it to totalPayloadLength in a fragment.
ContentLength(p) == IF p.totalPayloadLength > 0 THEN p.totalPayloadLength ELSE p.length

IsFragment(p) == p.fragmentOffset # 0 \/ p.moreFragments

\* IPv4FragBuf::addFragment up to its result.  Every fragment encapsulates the
\* packet, so the datagram that is kept is the first one to arrive.
addFragment(b, p) ==
    LET m == merge([main |-> b.main, fragments |-> b.fragments],
                   Region(p.fragmentOffset, p.fragmentOffset + p.length, ~p.moreFragments))
    IN  [main |-> m.main, fragments |-> m.fragments,
         content |-> IF b.content = 0 THEN ContentLength(p) ELSE b.content,
         old |-> FALSE]

\* IPv4FragBuf::purgeStaleFragments, which reassembleAndDeliver calls before
\* it adds a fragment when the last check is 10 s ago.
purgeStaleFragments(buffers) ==
    [k \in Key |-> IF buffers[k].old THEN None ELSE buffers[k]]

\* IPv4::reassembleAndDeliver on datagram p.  due: the last check is 10 s ago.
reassembleAndDeliver(p, due) ==
    LET k == KeyOf(p)
        live == IF due THEN purgeStaleFragments(bufs) ELSE bufs
        got == [x \in Key |-> IF live[x] = None THEN {} ELSE arrived[x]]
        b == addFragment(live[k], p)
        bytes == got[k] \cup PartOf(p)
    IN  IF ~IsFragment(p)
        THEN /\ delivered' = delivered \cup
                  {[src |-> p.src, id |-> p.identification, total |-> p.length,
                    content |-> p.length, bytes |-> PartOf(p)]}
             /\ UNCHANGED <<bufs, arrived>>
        ELSE IF IsComplete(b)
        THEN /\ delivered' = delivered \cup
                  {[src |-> p.src, id |-> p.identification, total |-> getTotalLength(b),
                    content |-> b.content, bytes |-> bytes]}
             /\ bufs' = [live EXCEPT ![k] = None]
             /\ arrived' = [got EXCEPT ![k] = {}]
        ELSE /\ bufs' = [live EXCEPT ![k] = b]
             /\ arrived' = [got EXCEPT ![k] = bytes]
             /\ UNCHANGED delivered

\* A datagram, or a duplicate of it, reaches the receiver.
Arrives(p) ==
    /\ p \in lastLink
    /\ \E due \in BOOLEAN : reassembleAndDeliver(p, due)
    /\ UNCHANGED <<payload, atRouter, lastLink>>

\* Time passes: the last fragment of a datagram came fragmentTimeout ago.
BufferAges(k) ==
    /\ bufs[k] # None
    /\ ~bufs[k].old
    /\ bufs' = [bufs EXCEPT ![k].old = TRUE]
    /\ UNCHANGED <<payload, atRouter, lastLink, delivered, arrived>>

ReassemblyNext ==
    \/ \E s \in Source : SendDatagram(s)
    \/ \E p \in atRouter : Forward(p)
    \/ \E p \in lastLink : Arrives(p)
    \/ \E k \in Key : BufferAges(k)

ReassemblySpec == ReassemblyInit /\ [][ReassemblyNext]_reassemblyVars

-----------------------------------------------------------------------------
\* The bytes of the payload of the datagram with key k.
PayloadBytes(k) == {<<k, i>> : i \in 0 .. payload[k[1]][k[2] + 1] - 1}

\* The bytes of the datagram with key k that a region covers.
RegionBytes(r, k) == {<<k, i>> : i \in r.beg .. r.end - 1}

\* Whatever the order, the loss and the duplication of the fragments, a buffer
\* stands for exactly the bytes that came in: none is invented or forgotten,
\* the main region is all that connects to byte 0, and a datagram that has
\* come in completely does not stay in its buffer.
ReassemblyExact ==
    \A k \in Key :
        LET b == bufs[k] IN
        b # None =>
            /\ arrived[k] = UNION {RegionBytes(r, k) : r \in b.fragments \cup {b.main}}
            /\ <<k, b.main.end>> \notin arrived[k]
            /\ arrived[k] # PayloadBytes(k)

\* A datagram is delivered only when all of it has come in, after the buffer
\* was last empty, with its own bytes only and with the length it had.
DeliveredComplete ==
    \A d \in delivered :
        /\ d.bytes = PayloadBytes(<<d.src, d.id>>)
        /\ d.total = payload[d.src][d.id + 1]

\* The packet that the transport protocol gets is as long as the one that was
\* sent (tests/module/IPv4_refragmentation.test: 5000 bytes over two routers
\* with smaller and smaller MTUs, "Received packet: ... (5000 bytes)").
DeliveredLength ==
    \A d \in delivered : d.content = payload[d.src][d.id + 1]
=============================================================================
