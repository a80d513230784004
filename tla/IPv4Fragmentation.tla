------------------------- MODULE IPv4Fragmentation -------------------------
(***************************************************************************)
(* Datagrams, their fragments, and IPv4::fragmentAndSend                   *)
(* (src/networklayer/ipv4/IPv4.cc, the NEWFRAGMENT variant, which is the   *)
(* one that is compiled).                                                  *)
(*                                                                         *)
(* length is the byte length of the payload a datagram or fragment has:    *)
(* getByteLength() without the header, and the byte length of its copy of  *)
(* the encapsulated packet.  totalPayloadLength is what the receiver       *)
(* restores that copy to; 0 means that the datagram was never fragmented.  *)
(* DSR, which reserves 30 bytes more, is left out.                         *)
(***************************************************************************)
EXTENDS Integers, FiniteSets

CONSTANTS
    HeaderLength,  \* bytes of an IPv4 header, 20 in the code
    Block          \* fragment offsets are multiples of it, 8 in the code

ASSUME FragmentationAssumption ==
    /\ HeaderLength \in Nat
    /\ Block \in Nat \ {0}

\* The offsets of the bytes of the original payload that p carries.
Bytes(p) == p.fragmentOffset .. p.fragmentOffset + p.length - 1

\* Payload of a fragment that is not the last.  An MTU for which it is not
\* positive is a configuration error that stops the simulation.
fragmentLength(mtu) == ((mtu - HeaderLength) \div Block) * Block

\* Mutant: the last fragment of a fragment ends the datagram.
FragmentAtLast(p, offset, mtu) ==
    LET lastFragment == offset + fragmentLength(mtu) >= p.length
    IN  [p EXCEPT !.moreFragments = ~lastFragment,
                  !.fragmentOffset = @ + offset,
                  !.length = IF lastFragment THEN @ - offset ELSE fragmentLength(mtu),
                  !.totalPayloadLength = p.length]

\* The fragment of p whose payload begins at offset in the payload of p.
FragmentAt(p, offset, mtu) ==
    LET lastFragment == offset + fragmentLength(mtu) >= p.length
    IN  [p EXCEPT !.moreFragments = @ \/ ~lastFragment,
                  !.fragmentOffset = @ + offset,
                  !.length = IF lastFragment THEN @ - offset ELSE fragmentLength(mtu),
                  !.totalPayloadLength = p.length]

\* The loop of fragmentAndSend.  "more fragments" is unchanged in the last one.
Fragments(p, mtu) ==
    {FragmentAt(p, offset, mtu) :
        offset \in {o \in 0 .. p.length - 1 : o % fragmentLength(mtu) = 0}}

\* What fragmentAndSend gives to the interface: nothing when the hop counter
\* is exhausted or the datagram must not be fragmented (an ICMP error goes
\* back), the datagram itself when it fits (an MTU of 0 is infinite), or its
\* fragments.
fragmentAndSend(p, mtu) ==
    LET q == [p EXCEPT !.timeToLive = @ - 1]
    IN  CASE q.timeToLive < 0 -> {}
          [] q.timeToLive >= 0 /\ (mtu = 0 \/ HeaderLength + q.length <= mtu) -> {q}
          [] OTHER -> IF q.dontFragment THEN {} ELSE Fragments(q, mtu)
=============================================================================
