----------------------------- MODULE IPv4Output -----------------------------
(***************************************************************************)
(* The last step of IPv4 output on a LAN (src/networklayer/ipv4/IPv4.cc,   *)
(* from sendDatagramToOutput on) composed with the ARP module it calls and *)
(* whose signals it receives.                                              *)
(*                                                                         *)
(* ARP emits completedARPResolution and failedARPResolution while it       *)
(* handles a packet or a timeout; IPv4::receiveSignal runs inside that     *)
(* handler.  So an ARP action and what IPv4 does with its signal are one   *)
(* action here.  The datagrams of a host to a next hop are numbered in the *)
(* order in which they reach sendDatagramToOutput.                         *)
(***************************************************************************)
EXTENDS ARP, Sequences

CONSTANTS
    Group,       \* broadcast and multicast addresses, sent without ARP
    MaxDatagram  \* bound: MaxDatagram[h][a] datagrams from h to next hop a

NextHop == Addr \cup Group

ASSUME OutputAssumption ==
    /\ Group \cap Addr = {}
    /\ Unspecified \notin Group
    /\ MaxDatagram \in [Host -> [NextHop -> Nat]]

VARIABLES
    pendingPackets,  \* pendingPackets[h][a]: datagrams waiting for ARP
    numSent,         \* numSent[h][a]: datagrams handed to sendDatagramToOutput
    nic              \* nic[h][a]: <<datagram, MAC address>> sent to the NIC

vars == <<isUp, arpCache, timer, lan, pendingPackets, numSent, nic>>

\* cPacketQueue contents as frames for MAC address mac, in FIFO order.
Frames(q, mac) == [i \in 1..Len(q) |-> <<q[i], mac>>]

Init ==
    /\ ArpInit
    /\ pendingPackets = [h \in Host |-> [a \in NextHop |-> <<>>]]
    /\ numSent = [h \in Host |-> [a \in NextHop |-> 0]]
    /\ nic = [h \in Host |-> [a \in NextHop |-> <<>>]]

\* IPv4::resolveNextHopMacAddress: a group address maps to a group MAC address
\* (written as itself), any other one is looked up in the ARP cache.
resolveNextHopMacAddress(h, a) ==
    IF a \in Group THEN a ELSE getMACAddressFor(h, a)

\* Mutant: a new datagram goes to the front of the queue.
EnqueueFirst(h, a, d) ==
    pendingPackets' = [pendingPackets EXCEPT ![h][a] = <<d>> \o @]

\* pendingPackets[nextHopAddr].insert(datagram)
Enqueue(h, a, d) ==
    pendingPackets' = [pendingPackets EXCEPT ![h][a] = Append(@, d)]

\* IPv4::sendDatagramToOutput on the LAN interface.
sendDatagramToOutput(h, a) ==
    LET d == numSent[h][a] + 1
        mac == resolveNextHopMacAddress(h, a)
    IN  /\ isUp[h]
        /\ a # h
        /\ numSent[h][a] < MaxDatagram[h][a]
        /\ numSent' = [numSent EXCEPT ![h][a] = d]
        /\ \/ /\ mac = Unspecified
              /\ Enqueue(h, a, d)
              /\ startAddressResolution(h, a)
              /\ UNCHANGED nic
           \/ /\ mac # Unspecified
              /\ nic' = [nic EXCEPT ![h][a] = Append(@, <<d, mac>>)]
              /\ UNCHANGED <<arpVars, pendingPackets>>

\* Mutant: only the datagram at the head of the queue is sent.
arpResolutionCompletedOne(h, a, mac) ==
    LET q == pendingPackets[h][a]
    IN  /\ nic' = [nic EXCEPT ![h][a] =
                     IF q = <<>> THEN @ ELSE Append(@, <<Head(q), mac>>)]
        /\ pendingPackets' = [pendingPackets EXCEPT ![h][a] = <<>>]

\* IPv4::arpResolutionCompleted: everything that waits for a is sent.
arpResolutionCompleted(h, a, mac) ==
    /\ nic' = [nic EXCEPT ![h][a] = @ \o Frames(pendingPackets[h][a], mac)]
    /\ pendingPackets' = [pendingPackets EXCEPT ![h][a] = <<>>]

\* Mutant: the failure signal is not handled.
arpResolutionTimedOutIgnored(h, a) == UNCHANGED pendingPackets

\* IPv4::arpResolutionTimedOut: everything that waits for a is dropped.
arpResolutionTimedOut(h, a) ==
    pendingPackets' = [pendingPackets EXCEPT ![h][a] = <<>>]

\* An ARP packet reaches a running host.
ArpPacketArrives(p) ==
    /\ processARPPacket(p)
    /\ IF Learns(p)
       THEN arpResolutionCompleted(p.to, p.srcIP, p.srcMAC)
       ELSE UNCHANGED <<pendingPackets, nic>>
    /\ UNCHANGED numSent

\* The ARP request timer of h for a fires.
ArpTimeout(h, a) ==
    /\ requestTimedOut(h, a)
    /\ IF ResolutionFails(h, a)
       THEN arpResolutionTimedOut(h, a)
       ELSE UNCHANGED pendingPackets
    /\ UNCHANGED <<numSent, nic>>

\* Shutdown or crash: ARP::stop and IPv4::stop run in the same lifecycle stage.
NodeStop(h) ==
    /\ stop(h)
    /\ pendingPackets' = [pendingPackets EXCEPT ![h] = [a \in NextHop |-> <<>>]]
    /\ UNCHANGED <<numSent, nic>>

\* NodeStartOperation, stage NETWORK_LAYER.
NodeStart(h) ==
    /\ start(h)
    /\ UNCHANGED <<pendingPackets, numSent, nic>>

\* Steps of the ARP module and of the LAN that IPv4 does not see.
Silent ==
    /\ \/ \E p \in lan : handleMessageWhenDown(p) \/ PacketLost(p)
       \/ \E h \in Host, a \in Addr : EntryExpires(h, a)
    /\ UNCHANGED <<pendingPackets, numSent, nic>>

Next ==
    \/ \E h \in Host : NodeStop(h) \/ NodeStart(h)
    \/ \E h \in Host, a \in NextHop : sendDatagramToOutput(h, a)
    \/ \E h \in Host, a \in Addr : ArpTimeout(h, a)
    \/ \E p \in lan : ArpPacketArrives(p)
    \/ Silent

Spec == Init /\ [][Next]_vars

\* A scheduled timer fires: the event is in the simulation's future event set.
FairSpec == Spec /\ \A h \in Host : \A a \in Addr \ {h} : WF_vars(ArpTimeout(h, a))

-----------------------------------------------------------------------------
TypeOK ==
    /\ ArpTypeOK
    /\ pendingPackets \in [Host -> [NextHop -> Seq(Nat)]]
    /\ numSent \in [Host -> [NextHop -> Nat]]
    /\ nic \in [Host -> [NextHop -> Seq(Nat \X (Host \cup Group))]]

\* A datagram waits only for an address that is under resolution.  This is the
\* ASSERT2 of sendDatagramToOutput ("nextHopAddr found in ARP table, but IPv4
\* queue for nextHopAddr not empty"), and more: nothing waits for a resolution
\* that has ended, so nothing is stranded in the queue.
WaitingMeansPending ==
    \A h \in Host, a \in NextHop :
        pendingPackets[h][a] # <<>> => a \in Addr /\ Pending(h, a)

\* out: frames sent; q: datagrams that wait.  Both are in order, and nothing
\* that waits has been overtaken.
InOrder(out, q) ==
    /\ \A i, j \in 1..Len(out) : i < j => out[i][1] < out[j][1]
    /\ \A i, j \in 1..Len(q) : i < j => q[i] < q[j]
    /\ \A i \in 1..Len(out), j \in 1..Len(q) : out[i][1] < q[j]

\* Datagrams to one next hop leave in the order in which they came, whichever
\* of them had to wait for ARP, and none is sent twice.
PerNextHopFifo ==
    \A h \in Host, a \in NextHop : InOrder(nic[h][a], pendingPackets[h][a])

\* Every datagram that waits for ARP is sent or dropped in the end.
WaitingEnds ==
    \A h \in Host : \A a \in Addr \ {h} :
        pendingPackets[h][a] # <<>> ~> pendingPackets[h][a] = <<>>

\* IPv4 output with ARP implements the abstract queue of NextHopQueue.
RightMac(a) == IF a \in Group THEN {a} ELSE Answerers(a)

Abstract == INSTANCE NextHopQueue WITH accepted <- numSent, waiting <- pendingPackets

ImplementsNextHopQueue == Abstract!Spec
=============================================================================
