---------------------------- MODULE NextHopQueue ----------------------------
(***************************************************************************)
(* What the network layer promises to the datagrams it sends to a next hop *)
(* on a LAN, without saying how the MAC address of the next hop is found.  *)
(*                                                                         *)
(* The datagrams a host h sends to next hop a are numbered 1, 2, ... in    *)
(* the order in which they are handed over.  Each one goes to the network  *)
(* interface with a right MAC address, in that order, or is dropped with   *)
(* every datagram that waited with it.                                     *)
(***************************************************************************)
EXTENDS Naturals, Sequences

CONSTANTS Host, NextHop, RightMac(_)

VARIABLES
    accepted,  \* accepted[h][a]: number of datagrams handed over so far
    waiting,   \* waiting[h][a]: the datagrams that wait for a MAC address
    nic        \* nic[h][a]: <<datagram, MAC address>> given to the interface

vars == <<accepted, waiting, nic>>

Init ==
    /\ accepted = [h \in Host |-> [a \in NextHop |-> 0]]
    /\ waiting = [h \in Host |-> [a \in NextHop |-> <<>>]]
    /\ nic = [h \in Host |-> [a \in NextHop |-> <<>>]]

\* The frames that carry the datagrams of queue q to MAC address m.
Frames(q, m) == [i \in 1..Len(q) |-> <<q[i], m>>]

\* A datagram is handed over and waits.
Accept(h, a) ==
    /\ accepted' = [accepted EXCEPT ![h][a] = @ + 1]
    /\ waiting' = [waiting EXCEPT ![h][a] = Append(@, accepted[h][a] + 1)]
    /\ UNCHANGED nic

\* A datagram overtakes nobody: it is sent at once only past an empty queue.
Send(h, a, m) ==
    /\ waiting[h][a] = <<>>
    /\ m \in RightMac(a)
    /\ accepted' = [accepted EXCEPT ![h][a] = @ + 1]
    /\ nic' = [nic EXCEPT ![h][a] = Append(@, <<accepted[h][a] + 1, m>>)]
    /\ UNCHANGED waiting

\* The MAC address is known: everything that waits leaves, in order.
Release(h, a, m) ==
    /\ waiting[h][a] # <<>>
    /\ m \in RightMac(a)
    /\ nic' = [nic EXCEPT ![h][a] = @ \o Frames(waiting[h][a], m)]
    /\ waiting' = [waiting EXCEPT ![h][a] = <<>>]
    /\ UNCHANGED accepted

\* The next hop does not answer: everything that waits for it is dropped.
GiveUp(h, a) ==
    /\ waiting' = [waiting EXCEPT ![h][a] = <<>>]
    /\ UNCHANGED <<accepted, nic>>

\* The host goes down: everything that waits is dropped.
Down(h) ==
    /\ waiting' = [waiting EXCEPT ![h] = [a \in NextHop |-> <<>>]]
    /\ UNCHANGED <<accepted, nic>>

Next ==
    \E h \in Host :
        \/ Down(h)
        \/ \E a \in NextHop :
              \/ Accept(h, a)
              \/ GiveUp(h, a)
              \/ \E m \in RightMac(a) : Send(h, a, m) \/ Release(h, a, m)

Spec == Init /\ [][Next]_vars
=============================================================================
