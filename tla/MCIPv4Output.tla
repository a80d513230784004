---------------------------- MODULE MCIPv4Output ----------------------------
(***************************************************************************)
(* Two hosts and one address behind a proxy.  h2 answers for the remote    *)
(* address r, so r is resolved through a proxy or, when the packets are    *)
(* lost or h2 is down, not at all.                                         *)
(***************************************************************************)
EXTENDS IPv4Output

CONSTANTS h1, h2, r, bc

ProxyForDef == [h \in Host |-> IF h = h2 THEN {r} ELSE {}]

\* h1 sends to h2 most often, so that datagrams queue up behind a resolution;
\* h2 resolves h1 at the same time.  Group addresses do not touch ARP: a datagram
\* to one only doubles the states, and the proofs cover it.
MaxDatagramDef ==
    [h \in Host |-> [a \in NextHop |->
        CASE h = h1 /\ a = h2 -> 2
          [] h = h1 /\ a = r -> 1
          [] h = h2 /\ a = h1 -> 1
          [] OTHER -> 0]]
=============================================================================
