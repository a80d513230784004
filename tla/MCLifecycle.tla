---------------------------- MODULE MCLifecycle ----------------------------
(* Nodes with the modules of a wired router, and of a wireless one. *)
EXTENDS Lifecycle

\* RIP for IPv4 and RIPng are two modules of one router.
WiredRouter ==
    [eth |-> EtherMACBase, arp |-> ARP, ip |-> IPv4, udp |-> UDP, tcp |-> TCP,
     rip |-> RIPRouting, ripng |-> RIPRouting, app |-> TCPBasicClientApp]

\* LayersConsistent does not hold for these modules: the radio stops before RIP.
WirelessRouter ==
    [radio |-> Radio, mgmt |-> Ieee80211MgmtBase, mac |-> MACBase, ip |-> IPv4,
     udp |-> UDP, rip |-> RIPRouting, app |-> DHCPClient]
=============================================================================
