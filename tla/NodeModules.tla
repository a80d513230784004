---------------------------- MODULE NodeModules ----------------------------
(***************************************************************************)
(* The stages of the node operations and, for modules that a node is made  *)
(* of, the stages in which their handleOperationStage acts.  layer is the  *)
(* place in the protocol stack; waits says that the module finishes the    *)
(* shutdown stage later and invokes the callback then.                     *)
(***************************************************************************)
EXTENDS Integers

NodeStartOperation ==
    [LOCAL |-> 0, PHYSICAL_LAYER |-> 1, LINK_LAYER |-> 2, NETWORK_LAYER |-> 3,
     TRANSPORT_LAYER |-> 4, ROUTING_PROTOCOLS |-> 5, APPLICATION_LAYER |-> 6, LAST |-> 7]

NodeShutdownOperation ==
    [LOCAL |-> 0, APPLICATION_LAYER |-> 1, ROUTING_PROTOCOLS |-> 2, TRANSPORT_LAYER |-> 3,
     NETWORK_LAYER |-> 4, LINK_LAYER |-> 5, PHYSICAL_LAYER |-> 6, LAST |-> 7]

NodeCrashOperation == [CRASH |-> 0, LAST |-> 1]

\* The radio and the 802.11 management use a stage of the start operation for the
\* shutdown too.
Radio ==
    [layer |-> 1, start |-> NodeStartOperation.PHYSICAL_LAYER,
     shutdown |-> NodeStartOperation.PHYSICAL_LAYER, waits |-> FALSE]

Ieee80211MgmtBase ==
    [layer |-> 1, start |-> NodeStartOperation.PHYSICAL_LAYER,
     shutdown |-> NodeStartOperation.PHYSICAL_LAYER, waits |-> FALSE]

MACBase ==
    [layer |-> 2, start |-> NodeStartOperation.LINK_LAYER,
     shutdown |-> NodeShutdownOperation.LINK_LAYER, waits |-> FALSE]

\* Mutant: the stage of the start operation, as in Radio.
EtherMACBaseLikeRadio ==
    [layer |-> 2, start |-> NodeStartOperation.LINK_LAYER,
     shutdown |-> NodeStartOperation.LINK_LAYER, waits |-> FALSE]

EtherMACBase ==
    [layer |-> 2, start |-> NodeStartOperation.LINK_LAYER,
     shutdown |-> NodeShutdownOperation.LINK_LAYER, waits |-> FALSE]

ARP ==
    [layer |-> 3, start |-> NodeStartOperation.NETWORK_LAYER,
     shutdown |-> NodeShutdownOperation.NETWORK_LAYER, waits |-> FALSE]

IPv4 ==
    [layer |-> 3, start |-> NodeStartOperation.NETWORK_LAYER,
     shutdown |-> NodeShutdownOperation.NETWORK_LAYER, waits |-> FALSE]

UDP ==
    [layer |-> 4, start |-> NodeStartOperation.TRANSPORT_LAYER,
     shutdown |-> NodeShutdownOperation.TRANSPORT_LAYER, waits |-> FALSE]

TCP ==
    [layer |-> 4, start |-> NodeStartOperation.TRANSPORT_LAYER,
     shutdown |-> NodeShutdownOperation.TRANSPORT_LAYER, waits |-> FALSE]

\* RIP sends its last updates and lets UDP deliver them before the node goes on.
RIPRouting ==
    [layer |-> 5, start |-> NodeStartOperation.ROUTING_PROTOCOLS,
     shutdown |-> NodeShutdownOperation.ROUTING_PROTOCOLS, waits |-> TRUE]

DHCPClient ==
    [layer |-> 6, start |-> NodeStartOperation.APPLICATION_LAYER,
     shutdown |-> NodeShutdownOperation.APPLICATION_LAYER, waits |-> FALSE]

AODVRouting ==
    [layer |-> 6, start |-> NodeStartOperation.APPLICATION_LAYER,
     shutdown |-> NodeShutdownOperation.APPLICATION_LAYER, waits |-> FALSE]

TCPBasicClientApp ==
    [layer |-> 6, start |-> NodeStartOperation.APPLICATION_LAYER,
     shutdown |-> NodeShutdownOperation.APPLICATION_LAYER, waits |-> FALSE]

=============================================================================
