------------------------------ MODULE MCDHCP ------------------------------
(* Two clients and servers with pools of up to two addresses, for TLC.  The *)
(* messages in flight are bounded, more tightly once the server has lost    *)
(* its table, when most properties say nothing any more.                    *)
EXTENDS DHCP, FiniteSets, TLC

CONSTANTS
    MaxInFlight,       \* bound on the messages in flight
    MaxAfterForgot     \* the same after the server lost its table

InFlight == Cardinality(net) <= IF forgot THEN MaxAfterForgot ELSE MaxInFlight

ClientSymmetry == Permutations(Clients)
=============================================================================
