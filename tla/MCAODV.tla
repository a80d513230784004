------------------------------- MODULE MCAODV -------------------------------
(***************************************************************************)
(* Three nodes that start in a row, A - B - C, and may come into reach of  *)
(* each other as they move.                                                *)
(***************************************************************************)
EXTENDS AODV

Everywhere == {{"A", "B"}, {"B", "C"}, {"A", "C"}}
Chain == {{"A", "B"}, {"B", "C"}}

\* Both ends send to each other.
BothWays == {<<"A", "C", 1>>, <<"C", "A", 1>>}

\* One end sends to the other, which sends to the node between them.
Crossing == {<<"A", "C", 1>>, <<"C", "B", 1>>}
=============================================================================
