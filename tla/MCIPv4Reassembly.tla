-------------------------- MODULE MCIPv4Reassembly --------------------------
(***************************************************************************)
(* Two sources with the same identifications, and payloads that are cut in *)
(* two at the source and in four at the router.  The last piece is shorter *)
(* than the others.                                                        *)
(***************************************************************************)
EXTENDS IPv4Reassembly, TLC

CONSTANTS s1, s2

SourceSymmetry == Permutations(Source)
=============================================================================
