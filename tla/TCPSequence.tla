---------------------------- MODULE TCPSequence ----------------------------
(***************************************************************************)
(* 32-bit sequence numbers and their comparison                            *)
(* (src/transport/tcp_common/TCPSegment.h).  The width is a parameter:     *)
(* Half stands for 1UL << 31.                                              *)
(***************************************************************************)
EXTENDS Integers

CONSTANT Half

ASSUME HalfAssumption == Half \in Nat \ {0}

SeqMod == 2 * Half

SeqNo == 0 .. SeqMod - 1

\* uint32 addition of a number below 2^32, and uint32 subtraction.
Plus(a, n) == IF a + n < SeqMod THEN a + n ELSE a + n - SeqMod

Minus(a, b) == IF a >= b THEN a - b ELSE a + SeqMod - b

seqLess(a, b) == a # b /\ Minus(b, a) < Half

seqLE(a, b) == Minus(b, a) < Half

seqGreater(a, b) == seqLess(b, a)

seqGE(a, b) == seqLE(b, a)

seqMax(a, b) == IF seqGE(a, b) THEN a ELSE b
=============================================================================
