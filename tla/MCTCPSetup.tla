----------------------------- MODULE MCTCPSetup -----------------------------
(***************************************************************************)
(* Connection setup with retransmitted SYNs, CONN-ESTAB timeouts at any    *)
(* moment, refused connections, aborts, and data that is queued before the *)
(* connection is established.                                              *)
(***************************************************************************)
EXTENDS TCPPair

ForEnd(a, b) == [e \in End |-> IF e = "A" THEN a ELSE b]

InitialIssDef == ForEnd(SeqMod - 2 - IssStep, 4)
OpensDef == ForEnd("ACTIVE", "PASSIVE")
SendInDef == ForEnd({"SYN_SENT", "ESTABLISHED"}, {})
CloseInDef == ForEnd({"SYN_SENT", "ESTABLISHED"}, {"LISTEN", "CLOSE_WAIT"})
AbortInDef == ForEnd({"SYN_SENT", "ESTABLISHED"}, {"LISTEN", "SYN_RCVD", "ESTABLISHED"})
MaxSendDef == ForEnd(1, 0)
=============================================================================
