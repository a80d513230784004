--------------------------- MODULE MCTCPTransfer ---------------------------
(***************************************************************************)
(* A client sends to a server and closes; the server closes when it has    *)
(* seen the client's close.                                                *)
(***************************************************************************)
EXTENDS TCPPair

ForEnd(a, b) == [e \in End |-> IF e = "A" THEN a ELSE b]

InitialIssDef == ForEnd(SeqMod - 2 - IssStep, 4)
OpensDef == ForEnd("ACTIVE", "PASSIVE")
SendInDef == ForEnd({"ESTABLISHED"}, {"CLOSE_WAIT"})
CloseInDef == ForEnd({"ESTABLISHED"}, {"CLOSE_WAIT"})
AbortInDef == ForEnd({}, {})
MaxSendDef == ForEnd(2, 0)

\* The applications and the timers are those the theorems are about.
ASSUME OrderlySetup
=============================================================================
