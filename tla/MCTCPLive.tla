----------------------------- MODULE MCTCPLive -----------------------------
(***************************************************************************)
(* Liveness: the client sends and closes first, the server answers and     *)
(* closes once it has seen the client's close.  Fewer segments are lost    *)
(* than the ends are ready to retransmit.                                  *)
(***************************************************************************)
EXTENDS TCPPair

ForEnd(a, b) == [e \in End |-> IF e = "A" THEN a ELSE b]

InitialIssDef == ForEnd(SeqMod - 2 - IssStep, 4)
OpensDef == ForEnd("ACTIVE", "PASSIVE")
SendInDef == ForEnd({"SYN_SENT", "ESTABLISHED"}, {"ESTABLISHED", "CLOSE_WAIT"})
CloseInDef == ForEnd({"ESTABLISHED"}, {"CLOSE_WAIT"})
AbortInDef == ForEnd({}, {})
MaxSendDef == ForEnd(1, 1)

\* The applications and the timers are those the theorems are about.
ASSUME OrderlySetup
=============================================================================
