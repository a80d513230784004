----------------------------- MODULE MCTCPClose -----------------------------
(***************************************************************************)
(* Both ends send and close when they like: one after the other,           *)
(* simultaneously, or with data still waiting for the window.              *)
(***************************************************************************)
EXTENDS TCPPair

ForEnd(a, b) == [e \in End |-> IF e = "A" THEN a ELSE b]

InitialIssDef == ForEnd(SeqMod - 2 - IssStep, 4)
OpensDef == ForEnd("ACTIVE", "PASSIVE")
SendInDef == ForEnd({"ESTABLISHED"}, {"ESTABLISHED", "CLOSE_WAIT"})
CloseInDef == ForEnd({"ESTABLISHED", "CLOSE_WAIT"}, {"ESTABLISHED", "CLOSE_WAIT"})
AbortInDef == ForEnd({}, {})
MaxSendDef == ForEnd(2, 1)

\* The applications and the timers are those the theorems are about.
ASSUME OrderlySetup
=============================================================================
