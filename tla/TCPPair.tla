------------------------------ MODULE TCPPair ------------------------------
(***************************************************************************)
(* The two ends of one TCP connection, their applications and the network  *)
(* between them (src/transport/tcp/TCP.cc hands each message to its        *)
(* connection and deletes a connection that is CLOSED).                    *)
(*                                                                         *)
(* The network may reorder and lose segments.  It does not copy them, but  *)
(* the ends retransmit.  The n-th item an application sends is the number  *)
(* n.  What the applications do is a parameter: which OPEN they begin with *)
(* and in which states of their connection they SEND, CLOSE and ABORT.     *)
(*                                                                         *)
(* A timer fires at any moment after it was set, or, when it is in         *)
(* Patient, only once the network is empty: the timeout is longer than the *)
(* delays of the network.                                                  *)
(***************************************************************************)
EXTENDS TCPConnection

CONSTANTS
    InitialIss,  \* InitialIss[e]: where the clock of e stands
    Opens,       \* Opens[e]: "ACTIVE" or "PASSIVE"
    SendIn,      \* SendIn[e]: states in which the application of e may SEND
    CloseIn,     \* the same for CLOSE
    AbortIn,     \* the same for ABORT
    MaxSend,     \* bound: MaxSend[e] items are sent by e
    Windows,     \* the values the usable send window may have
    MaxLoss,     \* bound: segments the network loses
    MaxSynRexmit,\* bound: retransmissions of a SYN before CONN-ESTAB fires
    Patient      \* timers that are longer than the delays of the network

End == {"A", "B"}

Peer(e) == IF e = "A" THEN "B" ELSE "A"

ASSUME PairAssumption ==
    /\ InitialIss \in [End -> SeqNo]
    /\ Opens \in [End -> {"ACTIVE", "PASSIVE"}]
    /\ SendIn \in [End -> SUBSET {"SYN_SENT", "SYN_RCVD", "ESTABLISHED", "CLOSE_WAIT"}]
    /\ CloseIn \in [End -> SUBSET {"LISTEN", "SYN_SENT", "SYN_RCVD", "ESTABLISHED",
                                   "CLOSE_WAIT"}]
    /\ AbortIn \in [End -> SUBSET (State \ {"INIT", "CLOSED"})]
    /\ MaxSend \in [End -> 0 .. Half - 2]
    /\ Windows \in SUBSET (1 .. Half - 1) /\ Windows # {}
    /\ MaxLoss \in Nat /\ MaxSynRexmit \in Nat
    /\ Patient \in SUBSET {"SETUP", "REXMIT", "2MSL"}

\* What the code needs to behave: one end opens actively and the other one
\* passively (a simultaneous open fails), no application sends or closes before
\* the handshake is over (in SYN_RCVD the code of ESTABLISHED takes the command),
\* and the timers of connection setup are longer than the delays of the network.
OrderlySetup ==
    /\ \E e \in End : Opens[e] = "ACTIVE" /\ Opens[Peer(e)] = "PASSIVE"
    /\ \A e \in End : "SYN_RCVD" \notin SendIn[e] \cup CloseIn[e]
    /\ "SETUP" \in Patient

VARIABLES
    conn,     \* conn[e]: the connection of e
    net,      \* net[e]: segments on their way to e
    numSent,  \* numSent[e]: items sent by the application of e
    hasClosed,\* hasClosed[e]: the application of e has issued CLOSE
    lost      \* segments lost so far

vars == <<conn, net, numSent, hasClosed, lost>>

Init ==
    /\ conn = [e \in End |-> NewConnection(InitialIss[e])]
    /\ net = [e \in End |-> {}]
    /\ numSent = [e \in End |-> 0]
    /\ hasClosed = [e \in End |-> FALSE]
    /\ lost = 0

\* An error stops the whole simulation.
Running == \A e \in End : ~conn[e].failed

\* TCP::removeConnection: of a closed connection only its history is left.
removeConnection(c) ==
    IF c.state = "CLOSED" /\ ~c.failed
    THEN [NewConnection(0) EXCEPT !.state = "CLOSED", !.toApp = c.toApp, !.ind = c.ind]
    ELSE c

\* TCP::handleMessage: the connection of e becomes one of results and what it
\* sent leaves; taken are the segments it took from the network.
Handle(e, results, taken) ==
    /\ Running
    /\ \E c \in results :
          /\ conn' = [conn EXCEPT ![e] = removeConnection([c EXCEPT !.out = {}])]
          /\ net' = [net EXCEPT ![e] = @ \ taken, ![Peer(e)] = @ \cup c.out]
    /\ UNCHANGED lost

\* The delay of the network is over, for the timers that wait for it.
MayFire(kind) == kind \in Patient => \A e \in End : net[e] = {}

\* When an event of e is due: a segment is there, a timer is set.
ArrivalDue(e) == Running /\ net[e] # {}
ConnEstabDue(e) ==
    /\ Running /\ conn[e].connEstabTimer /\ MayFire("SETUP")
    /\ "SETUP" \in Patient => conn[e].syn_rexmit_count = MaxSynRexmit
SynRexmitDue(e) ==
    /\ Running /\ conn[e].synRexmitTimer /\ MayFire("SETUP")
    /\ conn[e].syn_rexmit_count < MaxSynRexmit
RexmitDue(e) == Running /\ conn[e].rexmitTimer /\ MayFire("REXMIT")
TwoMslDue(e) == Running /\ conn[e].the2MSLTimer > 0 /\ MayFire("2MSL")

-----------------------------------------------------------------------------
Open(e) ==
    /\ conn[e].state = "INIT"
    /\ Handle(e, {IF Opens[e] = "ACTIVE" THEN process_OPEN_ACTIVE(conn[e])
                                         ELSE process_OPEN_PASSIVE(conn[e])}, {})
    /\ UNCHANGED <<numSent, hasClosed>>

Send(e) ==
    /\ conn[e].state \in SendIn[e]
    /\ ~hasClosed[e]
    /\ numSent[e] < MaxSend[e]
    /\ Handle(e, {process_SEND(conn[e], numSent[e] + 1, win) : win \in Windows}, {})
    /\ numSent' = [numSent EXCEPT ![e] = @ + 1]
    /\ UNCHANGED hasClosed

Close(e) ==
    /\ conn[e].state \in CloseIn[e]
    /\ ~hasClosed[e]
    /\ Handle(e, {process_CLOSE(conn[e])}, {})
    /\ hasClosed' = [hasClosed EXCEPT ![e] = TRUE]
    /\ UNCHANGED numSent

Abort(e) ==
    /\ conn[e].state \in AbortIn[e]
    /\ Handle(e, {process_ABORT(conn[e])}, {})
    /\ UNCHANGED <<numSent, hasClosed>>

SegmentArrives(e) ==
    /\ \E s \in net[e] :
          Handle(e, {process_RCV_SEGMENT(conn[e], s, win) : win \in Windows}, {s})
    /\ UNCHANGED <<numSent, hasClosed>>

\* The network loses a segment (external).
SegmentLost(e) ==
    /\ Running
    /\ lost < MaxLoss
    /\ lost' = lost + 1
    /\ \E s \in net[e] : net' = [net EXCEPT ![e] = @ \ {s}]
    /\ UNCHANGED <<conn, numSent, hasClosed>>

ConnEstabTimeout(e) ==
    /\ ConnEstabDue(e)
    /\ Handle(e, {process_TIMEOUT_CONN_ESTAB([conn[e] EXCEPT !.connEstabTimer = FALSE])}, {})
    /\ UNCHANGED <<numSent, hasClosed>>

SynRexmitTimeout(e) ==
    /\ SynRexmitDue(e)
    /\ Handle(e, {process_TIMEOUT_SYN_REXMIT(conn[e])}, {})
    /\ UNCHANGED <<numSent, hasClosed>>

RexmitTimeout(e) ==
    /\ RexmitDue(e)
    /\ Handle(e, {processRexmitTimer(conn[e])}, {})
    /\ UNCHANGED <<numSent, hasClosed>>

\* A tick of the 2MSL timer; the last one is its timeout.
TwoMslTimeout(e) ==
    /\ TwoMslDue(e)
    /\ Handle(e, {IF conn[e].the2MSLTimer > 1
                  THEN [conn[e] EXCEPT !.the2MSLTimer = @ - 1]
                  ELSE process_TIMEOUT_2MSL(conn[e])}, {})
    /\ UNCHANGED <<numSent, hasClosed>>

Timeout(e) ==
    ConnEstabTimeout(e) \/ SynRexmitTimeout(e) \/ RexmitTimeout(e) \/ TwoMslTimeout(e)

Next ==
    \E e \in End :
        \/ Open(e) \/ Send(e) \/ Close(e) \/ Abort(e)
        \/ SegmentArrives(e) \/ SegmentLost(e)
        \/ Timeout(e)

Spec == Init /\ [][Next]_vars

\* A segment that is not lost arrives and a timer that is set fires: both are
\* events in the simulation's event queue.  The applications open and, where
\* they may, close.  (The fairness of the events is weak fairness with the
\* guard of the action written out in place of its ENABLED.)
FairSpec ==
    /\ Spec
    /\ \A e \in End :
          /\ WF_vars(Open(e))
          /\ WF_vars(Close(e))
          /\ []<>(~ArrivalDue(e)) \/ []<><<SegmentArrives(e)>>_vars
          /\ []<>(~ConnEstabDue(e)) \/ []<><<ConnEstabTimeout(e)>>_vars
          /\ []<>(~SynRexmitDue(e)) \/ []<><<SynRexmitTimeout(e)>>_vars
          /\ []<>(~RexmitDue(e)) \/ []<><<RexmitTimeout(e)>>_vars
          /\ []<>(~TwoMslDue(e)) \/ []<><<TwoMslTimeout(e)>>_vars

-----------------------------------------------------------------------------
Indication == {"ESTABLISHED", "PEER_CLOSED", "CLOSED", "CONNECTION_RESET",
               "CONNECTION_REFUSED", "TIMED_OUT"}

Told(e, i) == \E n \in DOMAIN conn[e].ind : conn[e].ind[n] = i

TypeOK ==
    \A e \in End :
        LET c == conn[e] IN
        /\ c.state \in State
        /\ {c.iss, c.snd_una, c.snd_nxt, c.snd_max, c.begin, c.snd_fin_seq,
            c.rcv_nxt, c.rcv_fin_seq} \subseteq SeqNo
        /\ c.rexmit_count \in 0 .. MAX_REXMIT_COUNT
        /\ c.the2MSLTimer \in 0 .. MSL2
        /\ c.dupacks \in 0 .. DUPTHRESH + 1
        /\ \A n \in DOMAIN c.ind : c.ind[n] \in Indication
        /\ net[e] \subseteq Segment(0 .. MaxSend[Peer(e)])

\* No ASSERT of the connection or of its queues fails, and no timer fires in a
\* state whose handler throws, whatever the network loses, delays or reorders.
NoAssertionFails == Running

\* An item leaves the send queue of a live connection only after the other
\* application has it: an acknowledgement is a promise kept.
NothingLost ==
    \A e \in End :
        conn[e].state \in Synchronized =>
            numSent[e] <= Len(conn[Peer(e)].toApp) + Len(conn[e].sendQueue)

\* States that are entered by consuming the FIN of the peer.
FinConsumed == {"CLOSE_WAIT", "CLOSING", "LAST_ACK", "TIME_WAIT"}

\* The end of the peer's stream is seen only after all of its items, also when
\* the FIN overtook some of them.
FinAfterAllData ==
    \A e \in End :
        conn[e].state \in FinConsumed =>
            hasClosed[Peer(e)] /\ Len(conn[e].toApp) = numSent[Peer(e)]

\* The REXMIT timer runs exactly when something sent is not acknowledged yet:
\* what is lost is sent again, and a timeout finds something to send.
RexmitTimerExact ==
    \A e \in End :
        conn[e].state \in Synchronized =>
            (conn[e].rexmitTimer <=> conn[e].snd_una # conn[e].snd_max)

\* The timers of connection setup run only while the connection is set up.
SetupTimersMatchState ==
    \A e \in End :
        conn[e].connEstabTimer \/ conn[e].synRexmitTimer =>
            conn[e].state \in {"SYN_SENT", "SYN_RCVD"}

\* The timers of connection setup and of TIME_WAIT run in these states only,
\* the states in which their handlers expect them.
TimersMatchState ==
    /\ SetupTimersMatchState
    /\ \A e \in End : conn[e].the2MSLTimer > 0 <=> conn[e].state = "TIME_WAIT"

\* The sequence variables stay in order, across the wrap of sequence numbers.
SequenceOrder ==
    \A e \in End :
        LET c == conn[e] IN
        c.state \in Synchronized =>
            /\ seqLE(c.snd_una, c.snd_nxt) /\ seqLE(c.snd_nxt, c.snd_max)
            /\ seqLE(c.begin, c.snd_una)
            /\ seqLE(c.snd_max, Plus(BufferEndSeq(c), 1))

\* The application is told of the peer's close only on a connection that it was
\* told to be established.
PeerClosedOnlyWhenOpen ==
    \A e \in End :
        LET i == conn[e].ind IN
        \A n \in DOMAIN i : i[n] = "PEER_CLOSED" => \E m \in 1 .. n - 1 : i[m] = "ESTABLISHED"

\* The application is told of the end of its connection once, as the last
\* thing, and of the peer's close only on a connection that was established.
IndicationsWellFormed ==
    /\ PeerClosedOnlyWhenOpen
    /\ \A e \in End :
          LET i == conn[e].ind IN \A n \in DOMAIN i : i[n] = "CLOSED" => n = Len(i)

\* A reset is told to one application only if the connection does not live on
\* at the other end: a late or a duplicate segment tears down nothing.
ResetHasCause ==
    \A e \in End :
        Told(e, "CONNECTION_RESET") => conn[Peer(e)].state \notin Synchronized

Stream == INSTANCE ReliableStream WITH
    sent <- numSent,
    finished <- hasClosed,
    delivered <- [e \in End |-> conn[e].toApp],
    eof <- [e \in End |-> Told(e, "PEER_CLOSED")]

\* TCP implements a reliable stream in both directions.
ImplementsReliableStream == Stream!Spec

\* Once the client is connected, the connection is gone in the end: nobody is
\* left behind in a half-closed state, whichever segments had to be sent again
\* (a server whose connection was never established is back in LISTEN).
EventuallyClosed ==
    (conn["A"].state = "ESTABLISHED") ~> (\A e \in End : conn[e].state \in {"CLOSED", "LISTEN"})
=============================================================================
