--------------------------- MODULE TCPConnection ---------------------------
(***************************************************************************)
(* One TCP connection (src/transport/tcp/TCPConnection*.cc) with the       *)
(* retransmission machinery of TCPBaseAlg and TCPReno.                     *)
(*                                                                         *)
(* A connection is a record and a handler of the class is an operator that *)
(* maps the record to the record it leaves behind.  What the handler sends *)
(* is collected in the field out, what it tells the application in ind.    *)
(*                                                                         *)
(* Data.  The unit is one full-sized segment: SEND adds one item to the    *)
(* send queue, an item takes one sequence number, and a segment carries at *)
(* most one.  The receive window is a constant.  The usable send window,   *)
(* min(snd_wnd, snd_cwnd), is a parameter win of every operator that may   *)
(* send data: the flavour may have it at any value >= 1 (zero windows and  *)
(* the PERSIST timer are left out).  Options (SACK, timestamps, window     *)
(* scaling), delayed ACKs and limited transmit, all off by default, are    *)
(* left out too, and a listening connection does not fork.                 *)
(*                                                                         *)
(* An ASSERT that fails and a cRuntimeError stop the simulation: the field *)
(* failed records them.                                                    *)
(***************************************************************************)
EXTENDS TCPSequence, Sequences, FiniteSets

CONSTANTS
    RcvWnd,           \* receive window, in items
    MAX_REXMIT_COUNT, \* retransmissions before the connection is aborted
    MAX_SYN_REXMIT_COUNT, \* the same for SYN and SYN+ACK
    DUPTHRESH,        \* duplicate ACKs that trigger a fast retransmit
    MSL2,             \* ticks of the 2MSL timer
    IssStep           \* how far the ISS clock moves between two connections

ASSUME ConnectionAssumption ==
    /\ RcvWnd \in 1 .. Half - 1
    /\ MAX_REXMIT_COUNT \in Nat
    /\ MAX_SYN_REXMIT_COUNT \in Nat
    /\ DUPTHRESH \in Nat \ {0}
    /\ MSL2 \in Nat \ {0}
    /\ IssStep \in 0 .. SeqMod - 1

State == {"INIT", "CLOSED", "LISTEN", "SYN_SENT", "SYN_RCVD", "ESTABLISHED",
          "CLOSE_WAIT", "LAST_ACK", "FIN_WAIT_1", "FIN_WAIT_2", "CLOSING",
          "TIME_WAIT"}

Flag == {"SYN", "ACK", "FIN", "RST"}

\* TCPSegment.  item is the payload, 0 for none; ackNo is 0 without ACK bit.
Segment(Item) == [flags : SUBSET Flag, seqNo : SeqNo, ackNo : SeqNo, item : Item]

Seg(flags, seqNo, ackNo, item) ==
    [flags |-> flags, seqNo |-> seqNo, ackNo |-> ackNo, item |-> item]

PayloadLength(s) == IF s.item = 0 THEN 0 ELSE 1

\* TCPSegment::getSegLen counts SYN and FIN too.
SegLen(s) == PayloadLength(s) + Cardinality(s.flags \cap {"SYN", "FIN"})

\* A connection that has not been opened.  iss is where the clock of
\* selectInitialSeqNum stands.
NewConnection(iss) ==
    [state |-> "INIT", active |-> FALSE, failed |-> FALSE,
     iss |-> iss, snd_una |-> iss, snd_nxt |-> iss, snd_max |-> iss,
     begin |-> iss, sendQueue |-> <<>>, send_fin |-> FALSE, snd_fin_seq |-> iss,
     fin_ack_rcvd |-> FALSE, afterRto |-> FALSE, dupacks |-> 0,
     rcv_nxt |-> 0, receiveQueue |-> {}, fin_rcvd |-> FALSE, rcv_fin_seq |-> 0,
     connEstabTimer |-> FALSE, synRexmitTimer |-> FALSE, syn_rexmit_count |-> 0,
     rexmitTimer |-> FALSE, rexmit_count |-> 0, the2MSLTimer |-> 0,
     toApp |-> <<>>, ind |-> <<>>, out |-> {}]

-----------------------------------------------------------------------------
(***************************************************************************)
(* Send queue, receive queue and outgoing segments.                        *)
(***************************************************************************)
BufferEndSeq(c) == Plus(c.begin, Len(c.sendQueue))

getBytesAvailable(c, seq) ==
    IF seqLess(seq, BufferEndSeq(c)) THEN Minus(BufferEndSeq(c), seq) ELSE 0

\* TCPSendQueue::discardUpTo, with its assertion.
discardUpTo(c, seq) ==
    IF seqLE(c.begin, seq) /\ seqLE(seq, BufferEndSeq(c))
    THEN [c EXCEPT !.begin = seq,
                   !.sendQueue = SubSeq(@, Minus(seq, c.begin) + 1, Len(@))]
    ELSE [c EXCEPT !.failed = TRUE]

sendIndicationToApp(c, i) == [c EXCEPT !.ind = Append(@, i)]

Emit(c, s) == [c EXCEPT !.out = @ \cup {s}]

sendSyn(c) ==
    [Emit(c, Seg({"SYN"}, c.iss, 0, 0)) EXCEPT
        !.snd_nxt = Plus(c.iss, 1), !.snd_max = Plus(c.iss, 1)]

sendSynAck(c) ==
    [Emit(c, Seg({"SYN", "ACK"}, c.iss, c.rcv_nxt, 0)) EXCEPT
        !.snd_nxt = Plus(c.iss, 1), !.snd_max = Plus(c.iss, 1)]

sendAck(c) == Emit(c, Seg({"ACK"}, c.snd_nxt, c.rcv_nxt, 0))

sendRst(c, seq) == Emit(c, Seg({"RST"}, seq, 0, 0))

sendFin(c) == Emit(c, Seg({"FIN", "ACK"}, c.snd_nxt, c.rcv_nxt, 0))

\* Mutant: the send queue begins at the sequence number of the SYN.
selectInitialSeqNumAtSyn(c) ==
    LET iss == Plus(c.iss, IssStep)
    IN  [c EXCEPT !.iss = iss, !.snd_una = iss, !.snd_nxt = iss, !.snd_max = iss,
                  !.begin = iss, !.sendQueue = <<>>]

\* The clock that initial sequence numbers are read from has moved on.
selectInitialSeqNum(c) ==
    LET iss == Plus(c.iss, IssStep)
    IN  [c EXCEPT !.iss = iss, !.snd_una = iss, !.snd_nxt = iss, !.snd_max = iss,
                  !.begin = Plus(iss, 1), !.sendQueue = <<>>]

startRexmitTimer(c) == [c EXCEPT !.rexmitTimer = TRUE, !.rexmit_count = 0]

startSynRexmitTimer(c) ==
    [c EXCEPT !.synRexmitTimer = TRUE, !.syn_rexmit_count = 0]

\* scheduleTimeout of a timer that is already scheduled is a runtime error.
start2MSLTimer(c) ==
    IF c.the2MSLTimer = 0
    THEN [c EXCEPT !.the2MSLTimer = MSL2]
    ELSE [c EXCEPT !.failed = TRUE]

\* n calls of sendSegment, from snd_nxt on.  The FIN rides on the last item.
sendSegments(c, n) ==
    LET next == Plus(c.snd_nxt, n)
        fin  == c.send_fin /\ next = c.snd_fin_seq
        data(i) ==
            Seg(IF fin /\ i = n - 1 THEN {"ACK", "FIN"} ELSE {"ACK"},
                Plus(c.snd_nxt, i), c.rcv_nxt,
                c.sendQueue[Minus(c.snd_nxt, c.begin) + i + 1])
    IN  IF ~seqLE(c.begin, c.snd_nxt)
        THEN [c EXCEPT !.failed = TRUE]
        ELSE [c EXCEPT !.snd_nxt = IF fin THEN Plus(next, 1) ELSE next,
                       !.afterRto = @ /\ ~seqGE(next, c.snd_max),
                       !.out = @ \cup {data(i) : i \in 0 .. n - 1}]

\* As much as the buffer holds and the window allows.
BytesToSend(c, win) ==
    LET buffered == getBytesAvailable(c, c.snd_nxt)
        effectiveWin == win - Minus(c.snd_nxt, c.snd_una)
    IN  IF effectiveWin < buffered THEN effectiveWin ELSE buffered

\* Something is outstanding now: snd_max covers it and the REXMIT timer runs.
Outstanding(c) ==
    [c EXCEPT !.snd_max = seqMax(@, c.snd_nxt),
              !.rexmitTimer = TRUE,
              !.rexmit_count = IF c.rexmitTimer THEN @ ELSE 0]

\* TCPConnection::sendData from snd_nxt on.
sendDataFromNxt(c, win) ==
    IF BytesToSend(c, win) <= 0 THEN c
    ELSE Outstanding(sendSegments(c, BytesToSend(c, win)))

\* TCPConnection::sendData: it begins at snd_max, except after a timeout.
sendData(c, win) ==
    sendDataFromNxt(IF c.afterRto THEN c ELSE [c EXCEPT !.snd_nxt = c.snd_max], win)

\* TCPConnection::retransmitOneSegment: one item from snd_una, or the FIN.
retransmitOneSegment(c, called_at_rto) ==
    LET c1  == [c EXCEPT !.snd_nxt = c.snd_una]
        end == BufferEndSeq(c)
        c2  == sendSegments(c1, 1)
    IN  IF c.snd_max # c.snd_una /\ getBytesAvailable(c1, c.snd_una) # 0
        THEN IF called_at_rto THEN c2
             ELSE [c2 EXCEPT !.snd_nxt = seqMax(c.snd_nxt, @)]
        ELSE IF c.send_fin /\ c.snd_fin_seq = end
        THEN [sendFin([c1 EXCEPT !.snd_nxt = end]) EXCEPT
                 !.snd_nxt = Plus(end, 1), !.snd_max = Plus(end, 1)]
        ELSE [c EXCEPT !.failed = TRUE]

\* Mutant: a segment is delivered although something is missing before it.
insertBytesFromSegmentAhead(c, s) ==
    [c EXCEPT !.rcv_nxt = Plus(s.seqNo, 1), !.toApp = Append(@, s.item)]

\* TCPReceiveQueue::insertBytesFromSegment, then everything that is in
\* sequence goes to the application.
insertBytesFromSegment(c, s) ==
    LET q    == c.receiveQueue \cup {<<s.seqNo, s.item>>}
        has(n) == \E r \in q : r[1] = n
        k    == CHOOSE i \in 0 .. Cardinality(q) :
                    /\ \A j \in 0 .. i - 1 : has(Plus(c.rcv_nxt, j))
                    /\ ~has(Plus(c.rcv_nxt, i))
        item(j) == (CHOOSE r \in q : r[1] = Plus(c.rcv_nxt, j - 1))[2]
    IN  [c EXCEPT !.rcv_nxt = Plus(@, k),
                  !.receiveQueue =
                      {r \in q : \A j \in 0 .. k - 1 : r[1] # Plus(c.rcv_nxt, j)},
                  !.toApp = @ \o [j \in 1 .. k |-> item(j)]]

-----------------------------------------------------------------------------
(***************************************************************************)
(* The state machine.                                                      *)
(***************************************************************************)
Synchronized == {"ESTABLISHED", "CLOSE_WAIT", "LAST_ACK", "FIN_WAIT_1",
                 "FIN_WAIT_2", "CLOSING", "TIME_WAIT"}

\* The transition table of TCPConnection::performStateTransition.
NextState(c, event) ==
    LET st == c.state IN
    CASE event = "OPEN_PASSIVE" /\ st = "INIT" -> "LISTEN"
      [] event = "OPEN_ACTIVE" /\ st = "INIT" -> "SYN_SENT"
      [] event = "SEND" /\ st = "LISTEN" -> "SYN_SENT"
      [] event = "CLOSE" /\ st \in {"LISTEN", "SYN_SENT"} -> "CLOSED"
      [] event = "CLOSE" /\ st \in {"SYN_RCVD", "ESTABLISHED"} -> "FIN_WAIT_1"
      [] event = "CLOSE" /\ st = "CLOSE_WAIT" -> "LAST_ACK"
      [] event = "ABORT" /\ st # "INIT" -> "CLOSED"
      [] event = "RCV_SYN" /\ st \in {"LISTEN", "SYN_SENT"} -> "SYN_RCVD"
      [] event = "RCV_SYN_ACK" /\ st = "SYN_SENT" -> "ESTABLISHED"
      [] event = "TIMEOUT_CONN_ESTAB" /\ st = "SYN_SENT" -> "CLOSED"
      [] event \in {"TIMEOUT_CONN_ESTAB", "RCV_RST"} /\ st = "SYN_RCVD" ->
            IF c.active THEN "CLOSED" ELSE "LISTEN"
      [] event = "RCV_RST" /\ st \in Synchronized \cup {"SYN_SENT"} -> "CLOSED"
      [] event = "RCV_UNEXP_SYN" /\ st \in Synchronized \cup {"SYN_RCVD"} -> "CLOSED"
      [] event = "RCV_ACK" /\ st = "SYN_RCVD" -> "ESTABLISHED"
      [] event = "RCV_ACK" /\ st = "LAST_ACK" -> "CLOSED"
      [] event = "RCV_ACK" /\ st = "FIN_WAIT_1" -> "FIN_WAIT_2"
      [] event = "RCV_ACK" /\ st = "CLOSING" -> "TIME_WAIT"
      [] event = "RCV_FIN" /\ st \in {"SYN_RCVD", "ESTABLISHED"} -> "CLOSE_WAIT"
      [] event = "RCV_FIN" /\ st = "FIN_WAIT_1" -> "CLOSING"
      [] event = "RCV_FIN" /\ st = "FIN_WAIT_2" -> "TIME_WAIT"
      [] event = "RCV_FIN_ACK" /\ st = "FIN_WAIT_1" -> "TIME_WAIT"
      [] event = "TIMEOUT_2MSL" /\ st = "TIME_WAIT" -> "CLOSED"
      [] OTHER -> st

cancelSetupTimers(c) ==
    [c EXCEPT !.connEstabTimer = FALSE, !.synRexmitTimer = FALSE]

\* Mutant: the application is told CLOSED again when TIME_WAIT is over.
stateEnteredTellsTwice(c, oldState, event) ==
    CASE c.state \in {"LISTEN", "ESTABLISHED", "LAST_ACK", "FIN_WAIT_1",
                      "FIN_WAIT_2", "CLOSING"} -> cancelSetupTimers(c)
      [] c.state = "CLOSE_WAIT" ->
            cancelSetupTimers(sendIndicationToApp(c, "PEER_CLOSED"))
      [] c.state \in {"TIME_WAIT", "CLOSED"} ->
            sendIndicationToApp(cancelSetupTimers(c), "CLOSED")
      [] OTHER -> c

\* TCPConnection::stateEntered; c is already in its new state.
stateEntered(c, oldState, event) ==
    CASE c.state \in {"LISTEN", "ESTABLISHED", "LAST_ACK", "FIN_WAIT_1",
                      "FIN_WAIT_2", "CLOSING"} -> cancelSetupTimers(c)
      [] c.state = "CLOSE_WAIT" ->
            cancelSetupTimers(sendIndicationToApp(c, "PEER_CLOSED"))
      [] c.state = "TIME_WAIT" -> sendIndicationToApp(c, "CLOSED")
      [] c.state = "CLOSED" ->
            LET c1 == [cancelSetupTimers(c) EXCEPT !.the2MSLTimer = 0,
                                                   !.rexmitTimer = FALSE]
            IN  IF oldState # "TIME_WAIT" /\ event # "ABORT"
                THEN sendIndicationToApp(c1, "CLOSED") ELSE c1
      [] OTHER -> c

\* Every handler ends here.  A handler that fails goes no further.
enterState(c, st, event) ==
    IF c.failed \/ st = c.state THEN c
    ELSE stateEntered([c EXCEPT !.state = st], c.state, event)

performStateTransition(c, event) == enterState(c, NextState(c, event), event)

-----------------------------------------------------------------------------
(***************************************************************************)
(* Application commands.                                                   *)
(***************************************************************************)
process_OPEN_ACTIVE(c) ==
    LET c1 == startSynRexmitTimer(sendSyn(selectInitialSeqNum(c)))
    IN  performStateTransition(
            [c1 EXCEPT !.active = TRUE, !.connEstabTimer = TRUE], "OPEN_ACTIVE")

process_OPEN_PASSIVE(c) == performStateTransition(c, "OPEN_PASSIVE")

\* SEND in LISTEN would turn the passive open into an active one, but sendSyn
\* throws: the foreign socket is unknown.
process_SEND(c, item, win) ==
    LET c1 == [c EXCEPT !.sendQueue = Append(@, item)]
    IN  CASE c.state \in {"SYN_SENT", "SYN_RCVD"} -> c1
          [] c.state \in {"ESTABLISHED", "CLOSE_WAIT"} -> sendData(c1, win)
          [] OTHER -> [c EXCEPT !.failed = TRUE]

\* Mutant: the FIN is sent and the REXMIT timer is not started.
process_CLOSEUntimed(c) ==
    LET end == BufferEndSeq(c)
        c1  == [c EXCEPT !.send_fin = TRUE, !.snd_fin_seq = end]
        c2  == sendFin([c1 EXCEPT !.snd_nxt = c.snd_max])
    IN  IF c.state \in {"SYN_RCVD", "ESTABLISHED", "CLOSE_WAIT"}
        THEN IF c.snd_max = end
             THEN performStateTransition(
                      [c2 EXCEPT !.snd_nxt = Plus(end, 1), !.snd_max = Plus(end, 1)],
                      "CLOSE")
             ELSE c1
        ELSE performStateTransition(c, "CLOSE")

\* CLOSE sends a FIN at once, or defers it to the end of the send queue.
process_CLOSE(c) ==
    LET end == BufferEndSeq(c)
        c1  == [c EXCEPT !.send_fin = TRUE, !.snd_fin_seq = end]
        c2  == startRexmitTimer(sendFin([c1 EXCEPT !.snd_nxt = c.snd_max]))
    IN  CASE c.state \in {"LISTEN", "SYN_SENT"} -> performStateTransition(c, "CLOSE")
          [] c.state \in {"SYN_RCVD", "ESTABLISHED", "CLOSE_WAIT"} ->
               IF c.snd_max = end
               THEN performStateTransition(
                        [c2 EXCEPT !.snd_nxt = Plus(end, 1), !.snd_max = Plus(end, 1)],
                        "CLOSE")
               ELSE c1
          [] OTHER -> [c EXCEPT !.failed = TRUE]

process_ABORT(c) ==
    performStateTransition(
        IF c.state \in {"SYN_RCVD", "ESTABLISHED", "FIN_WAIT_1", "FIN_WAIT_2",
                        "CLOSE_WAIT"}
        THEN sendRst(c, c.snd_nxt) ELSE c, "ABORT")

-----------------------------------------------------------------------------
(***************************************************************************)
(* Timers.                                                                 *)
(***************************************************************************)
process_TIMEOUT_CONN_ESTAB(c) ==
    IF c.state \in {"SYN_SENT", "SYN_RCVD"}
    THEN performStateTransition(
             IF c.active THEN sendIndicationToApp(c, "TIMED_OUT") ELSE c,
             "TIMEOUT_CONN_ESTAB")
    ELSE [c EXCEPT !.failed = TRUE]

process_TIMEOUT_2MSL(c) ==
    IF c.state = "TIME_WAIT"
    THEN performStateTransition([c EXCEPT !.the2MSLTimer = 0], "TIMEOUT_2MSL")
    ELSE [c EXCEPT !.failed = TRUE]

process_TIMEOUT_SYN_REXMIT(c) ==
    LET c1 == [c EXCEPT !.syn_rexmit_count = @ + 1]
    IN  CASE c1.syn_rexmit_count > MAX_SYN_REXMIT_COUNT ->
               performStateTransition(c1, "ABORT")
          [] c.state = "SYN_SENT" -> sendSyn(c1)
          [] c.state = "SYN_RCVD" -> sendSynAck(c1)
          [] OTHER -> [c EXCEPT !.failed = TRUE]

\* Mutant: one retransmission too many (compare before counting).
processRexmitTimerLate(c) ==
    LET c1 == [c EXCEPT !.rexmit_count = @ + 1]
    IN  IF c.rexmit_count > MAX_REXMIT_COUNT
        THEN performStateTransition(sendIndicationToApp(c1, "TIMED_OUT"), "ABORT")
        ELSE retransmitOneSegment([c1 EXCEPT !.afterRto = TRUE], TRUE)

\* TCPReno::processRexmitTimer.  Giving up is an ABORT that sends no RST.
processRexmitTimer(c) ==
    LET c1 == [c EXCEPT !.rexmit_count = @ + 1]
    IN  IF c1.rexmit_count > MAX_REXMIT_COUNT
        THEN performStateTransition(sendIndicationToApp(c1, "TIMED_OUT"), "ABORT")
        ELSE retransmitOneSegment([c1 EXCEPT !.afterRto = TRUE], TRUE)

-----------------------------------------------------------------------------
(***************************************************************************)
(* Arriving segments.                                                      *)
(***************************************************************************)
Has(s, flag) == flag \in s.flags

\* Mutant: only the upper edge of the window is tested.
isSegmentAcceptableOldToo(c, s) == seqLE(s.seqNo, Plus(c.rcv_nxt, RcvWnd))

\* The window test of RFC 793; a segment without text is also let in when its
\* ackNo (set or not) acknowledges something.
isSegmentAcceptable(c, s) ==
    LET wndEnd == Plus(c.rcv_nxt, RcvWnd)
        end    == Plus(s.seqNo, 1)
    IN  IF PayloadLength(s) = 0
        THEN \/ seqLE(c.rcv_nxt, s.seqNo) /\ seqLE(s.seqNo, wndEnd)
             \/ /\ seqLess(c.snd_una, s.ackNo)
                /\ seqLE(s.ackNo, IF c.afterRto THEN c.snd_max ELSE c.snd_nxt)
        ELSE \/ seqLE(c.rcv_nxt, s.seqNo) /\ seqLess(s.seqNo, wndEnd)
             \/ seqLess(c.rcv_nxt, end) /\ seqLE(end, wndEnd)

\* A segment for a connection that does not exist.
segmentArrivalWhileClosed(c, s) ==
    CASE Has(s, "RST") -> c
      [] Has(s, "ACK") /\ ~Has(s, "RST") -> sendRst(c, s.ackNo)
      [] OTHER -> Emit(c, Seg({"RST", "ACK"}, 0, Plus(s.seqNo, SegLen(s)), 0))

processSegmentInListen(c, s) ==
    LET c1 == selectInitialSeqNum(
                  [c EXCEPT !.rcv_nxt = Plus(s.seqNo, 1), !.receiveQueue = {}])
    IN  CASE Has(s, "RST") -> c
          [] Has(s, "ACK") /\ ~Has(s, "RST") -> sendRst(c, s.ackNo)
          [] s.flags \cap {"RST", "ACK", "SYN"} = {"SYN"} ->
               performStateTransition(
                   [startSynRexmitTimer(sendSynAck(c1)) EXCEPT !.connEstabTimer = TRUE],
                   "RCV_SYN")
          [] OTHER -> c

\* TCPBaseAlg::established(true): an ACK, on data if some is queued already.
ackOfSyn(c, win) ==
    LET c1 == sendData(c, win)
    IN  IF c1.out = c.out THEN sendAck(c1) ELSE c1

processSegmentInSynSent(c, s, win) ==
    LET badAck == Has(s, "ACK") /\
                  (seqLE(s.ackNo, c.iss) \/ seqGreater(s.ackNo, c.snd_nxt))
        c1 == [c EXCEPT !.rcv_nxt = Plus(s.seqNo, 1), !.receiveQueue = {}]
        c2 == discardUpTo([c1 EXCEPT !.snd_una = s.ackNo], s.ackNo)
    IN  CASE badAck -> IF Has(s, "RST") THEN c ELSE sendRst(c, s.ackNo)
          [] ~badAck /\ Has(s, "RST") ->
               IF Has(s, "ACK")
               THEN performStateTransition(
                        sendIndicationToApp(c, "CONNECTION_RESET"), "RCV_RST")
               ELSE c
          [] ~badAck /\ ~Has(s, "RST") /\ Has(s, "SYN") ->
               IF Has(s, "ACK")
               THEN performStateTransition(
                        sendIndicationToApp(ackOfSyn(c2, win), "ESTABLISHED"),
                        "RCV_SYN_ACK")
               ELSE performStateTransition(
                        startSynRexmitTimer(sendSynAck(c1)), "RCV_SYN")
          [] OTHER -> c

\* Step two of processSegment1stThru8th, processRstInSynReceived included.
processRst(c) ==
    LET flushed == discardUpTo(c, BufferEndSeq(c))
    IN  performStateTransition(
            CASE c.state = "SYN_RCVD" ->
                   IF c.active
                   THEN sendIndicationToApp(flushed, "CONNECTION_REFUSED")
                   ELSE flushed
              [] c.state \in {"ESTABLISHED", "FIN_WAIT_1", "FIN_WAIT_2", "CLOSE_WAIT"} ->
                   sendIndicationToApp(c, "CONNECTION_RESET")
              [] OTHER -> c,
            "RCV_RST")

\* TCPReno::receivedDataAck, whose caller resets dupacks.
receivedDataAck(c, win) ==
    LET c1 == IF c.snd_una = c.snd_max THEN [c EXCEPT !.rexmitTimer = FALSE]
                                       ELSE startRexmitTimer(c)
    IN  [sendData(c1, win) EXCEPT !.dupacks = 0]

\* TCPReno::receivedDuplicateAck; a count above DUPTHRESH is as good as any.
receivedDuplicateAck(c, win) ==
    LET c1 == [c EXCEPT !.dupacks = IF @ > DUPTHRESH THEN @ ELSE @ + 1]
    IN  IF c1.dupacks < DUPTHRESH THEN c1
        ELSE sendData(IF c1.dupacks = DUPTHRESH
                      THEN retransmitOneSegment(c1, FALSE) ELSE c1, win)

\* The ACK acknowledges something that has not been sent.
AcksUnsent(c, s) == ~seqGE(c.snd_una, s.ackNo) /\ ~seqLE(s.ackNo, c.snd_max)

\* Mutant: the FIN is taken to have no sequence number of its own.
AcksFinAtEnd(c, s) == c.send_fin /\ s.ackNo = c.snd_fin_seq

AcksFin(c, s) == c.send_fin /\ s.ackNo = Plus(c.snd_fin_seq, 1)

\* Mutant: snd_nxt is not moved up to an ACK that is ahead of it.
processAckInEstabEtcBehind(c, s, win) ==
    LET c1 == discardUpTo(
                  [c EXCEPT !.snd_una = s.ackNo,
                            !.fin_ack_rcvd = @ \/ AcksFin(c, s)],
                  IF AcksFin(c, s) THEN c.snd_fin_seq ELSE s.ackNo)
    IN  IF seqGE(c.snd_una, s.ackNo) THEN [c EXCEPT !.dupacks = 0]
        ELSE IF PayloadLength(s) = 0 THEN receivedDataAck(c1, win) ELSE c1

\* Mutant: an ACK discards everything that was sent.
processAckInEstabEtcAll(c, s, win) ==
    LET c1 == discardUpTo([c EXCEPT !.snd_una = c.snd_max], BufferEndSeq(c))
    IN  IF seqGE(c.snd_una, s.ackNo) THEN [c EXCEPT !.dupacks = 0]
        ELSE IF PayloadLength(s) = 0 THEN receivedDataAck(c1, win) ELSE c1

processAckInEstabEtc(c, s, win) ==
    LET c1 == discardUpTo(
                  [c EXCEPT !.snd_una = s.ackNo,
                            !.snd_nxt = seqMax(@, s.ackNo),
                            !.fin_ack_rcvd = @ \/ AcksFin(c, s)],
                  IF AcksFin(c, s) THEN c.snd_fin_seq ELSE s.ackNo)
    IN  IF seqGE(c.snd_una, s.ackNo)
        THEN IF c.snd_una = s.ackNo /\ PayloadLength(s) = 0 /\ c.snd_una # c.snd_max
             THEN receivedDuplicateAck(c, win)
             ELSE [c EXCEPT !.dupacks = 0]
        ELSE IF PayloadLength(s) = 0 /\ c.state # "SYN_RCVD"
             THEN receivedDataAck(c1, win) ELSE c1

\* Step seven: the text goes to the receive queue, and what waited for it goes
\* to the application with it.  c0 is the connection before step five.
processText(c, s, win, c0) ==
    LET c1 == insertBytesFromSegment(c, s)
        c2 == IF seqGreater(c.snd_una, c0.snd_una) THEN receivedDataAck(c1, win) ELSE c1
    IN  IF /\ c.state \in {"SYN_RCVD", "ESTABLISHED", "FIN_WAIT_1", "FIN_WAIT_2"}
           /\ PayloadLength(s) > 0
        THEN IF c1.rcv_nxt = c.rcv_nxt THEN sendAck(c2) ELSE c2
        ELSE c

\* Mutant: a FIN that overtook data counts at once.
FinInSequenceEarly(c, s, old_rcv_nxt) == Has(s, "FIN")

\* The FIN of the peer is next in sequence: one that waited for this text, or
\* the one in this segment.
FinInSequence(c, s, old_rcv_nxt) ==
    \/ c.fin_rcvd /\ c.rcv_nxt = c.rcv_fin_seq /\ c.rcv_nxt # old_rcv_nxt
    \/ Has(s, "FIN") /\ c.rcv_nxt = Plus(s.seqNo, PayloadLength(s))

\* Mutant: a FIN that comes with the ACK of ours does not start the 2MSL timer.
processFinUntimed(c, s, old_rcv_nxt) ==
    LET c1 == [c EXCEPT !.rcv_nxt = Plus(@, 1)]
    IN  IF FinInSequence(c, s, old_rcv_nxt)
        THEN IF c.state = "FIN_WAIT_2" THEN start2MSLTimer(c1) ELSE c1
        ELSE c

\* Step eight: advance rcv_nxt over the FIN, or remember where it is.
processFin(c, s, old_rcv_nxt) ==
    LET c1 == [c EXCEPT !.rcv_nxt = Plus(@, 1)]
    IN  IF FinInSequence(c, s, old_rcv_nxt)
        THEN CASE \/ c.state = "FIN_WAIT_1" /\ c.fin_ack_rcvd
                  \/ c.state = "FIN_WAIT_2" -> start2MSLTimer(c1)
               [] c.state = "TIME_WAIT" -> [c1 EXCEPT !.the2MSLTimer = MSL2]
               [] OTHER -> c1
        ELSE IF Has(s, "FIN")
        THEN [c EXCEPT !.fin_rcvd = TRUE,
                       !.rcv_fin_seq = Plus(s.seqNo, PayloadLength(s))]
        ELSE c

\* TCPBaseAlg::receiveSeqChanged: an ACK, unless data took it along already.
receiveSeqChanged(c, fin) ==
    IF ~fin /\ \E r \in c.out : Has(r, "ACK") /\ r.ackNo = c.rcv_nxt
    THEN c ELSE sendAck(c)

\* The FIN of a CLOSE that had to wait has just left.
DeferredClose(c, old_snd_nxt) ==
    /\ c.send_fin /\ c.snd_nxt = Plus(c.snd_fin_seq, 1)
    /\ \/ c.state \in {"ESTABLISHED", "SYN_RCVD"}
       \/ c.state = "CLOSE_WAIT" /\ c.snd_nxt # old_snd_nxt

\* The event processSegment1stThru8th returns.  A CLOSE that had to wait and is
\* carried out now comes before the FIN of the peer (fin: it was consumed), and
\* that before the ACK of our own.  c0 is the connection before step five.
SegmentEvent(c, fin, c0) ==
    CASE DeferredClose(c, c0.snd_nxt) -> "CLOSE"
      [] ~DeferredClose(c, c0.snd_nxt) /\ fin ->
            IF c.state = "FIN_WAIT_1" /\ c.fin_ack_rcvd THEN "RCV_FIN_ACK" ELSE "RCV_FIN"
      [] OTHER ->
            IF \/ c.state = "SYN_RCVD"
               \/ c.state \in {"FIN_WAIT_1", "CLOSING"} /\ c.fin_ack_rcvd
            THEN "RCV_ACK" ELSE "IGNORE"

concludeSegment(c, fin, c0) ==
    performStateTransition(c, SegmentEvent(c, fin, c0))

ackNewText(c, fin, c0) ==
    IF c.rcv_nxt # c0.rcv_nxt THEN receiveSeqChanged(c, fin) ELSE c

\* What follows the text: step eight, the ACK for what has moved rcv_nxt, and
\* the event.
processAfterText(c, s, c0) ==
    LET fin == FinInSequence(c, s, c0.rcv_nxt)
    IN  concludeSegment(ackNewText(processFin(c, s, c0.rcv_nxt), fin, c0), fin, c0)

\* In CLOSING the ACK of our FIN begins TIME_WAIT.
timeWaitAfterClosing(c) ==
    IF c.state = "CLOSING" /\ c.fin_ack_rcvd THEN start2MSLTimer(c) ELSE c

\* Step five for an ACK that is acceptable.
processAck(c, s, win) ==
    IF c.state = "TIME_WAIT"
    THEN [sendAck(c) EXCEPT !.the2MSLTimer = MSL2]
    ELSE timeWaitAfterClosing(processAckInEstabEtc(c, s, win))

\* Steps five to eight.
processAckTextFin(c, s, win) ==
    CASE c.state # "TIME_WAIT" /\ AcksUnsent(c, s) -> [sendAck(c) EXCEPT !.dupacks = 0]
      [] c.state = "LAST_ACK" /\ ~AcksUnsent(c, s) /\ AcksFin(c, s) ->
            performStateTransition(processAck(c, s, win), "RCV_ACK")
      [] OTHER -> processAfterText(processText(processAck(c, s, win), s, win, c), s, c)

\* The checks before step five, in their order.
processSegment1stThru8th(c, s, win) ==
    IF ~isSegmentAcceptable(c, s) THEN IF Has(s, "RST") THEN c ELSE sendAck(c)
    ELSE IF Has(s, "RST") THEN processRst(c)
    ELSE IF Has(s, "SYN")
    THEN performStateTransition(
             sendIndicationToApp(c, "CONNECTION_RESET"), "RCV_UNEXP_SYN")
    ELSE IF ~Has(s, "ACK") THEN c
    ELSE IF c.state = "SYN_RCVD" /\ ~(seqLE(c.snd_una, s.ackNo) /\ seqLE(s.ackNo, c.snd_nxt))
    THEN sendRst(c, s.ackNo)
    ELSE processAckTextFin(
             IF c.state = "SYN_RCVD" THEN sendIndicationToApp(c, "ESTABLISHED") ELSE c,
             s, win)

process_RCV_SEGMENT(c, s, win) ==
    CASE c.state \in {"INIT", "CLOSED"} -> segmentArrivalWhileClosed(c, s)
      [] c.state = "LISTEN" -> processSegmentInListen(c, s)
      [] c.state = "SYN_SENT" -> processSegmentInSynSent(c, s, win)
      [] OTHER -> processSegment1stThru8th(c, s, win)
=============================================================================
